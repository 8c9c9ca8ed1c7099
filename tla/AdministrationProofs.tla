------------------------ MODULE AdministrationProofs ------------------------
(***************************************************************************)
(* Theorems about what the owner administers, for any markets, master      *)
(* contracts, precisions and inputs.                                       *)
(*                                                                         *)
(* The invariant is one of each of the three that are administered.  For   *)
(* the registry it is the two properties themselves and what creates an    *)
(* address only once; for a configuration, that every rate is in the range *)
(* that init and the setters keep, which is what module Market assumes of  *)
(* its constants: its lemmas hold of every configuration the owner gets to.*)
(***************************************************************************)
EXTENDS MCAdministration, SequenceTheorems, WellFoundedInduction, TLAPS

-----------------------------------------------------------------------------
(* Lists.                                                                  *)

LEMMA FirstIndex ==
    ASSUME NEW S, NEW list \in Seq(S), NEW x \in Listed(list)
    PROVE  /\ IndexOf(list, x) \in 1..Len(list)
           /\ list[IndexOf(list, x)] = x
<1> DEFINE T == {i \in 1..Len(list) : list[i] = x}
<1>1. DOMAIN list = 1..Len(list) /\ Len(list) \in Nat
  OBVIOUS
<1>2. T \subseteq Nat /\ T # {}
  BY <1>1 DEF Listed
<1>3. PICK i \in T : \A j \in T : <<j, i>> \notin OpToRel(<, Nat)
  BY <1>2, NatLessThanWellFounded, WFMin
<1>4. \A j \in T : ~(j < i)
  BY <1>2, <1>3 DEF OpToRel
<1>5. i \in DOMAIN list /\ list[i] = x /\ \A j \in 1..(i - 1) : list[j] # x
  <2>1. i \in 1..Len(list) /\ list[i] = x
    OBVIOUS
  <2>2. ASSUME NEW j \in 1..(i - 1), list[j] = x
        PROVE  FALSE
    <3>1. j \in 1..Len(list) /\ j < i
      BY <1>1, <2>1
    <3> QED
      BY <1>4, <2>2, <3>1
  <2> QED
    BY <1>1, <2>1, <2>2
<1> QED
  BY <1>1, <1>5 DEF IndexOf

(* The last entry takes the place of the one taken off the list.           *)
LEMMA SwapAndPopFacts ==
    ASSUME NEW S, NEW list \in Seq(S), NEW x \in Listed(list)
    PROVE  /\ SwapAndPop(list, x) \in Seq(S)
           /\ Len(list) \in Nat \ {0}
           /\ Len(SwapAndPop(list, x)) = Len(list) - 1
           /\ \A i \in 1..(Len(list) - 1) :
                 SwapAndPop(list, x)[i] = IF i = IndexOf(list, x) THEN list[Len(list)]
                                          ELSE list[i]
<1> DEFINE n == Len(list)
           k == IndexOf(list, x)
           swapped == [list EXCEPT ![k] = list[n]]
<1>1. k \in 1..n /\ n \in Nat
  BY FirstIndex
<1>2. n \in 1..n /\ list[n] \in S
  BY <1>1, ElementOfSeq
<1>3. /\ swapped \in Seq(S) /\ Len(swapped) = n
      /\ \A j \in 1..n : swapped[j] = IF j = k THEN list[n] ELSE list[j]
  BY <1>1, <1>2, ExceptSeq
<1> HIDE DEF swapped, k
<1>4. \A i \in 1..(n - 1) : swapped[i] \in S
  BY <1>1, <1>3, ElementOfSeq
<1>5. /\ SubSeq(swapped, 1, n - 1) \in Seq(S)
      /\ Len(SubSeq(swapped, 1, n - 1)) = IF 1 <= n - 1 THEN n - 1 - 1 + 1 ELSE 0
      /\ \A i \in 1..(n - 1 - 1 + 1) : SubSeq(swapped, 1, n - 1)[i] = swapped[1 + i - 1]
  BY <1>1, <1>4, SubSeqProperties
<1>6. Len(SubSeq(swapped, 1, n - 1)) = n - 1
  <2>1. n \in Nat \ {0} /\ n - 1 - 1 + 1 = n - 1
    BY <1>1, <1>2
  <2> HIDE DEF n
  <2>2. CASE 1 <= n - 1
    BY <1>5, <2>1, <2>2
  <2>3. CASE ~(1 <= n - 1)
    <3>1. n - 1 = 0
      BY <2>1, <2>3
    <3> QED
      BY <1>5, <2>3, <3>1
  <2> QED
    BY <2>2, <2>3
<1>7. \A i \in 1..(n - 1) :
         SubSeq(swapped, 1, n - 1)[i] = IF i = k THEN list[n] ELSE list[i]
  BY <1>1, <1>3, <1>5
<1>8. SwapAndPop(list, x) = SubSeq(swapped, 1, n - 1)
  BY DEF SwapAndPop, swapped, k
<1> QED
  BY <1>1, <1>2, <1>5, <1>6, <1>7, <1>8 DEF k

(* Nothing but one entry of x goes.                                        *)
LEMMA OthersStayListed ==
    ASSUME NEW S, NEW list \in Seq(S), NEW x \in Listed(list),
           NEW y \in Listed(list), y # x
    PROVE  y \in Listed(SwapAndPop(list, x))
<1> DEFINE n == Len(list)
           k == IndexOf(list, x)
           rest == SwapAndPop(list, x)
<1>1. /\ rest \in Seq(S) /\ n \in Nat \ {0} /\ Len(rest) = n - 1
      /\ \A i \in 1..(n - 1) : rest[i] = IF i = k THEN list[n] ELSE list[i]
      /\ k \in 1..n /\ list[k] = x
  BY SwapAndPopFacts, FirstIndex
<1>2. PICK i \in 1..n : list[i] = y
  BY DEF Listed
<1> HIDE DEF k, rest
<1>3. DOMAIN rest = 1..(n - 1)
  BY <1>1
<1>4. CASE i # n
  <2>1. i \in 1..(n - 1) /\ i # k
    BY <1>1, <1>2, <1>4
  <2>2. rest[i] = y
    BY <1>1, <1>2, <2>1
  <2> QED
    BY <1>3, <2>1, <2>2 DEF Listed, rest
<1>5. CASE i = n
  <2>1. k \in 1..(n - 1)
    BY <1>1, <1>2, <1>5
  <2>2. rest[k] = y
    BY <1>1, <1>2, <1>5, <2>1
  <2> QED
    BY <1>3, <2>1, <2>2 DEF Listed, rest
<1> QED
  BY <1>4, <1>5

LEMMA NothingNewListed ==
    ASSUME NEW S, NEW list \in Seq(S), NEW x \in Listed(list)
    PROVE  Listed(SwapAndPop(list, x)) \subseteq Listed(list)
<1> DEFINE n == Len(list)
           k == IndexOf(list, x)
           rest == SwapAndPop(list, x)
<1>1. /\ rest \in Seq(S) /\ n \in Nat \ {0} /\ Len(rest) = n - 1
      /\ \A i \in 1..(n - 1) : rest[i] = IF i = k THEN list[n] ELSE list[i]
      /\ k \in 1..n
  BY SwapAndPopFacts, FirstIndex
<1> HIDE DEF k, rest
<1>2. DOMAIN rest = 1..(n - 1) /\ DOMAIN list = 1..n
  BY <1>1
<1>3. ASSUME NEW i \in 1..(n - 1)
      PROVE  \E j \in 1..n : rest[i] = list[j]
  <2>1. n \in 1..n /\ i \in 1..n
    BY <1>1
  <2> QED
    BY <1>1, <2>1
<1>4. Listed(rest) \subseteq Listed(list)
  BY <1>2, <1>3 DEF Listed
<1> QED
  BY <1>4 DEF rest

(* On a list without duplicates, x itself is gone.                         *)
LEMMA NoDuplicatesAfterPop ==
    ASSUME NEW S, NEW list \in Seq(S), NEW x \in Listed(list), NoDuplicates(list)
    PROVE  /\ NoDuplicates(SwapAndPop(list, x))
           /\ x \notin Listed(SwapAndPop(list, x))
<1> DEFINE n == Len(list)
           k == IndexOf(list, x)
           rest == SwapAndPop(list, x)
<1>1. /\ rest \in Seq(S) /\ n \in Nat \ {0} /\ Len(rest) = n - 1
      /\ \A i \in 1..(n - 1) : rest[i] = IF i = k THEN list[n] ELSE list[i]
      /\ k \in 1..n /\ list[k] = x
  BY SwapAndPopFacts, FirstIndex
<1> HIDE DEF k, rest
<1>2. DOMAIN rest = 1..(n - 1) /\ DOMAIN list = 1..n
  BY <1>1
<1>3. \A i, j \in 1..n : list[i] = list[j] => i = j
  BY <1>2 DEF NoDuplicates
<1>4. ASSUME NEW i \in 1..(n - 1), NEW j \in 1..(n - 1), rest[i] = rest[j]
      PROVE  i = j
  <2>1. /\ i \in 1..n /\ j \in 1..n /\ n \in 1..n /\ i # n /\ j # n
    BY <1>1
  <2>2. CASE i = k
    BY <1>1, <1>3, <1>4, <2>1, <2>2
  <2>3. CASE j = k
    BY <1>1, <1>3, <1>4, <2>1, <2>3
  <2>4. CASE i # k /\ j # k
    BY <1>1, <1>3, <1>4, <2>1, <2>4
  <2> QED
    BY <2>2, <2>3, <2>4
<1>5. ASSUME NEW i \in 1..(n - 1), rest[i] = x
      PROVE  FALSE
  <2>1. i \in 1..n /\ n \in 1..n /\ i # n
    BY <1>1
  <2>2. CASE i = k
    <3>1. list[n] = list[k]
      BY <1>1, <1>5, <2>2
    <3> QED
      BY <1>1, <1>3, <2>1, <2>2, <3>1
  <2>3. CASE i # k
    <3>1. list[i] = list[k]
      BY <1>1, <1>5, <2>3
    <3> QED
      BY <1>1, <1>3, <2>1, <2>3, <3>1
  <2> QED
    BY <2>2, <2>3
<1>6. NoDuplicates(rest) /\ x \notin Listed(rest)
  BY <1>2, <1>4, <1>5 DEF NoDuplicates, Listed
<1> QED
  BY <1>6 DEF rest

LEMMA AppendFacts ==
    ASSUME NEW S, NEW list \in Seq(S), NEW x \in S
    PROVE  /\ Append(list, x) \in Seq(S)
           /\ Listed(Append(list, x)) = Listed(list) \cup {x}
           /\ NoDuplicates(list) /\ x \notin Listed(list)
                 => NoDuplicates(Append(list, x))
<1> DEFINE n == Len(list)
           more == Append(list, x)
<1>1. /\ more \in Seq(S) /\ n \in Nat /\ Len(more) = n + 1
      /\ DOMAIN list = 1..n /\ DOMAIN more = 1..(n + 1)
      /\ \A i \in 1..n : more[i] = list[i]
      /\ more[n + 1] = x
  OBVIOUS
<1> HIDE DEF more
<1>2. \A i \in 1..(n + 1) : i \in 1..n \/ i = n + 1
  BY <1>1
<1>3. n + 1 \in 1..(n + 1) /\ 1..n \subseteq 1..(n + 1)
  BY <1>1
<1>4. Listed(more) = Listed(list) \cup {x}
  BY <1>1, <1>2, <1>3 DEF Listed
<1>5. NoDuplicates(list) /\ x \notin Listed(list) => NoDuplicates(more)
  BY <1>1, <1>2 DEF NoDuplicates, Listed
<1> QED
  BY <1>1, <1>4, <1>5 DEF more

-----------------------------------------------------------------------------
(* The registry.                                                           *)

Reachable(m) ==
    /\ masterContractOf[m] \in masterContracts
    /\ m \in Listed(clonesOf[masterContractOf[m]])

ClonesType ==
    /\ masterContracts \subseteq Masters
    /\ masterContractOf \in [Markets -> Masters \cup {NoContract}]
    /\ clonesOf \in [Masters -> Seq(Markets)]

(* A registered market was created, so that it is not created again under  *)
(* another master contract.                                                *)
RegistryInv ==
    /\ ClonesType
    /\ created \subseteq Markets
    /\ isMarketRegistered \subseteq created
    /\ allBigBangMarkets \in Seq(BigBangs)
    /\ allOriginsMarkets \in Seq(OriginsMarkets)
    /\ ListsAreExact
    /\ \A m \in isMarketRegistered : Reachable(m)

LEMMA ReachableIsSeen ==
    ASSUME \A m \in isMarketRegistered : Reachable(m)
    PROVE  RegisteredAreReachable
  BY DEF Reachable, RegisteredAreReachable, MayExecute, AllMasterContractClones

(* A new clone, or a market added to those of a master contract.           *)
LEMMA ClonePushed ==
    ASSUME ClonesType, NEW mc \in Masters, NEW m \in Markets,
           masterContractOf' = [masterContractOf EXCEPT ![m] = mc],
           clonesOf' = [clonesOf EXCEPT ![mc] = Append(@, m)],
           UNCHANGED masterContracts
    PROVE  /\ ClonesType'
           /\ mc \in masterContracts => Reachable(m)'
           /\ \A o \in Markets \ {m} : Reachable(o) => Reachable(o)'
<1>1. /\ clonesOf[mc] \in Seq(Markets)
      /\ clonesOf'[mc] = Append(clonesOf[mc], m)
      /\ \A other \in Masters \ {mc} : clonesOf'[other] = clonesOf[other]
      /\ masterContractOf'[m] = mc
      /\ \A o \in Markets \ {m} : masterContractOf'[o] = masterContractOf[o]
  BY DEF ClonesType
<1>2. /\ clonesOf'[mc] \in Seq(Markets)
      /\ Listed(clonesOf'[mc]) = Listed(clonesOf[mc]) \cup {m}
  BY <1>1, AppendFacts
<1>3. ClonesType'
  BY <1>1, <1>2 DEF ClonesType
<1>4. mc \in masterContracts => Reachable(m)'
  <2>1. m \in Listed(clonesOf'[masterContractOf'[m]])
    BY <1>1, <1>2
  <2> QED
    BY <1>1, <2>1 DEF Reachable
<1>5. ASSUME NEW o \in Markets \ {m}, Reachable(o)
      PROVE  Reachable(o)'
  <2>1. masterContractOf[o] \in Masters
    BY <1>5 DEF Reachable, ClonesType
  <2>2. o \in Listed(clonesOf'[masterContractOf[o]])
    BY <1>1, <1>2, <1>5, <2>1 DEF Reachable
  <2> QED
    BY <1>1, <1>5, <2>2 DEF Reachable
<1> QED
  BY <1>3, <1>4, <1>5

LEMMA CloneRemoved ==
    ASSUME ClonesType, NEW m \in Markets, RemoveClone(m), UNCHANGED masterContracts
    PROVE  /\ ClonesType'
           /\ \A o \in Markets \ {m} : Reachable(o) => Reachable(o)'
<1> DEFINE mc == masterContractOf[m]
<1>1. mc \in Masters /\ m \in Listed(clonesOf[mc])
  BY DEF RemoveClone, ClonesType
<1>2. /\ clonesOf[mc] \in Seq(Markets)
      /\ clonesOf' = [clonesOf EXCEPT ![mc] = SwapAndPop(clonesOf[mc], m)]
      /\ masterContractOf' = [masterContractOf EXCEPT ![m] = NoContract]
  BY <1>1 DEF RemoveClone, ClonesType
<1> HIDE DEF mc
<1>3. SwapAndPop(clonesOf[mc], m) \in Seq(Markets)
  BY <1>1, <1>2, SwapAndPopFacts
<1>4. ClonesType'
  BY <1>1, <1>2, <1>3 DEF ClonesType
<1>5. ASSUME NEW o \in Markets \ {m}, Reachable(o)
      PROVE  Reachable(o)'
  <2>1. /\ masterContractOf[o] \in Masters /\ masterContractOf'[o] = masterContractOf[o]
        /\ o \in Listed(clonesOf[masterContractOf[o]])
        /\ masterContractOf[o] \in masterContracts
    BY <1>2, <1>5 DEF Reachable, ClonesType
  <2>2. CASE masterContractOf[o] = mc
    <3>1. o \in Listed(SwapAndPop(clonesOf[mc], m))
      BY <1>1, <1>2, <2>1, <2>2, OthersStayListed
    <3>2. clonesOf'[mc] = SwapAndPop(clonesOf[mc], m)
      BY <1>1, <1>2 DEF ClonesType
    <3> QED
      BY <2>1, <2>2, <3>1, <3>2 DEF Reachable
  <2>3. CASE masterContractOf[o] # mc
    <3>1. clonesOf'[masterContractOf[o]] = clonesOf[masterContractOf[o]]
      BY <1>1, <1>2, <2>1, <2>3 DEF ClonesType
    <3> QED
      BY <2>1, <3>1 DEF Reachable
  <2> QED
    BY <2>2, <2>3
<1> QED
  BY <1>4, <1>5

LEMMA RegisterMasterContractKeeps ==
    ASSUME RegistryInv, NEW mc \in Masters, RegisterMasterContract(mc)
    PROVE  RegistryInv'
  BY DEF RegisterMasterContract, RegistryInv, ClonesType, ListsAreExact, NoDuplicates,
         Listed, Reachable, cloneVars, marketVars, originVars

LEMMA DeployKeeps ==
    ASSUME RegistryInv, NEW mc \in Masters, NEW m \in Markets, Deploy(mc, m)
    PROVE  RegistryInv'
<1>1. /\ m \notin created /\ created' = created \cup {m}
      /\ masterContractOf' = [masterContractOf EXCEPT ![m] = mc]
      /\ clonesOf' = [clonesOf EXCEPT ![mc] = Append(@, m)]
      /\ UNCHANGED <<masterContracts, isMarketRegistered, allBigBangMarkets,
                     isOriginRegistered, allOriginsMarkets>>
  BY DEF Deploy, Clone, marketVars, originVars
<1>2. /\ ClonesType' /\ \A o \in Markets \ {m} : Reachable(o) => Reachable(o)'
  BY <1>1, ClonePushed DEF RegistryInv
<1>3. ListsAreExact'
  BY <1>1 DEF RegistryInv, ListsAreExact
<1>4. \A o \in isMarketRegistered' : Reachable(o)'
  BY <1>1, <1>2 DEF RegistryInv
<1> QED
  BY <1>1, <1>2, <1>3, <1>4 DEF RegistryInv

(* A market becomes registered, on the list of BigBang markets or not.     *)
LEMMA MarketRegistered ==
    ASSUME RegistryInv, NEW mc \in masterContracts, NEW m \in Markets,
           m \notin isMarketRegistered, created' = created \cup {m},
           isMarketRegistered' = isMarketRegistered \cup {m},
           masterContractOf' = [masterContractOf EXCEPT ![m] = mc],
           clonesOf' = [clonesOf EXCEPT ![mc] = Append(@, m)],
           UNCHANGED <<masterContracts, originVars>>,
           \/ m \in Singularities /\ UNCHANGED allBigBangMarkets
           \/ m \in BigBangs /\ allBigBangMarkets' = Append(allBigBangMarkets, m)
    PROVE  RegistryInv'
<1>1. /\ ClonesType' /\ Reachable(m)'
      /\ \A o \in Markets \ {m} : Reachable(o) => Reachable(o)'
  BY ClonePushed DEF RegistryInv, ClonesType
<1>2. \A o \in isMarketRegistered' : Reachable(o)'
  BY <1>1 DEF RegistryInv
<1>3. /\ allBigBangMarkets' \in Seq(BigBangs)
      /\ NoDuplicates(allBigBangMarkets')
      /\ Listed(allBigBangMarkets') = isMarketRegistered' \cap BigBangs
  <2>1. /\ allBigBangMarkets \in Seq(BigBangs) /\ NoDuplicates(allBigBangMarkets)
        /\ Listed(allBigBangMarkets) = isMarketRegistered \cap BigBangs
    BY DEF RegistryInv, ListsAreExact
  <2>2. CASE m \in Singularities /\ UNCHANGED allBigBangMarkets
    <3>1. m \notin BigBangs
      BY <2>2, RegistryAssumption
    <3> QED
      BY <2>1, <2>2, <3>1
  <2>3. CASE m \in BigBangs /\ allBigBangMarkets' = Append(allBigBangMarkets, m)
    <3>1. m \notin Listed(allBigBangMarkets)
      BY <2>1
    <3> QED
      BY <2>1, <2>3, <3>1, AppendFacts
  <2> QED
    BY <2>2, <2>3
<1>4. /\ allOriginsMarkets' \in Seq(OriginsMarkets)
      /\ NoDuplicates(allOriginsMarkets') /\ Listed(allOriginsMarkets') = isOriginRegistered'
  BY DEF originVars, RegistryInv, ListsAreExact
<1>5. created' \subseteq Markets /\ isMarketRegistered' \subseteq created'
  BY DEF RegistryInv
<1>6. ListsAreExact'
  BY <1>3, <1>4 DEF ListsAreExact
<1> QED
  BY <1>1, <1>2, <1>3, <1>4, <1>5, <1>6 DEF RegistryInv

LEMMA AddOriginsMarketKeeps ==
    ASSUME RegistryInv, NEW o \in OriginsMarkets, AddOriginsMarket(o)
    PROVE  RegistryInv'
<1>1. /\ o \notin isOriginRegistered
      /\ isOriginRegistered' = isOriginRegistered \cup {o}
      /\ allOriginsMarkets' = Append(allOriginsMarkets, o)
      /\ UNCHANGED <<created, masterContracts, masterContractOf, clonesOf,
                     isMarketRegistered, allBigBangMarkets>>
  BY DEF AddOriginsMarket, cloneVars, marketVars
<1>2. /\ allOriginsMarkets \in Seq(OriginsMarkets) /\ NoDuplicates(allOriginsMarkets)
      /\ o \notin Listed(allOriginsMarkets) /\ Listed(allOriginsMarkets) = isOriginRegistered
  BY <1>1 DEF RegistryInv, ListsAreExact
<1>3. /\ allOriginsMarkets' \in Seq(OriginsMarkets) /\ NoDuplicates(allOriginsMarkets')
      /\ Listed(allOriginsMarkets') = isOriginRegistered'
  BY <1>1, <1>2, AppendFacts
<1>4. ListsAreExact'
  BY <1>1, <1>3 DEF RegistryInv, ListsAreExact
<1> QED
  BY <1>1, <1>3, <1>4 DEF RegistryInv, ClonesType, Reachable

(* A market is no longer registered, nor on the list of BigBang markets.   *)
LEMMA MarketUnregistered ==
    ASSUME RegistryInv, NEW m \in Markets, RemoveClone(m),
           isMarketRegistered' = isMarketRegistered \ {m},
           UNCHANGED <<created, masterContracts, originVars>>,
           \/ m \in Singularities /\ UNCHANGED allBigBangMarkets
           \/ /\ m \in Listed(allBigBangMarkets)
              /\ allBigBangMarkets' = SwapAndPop(allBigBangMarkets, m)
    PROVE  RegistryInv'
<1>1. ClonesType' /\ \A o \in Markets \ {m} : Reachable(o) => Reachable(o)'
  BY CloneRemoved DEF RegistryInv
<1>2. \A o \in isMarketRegistered' : Reachable(o)'
  BY <1>1 DEF RegistryInv
<1>3. /\ allBigBangMarkets' \in Seq(BigBangs)
      /\ NoDuplicates(allBigBangMarkets')
      /\ Listed(allBigBangMarkets') = isMarketRegistered' \cap BigBangs
  <2>1. /\ allBigBangMarkets \in Seq(BigBangs) /\ NoDuplicates(allBigBangMarkets)
        /\ Listed(allBigBangMarkets) = isMarketRegistered \cap BigBangs
    BY DEF RegistryInv, ListsAreExact
  <2>2. CASE m \in Singularities /\ UNCHANGED allBigBangMarkets
    <3>1. m \notin BigBangs
      BY <2>2, RegistryAssumption
    <3> QED
      BY <2>1, <2>2, <3>1
  <2>3. CASE /\ m \in Listed(allBigBangMarkets)
             /\ allBigBangMarkets' = SwapAndPop(allBigBangMarkets, m)
    <3>1. /\ allBigBangMarkets' \in Seq(BigBangs) /\ NoDuplicates(allBigBangMarkets')
          /\ m \notin Listed(allBigBangMarkets')
      BY <2>1, <2>3, SwapAndPopFacts, NoDuplicatesAfterPop
    <3>2. Listed(allBigBangMarkets') \subseteq Listed(allBigBangMarkets)
      BY <2>1, <2>3, NothingNewListed
    <3>3. \A o \in Listed(allBigBangMarkets) \ {m} : o \in Listed(allBigBangMarkets')
      BY <2>1, <2>3, OthersStayListed
    <3> QED
      BY <2>1, <3>1, <3>2, <3>3
  <2> QED
    BY <2>2, <2>3
<1>4. /\ allOriginsMarkets' \in Seq(OriginsMarkets)
      /\ NoDuplicates(allOriginsMarkets') /\ Listed(allOriginsMarkets') = isOriginRegistered'
  BY DEF originVars, RegistryInv, ListsAreExact
<1>5. created' \subseteq Markets /\ isMarketRegistered' \subseteq created'
  BY DEF RegistryInv
<1>6. ListsAreExact'
  BY <1>3, <1>4 DEF ListsAreExact
<1> QED
  BY <1>1, <1>2, <1>3, <1>4, <1>5, <1>6 DEF RegistryInv

LEMMA RegistryKept ==
    ASSUME RegistryInv, [Next]_vars
    PROVE  RegistryInv'
<1>1. CASE SingularityStep
  <2>1. PICK mc \in SingularityMasters :
           \/ RegisterMasterContract(mc)
           \/ \E m \in Singularities \cup {NoContract} :
                 Deploy(mc, m) \/ RegisterSingularity(mc, m)
           \/ \E m \in Singularities : AddSingularity(mc, m) \/ UnregisterSingularity(m)
    BY <1>1 DEF SingularityStep
  <2>2. mc \in Masters /\ Singularities \subseteq Markets
    BY DEF Masters, Markets
  <2>3. CASE RegisterMasterContract(mc)
    BY <2>2, <2>3, RegisterMasterContractKeeps
  <2>4. ASSUME NEW m \in Singularities \cup {NoContract}, Deploy(mc, m)
        PROVE  RegistryInv'
    BY <2>2, <2>4, DeployKeeps DEF Deploy, Clone
  <2>5. ASSUME NEW m \in Singularities \cup {NoContract}, RegisterSingularity(mc, m)
        PROVE  RegistryInv'
    <3>1. /\ mc \in masterContracts /\ m # NoContract /\ m \notin created
          /\ created' = created \cup {m}
          /\ masterContractOf' = [masterContractOf EXCEPT ![m] = mc]
          /\ clonesOf' = [clonesOf EXCEPT ![mc] = Append(@, m)]
          /\ isMarketRegistered' = isMarketRegistered \cup {m}
          /\ UNCHANGED <<masterContracts, allBigBangMarkets, originVars>>
      BY <2>5 DEF RegisterSingularity, Clone
    <3>2. m \notin isMarketRegistered /\ m \in Singularities
      BY <3>1 DEF RegistryInv
    <3> QED
      BY <2>2, <3>1, <3>2, MarketRegistered
  <2>6. ASSUME NEW m \in Singularities, AddSingularity(mc, m)
        PROVE  RegistryInv'
    BY <2>2, <2>6, MarketRegistered DEF AddSingularity, AddMarket
  <2>7. ASSUME NEW m \in Singularities, UnregisterSingularity(m)
        PROVE  RegistryInv'
    BY <2>2, <2>7, MarketUnregistered DEF UnregisterSingularity
  <2> QED
    BY <2>1, <2>3, <2>4, <2>5, <2>6, <2>7
<1>2. CASE BigBangStep
  <2>1. PICK mc \in BigBangMasters :
           \/ RegisterMasterContract(mc)
           \/ \E m \in BigBangs \cup {NoContract} :
                 Deploy(mc, m) \/ RegisterBigBang(mc, m)
           \/ \E m \in BigBangs : AddBigBang(mc, m) \/ UnregisterBigBang(m)
    BY <1>2 DEF BigBangStep
  <2>2. mc \in Masters /\ BigBangs \subseteq Markets
    BY DEF Masters, Markets
  <2>3. CASE RegisterMasterContract(mc)
    BY <2>2, <2>3, RegisterMasterContractKeeps
  <2>4. ASSUME NEW m \in BigBangs \cup {NoContract}, Deploy(mc, m)
        PROVE  RegistryInv'
    BY <2>2, <2>4, DeployKeeps DEF Deploy, Clone
  <2>5. ASSUME NEW m \in BigBangs \cup {NoContract}, RegisterBigBang(mc, m)
        PROVE  RegistryInv'
    <3>1. /\ mc \in masterContracts /\ m # NoContract /\ m \notin created
          /\ created' = created \cup {m}
          /\ masterContractOf' = [masterContractOf EXCEPT ![m] = mc]
          /\ clonesOf' = [clonesOf EXCEPT ![mc] = Append(@, m)]
          /\ isMarketRegistered' = isMarketRegistered \cup {m}
          /\ allBigBangMarkets' = Append(allBigBangMarkets, m)
          /\ UNCHANGED <<masterContracts, originVars>>
      BY <2>5 DEF RegisterBigBang, Clone
    <3>2. m \notin isMarketRegistered /\ m \in BigBangs
      BY <3>1 DEF RegistryInv
    <3> QED
      BY <2>2, <3>1, <3>2, MarketRegistered
  <2>6. ASSUME NEW m \in BigBangs, AddBigBang(mc, m)
        PROVE  RegistryInv'
    BY <2>2, <2>6, MarketRegistered DEF AddBigBang, AddMarket
  <2>7. ASSUME NEW m \in BigBangs, UnregisterBigBang(m)
        PROVE  RegistryInv'
    BY <2>2, <2>7, MarketUnregistered DEF UnregisterBigBang
  <2> QED
    BY <2>1, <2>3, <2>4, <2>5, <2>6, <2>7
<1>3. CASE UNCHANGED vars
  BY <1>3 DEF vars, cloneVars, marketVars, originVars, RegistryInv, ClonesType,
              ListsAreExact, NoDuplicates, Listed, Reachable
<1> QED
  BY <1>1, <1>2, <1>3, AddOriginsMarketKeeps DEF Next

LEMMA RegistryBegins ==
    ASSUME Init
    PROVE  RegistryInv
<1>1. <<>> \in Seq(Markets) /\ <<>> \in Seq(BigBangs) /\ <<>> \in Seq(OriginsMarkets)
  OBVIOUS
<1>2. NoDuplicates(<<>>) /\ Listed(<<>>) = {}
  BY DEF NoDuplicates, Listed
<1> QED
  BY <1>1, <1>2 DEF Init, RegistryInv, ClonesType, ListsAreExact

-----------------------------------------------------------------------------
(* The rates of any market.  MT is what holds of module Market, with the   *)
(* rates it declares as constants replaced by those in force: each lemma   *)
(* asks for the ranges that Market assumes.                                *)
MT == INSTANCE MarketTheorems

MarketRatesInv ==
    /\ liquidationCollateralizationRate \in Nat \ {0}
    /\ collateralizationRate \in 1..liquidationCollateralizationRate
    /\ liquidationMultiplier \in 0..FEE_PRECISION
    /\ liquidationBonusAmount \in 0..(FEE_PRECISION - 1)
    /\ minLiquidatorReward \in Nat
    /\ maxLiquidatorReward \in (minLiquidatorReward + 1)..(FEE_PRECISION - 1)
    /\ maxLiquidationSlippage \in 0..(FEE_PRECISION - 1)

LEMMA RatesOfMarket ==
    ASSUME MarketRatesInv
    PROVE  MT!PrecisionAssumption /\ MT!RatesAssumption
<1>1. MT!PrecisionAssumption
  BY AdministrationAssumption DEF MT!PrecisionAssumption
<1>2. MT!RatesAssumption
  BY AdministrationAssumption DEF MarketRatesInv, MT!RatesAssumption
<1> QED
  BY <1>1, <1>2

LEMMA SameSolvency ==
    ASSUME NEW cr, NEW coll, NEW part, NEW tb, NEW rate
    PROVE  /\ BB!Rules!IsSolvent(cr, coll, part, tb, rate)
                <=> MT!IsSolvent(cr, coll, part, tb, rate)
           /\ SGL!Rules!IsSolvent(cr, coll, part, tb, rate)
                <=> MT!IsSolvent(cr, coll, part, tb, rate)
  BY DEF BB!Rules!IsSolvent, BB!Rules!ToAmount, SGL!Rules!IsSolvent, SGL!Rules!ToAmount,
         MT!IsSolvent, MT!ToAmount

LEMMA SolventUnderBothRates ==
    ASSUME MarketRatesInv, NEW coll \in Nat, NEW part \in Nat, NEW tb, NEW rate \in Nat \ {0},
           MT!SoundDebt(tb), MT!IsSolvent(collateralizationRate, coll, part, tb, rate)
    PROVE  MT!IsSolvent(liquidationCollateralizationRate, coll, part, tb, rate)
  BY RatesOfMarket, MT!LiquidatableIsInsolvent

LEMMA SameBadDebt ==
    ASSUME NEW part, NEW tb, NEW rate
    PROVE  /\ BB!Rules!RequiredCollateral(part, tb, rate)
                = MT!RequiredCollateral(part, tb, rate)
           /\ SGL!Rules!RequiredCollateral(part, tb, rate)
                = MT!RequiredCollateral(part, tb, rate)
           /\ BB!BadDebtAboveCollateralRate <=> MT!BadDebtThresholdAboveCR
           /\ SGL!BadDebtAboveCollateralRate <=> MT!BadDebtThresholdAboveCR
  BY DEF BB!Rules!RequiredCollateral, BB!Rules!ToElasticDown, BB!Rules!ToShare,
         SGL!Rules!RequiredCollateral, SGL!Rules!ToElasticDown, SGL!Rules!ToShare,
         MT!RequiredCollateral, MT!ToElasticDown, MT!ToShare,
         BB!BadDebtAboveCollateralRate, BB!Rules!BadDebtThresholdAboveCR,
         SGL!BadDebtAboveCollateralRate, SGL!Rules!BadDebtThresholdAboveCR,
         MT!BadDebtThresholdAboveCR

(* The positions that the properties look at.                              *)
Positions == [elastic : Parts, base : Parts]

LEMMA PositionsLookedAt ==
    ASSUME NEW coll \in Shares, NEW rate \in ExchangeRates, NEW tb \in Positions,
           tb.base <= tb.elastic, NEW part \in 1..tb.base
    PROVE  /\ coll \in Nat /\ rate \in Nat \ {0} /\ part \in Nat \ {0}
           /\ MT!SoundDebt(tb)
<1>1. tb.elastic \in Nat /\ tb.base \in Nat
  BY InputsAssumption DEF Positions
<1>2. tb.base # 0 /\ part \in Nat \ {0}
  BY <1>1
<1> QED
  BY <1>1, <1>2, InputsAssumption DEF MT!SoundDebt

LEMMA SolventIsSafe ==
    ASSUME MarketRatesInv, NEW coll \in Shares, NEW rate \in ExchangeRates,
           NEW tb \in Positions, tb.base <= tb.elastic, NEW part \in 1..tb.base,
           MT!IsSolvent(collateralizationRate, coll, part, tb, rate)
    PROVE  /\ MT!IsSolvent(liquidationCollateralizationRate, coll, part, tb, rate)
           /\ MT!BadDebtThresholdAboveCR => coll >= MT!RequiredCollateral(part, tb, rate)
<1>1. /\ coll \in Nat /\ rate \in Nat \ {0} /\ part \in Nat \ {0}
      /\ MT!SoundDebt(tb)
  BY PositionsLookedAt
<1>2. MT!IsSolvent(liquidationCollateralizationRate, coll, part, tb, rate)
  BY <1>1, SolventUnderBothRates
<1>3. ASSUME MT!BadDebtThresholdAboveCR
      PROVE  coll >= MT!RequiredCollateral(part, tb, rate)
  <2>1. MT!RequiredCollateral(part, tb, rate) < coll
    BY <1>1, <1>3, RatesOfMarket, MT!SolventCoversBonus
  <2>2. MT!RequiredCollateral(part, tb, rate) \in Nat
    BY <1>1, RatesOfMarket, MT!RequiredCollateralType
  <2> QED
    BY <1>1, <2>1, <2>2
<1> QED
  BY <1>2, <1>3

LEMMA SolventIsSafeInBigBang ==
    ASSUME MarketRatesInv
    PROVE  BB!SolventNotLiquidatable /\ BB!SolventIsNotBadDebt
<1>1. BB!Debts = {tb \in Positions : tb.base <= tb.elastic}
  BY DEF BB!Debts, Positions
<1> QED
  BY <1>1, SolventIsSafe, SameSolvency, SameBadDebt
     DEF BB!SolventNotLiquidatable, BB!SolventIsNotBadDebt

LEMMA SolventIsSafeInSingularity ==
    ASSUME MarketRatesInv
    PROVE  SGL!SolventNotLiquidatable /\ SGL!SolventIsNotBadDebt
<1>1. SGL!Debts = {tb \in Positions : tb.base <= tb.elastic}
  BY DEF SGL!Debts, Positions
<1> QED
  BY <1>1, SolventIsSafe, SameSolvency, SameBadDebt
     DEF SGL!SolventNotLiquidatable, SGL!SolventIsNotBadDebt

(* Division rounded down.                                                  *)
LEMMA DivFacts ==
    ASSUME NEW a \in Nat, NEW b \in Nat \ {0}
    PROVE  /\ a \div b \in Nat
           /\ b * (a \div b) <= a
           /\ a < b * (a \div b) + b
  BY SMT

LEMMA ProductMonotone ==
    ASSUME NEW a \in Nat, NEW b \in Nat, NEW c \in Nat, a <= b
    PROVE  a * c <= b * c
  BY SMT

LEMMA CancelProduct ==
    ASSUME NEW a \in Int, NEW b \in Int, NEW c \in Nat \ {0}
    PROVE  /\ a * c <= b * c => a <= b
           /\ a * c < b * c => a < b
  BY SMT

LEMMA QuotientMonotone ==
    ASSUME NEW a \in Nat, NEW b \in Nat, NEW c \in Nat \ {0}, a <= b
    PROVE  a \div c <= b \div c
<1> DEFINE q == a \div c
           r == b \div c
<1>1. q \in Nat /\ c * q <= a /\ r \in Nat /\ b < c * r + c
  BY DivFacts
<1> HIDE DEF q, r
<1>2. q * c < (r + 1) * c
  BY <1>1, SMT
<1>3. q < r + 1
  BY <1>1, <1>2, CancelProduct
<1> QED
  BY <1>1, <1>3 DEF q, r

-----------------------------------------------------------------------------
(* Every setter of the two markets keeps the rates in their ranges.        *)
LEMMA RewardsKept ==
    ASSUME MarketRatesInv, NEW min \in Nat, NEW max \in Nat, BB!SetRewards(min, max)
    PROVE  /\ minLiquidatorReward' \in Nat
           /\ maxLiquidatorReward' \in (minLiquidatorReward' + 1)..(FEE_PRECISION - 1)
  BY AdministrationAssumption DEF MarketRatesInv, BB!SetRewards, BB!Updated

LEMMA RatesKept ==
    ASSUME MarketRatesInv, NEW cr \in Nat, NEW lcr \in Nat, BB!SetRates(cr, lcr)
    PROVE  /\ liquidationCollateralizationRate' \in Nat \ {0}
           /\ collateralizationRate' \in 1..liquidationCollateralizationRate'
<1>1. collateralizationRate' \in Nat \ {0}
      /\ (cr > 0 => collateralizationRate' <= liquidationCollateralizationRate)
      /\ (cr = 0 => collateralizationRate' = collateralizationRate)
  BY AdministrationAssumption DEF MarketRatesInv, BB!SetRates, BB!Updated
<1>2. /\ lcr > 0 => lcr >= collateralizationRate' /\ lcr <= FEE_PRECISION
      /\ liquidationCollateralizationRate'
            = IF lcr > 0 THEN lcr ELSE liquidationCollateralizationRate
  BY DEF BB!SetRates, BB!Updated
<1> QED
  BY <1>1, <1>2, AdministrationAssumption DEF MarketRatesInv

LEMMA MarketConfigKept ==
    ASSUME MarketRatesInv,
           NEW fee \in Nat, NEW bonus \in Nat, NEW min \in Nat, NEW max \in Nat,
           NEW cr \in Nat, NEW lcr \in Nat,
           BB!SetMarketConfig(fee, bonus, min, max, cr, lcr)
    PROVE  MarketRatesInv'
<1>1. /\ BB!SetRewards(min, max) /\ BB!SetRates(cr, lcr)
      /\ bonus < FEE_PRECISION
      /\ liquidationBonusAmount' = IF bonus > 0 THEN bonus ELSE liquidationBonusAmount
      /\ liquidationMultiplier' = liquidationMultiplier
      /\ maxLiquidationSlippage' = maxLiquidationSlippage
  BY DEF BB!SetMarketConfig, BB!Updated
<1>2. liquidationBonusAmount' \in 0..(FEE_PRECISION - 1)
  BY <1>1, AdministrationAssumption DEF MarketRatesInv
<1> QED
  BY <1>1, <1>2, RewardsKept, RatesKept DEF MarketRatesInv

LEMMA SlippageKept ==
    ASSUME MarketRatesInv, NEW val \in Nat, BB!SetLiquidationMaxSlippage(val)
    PROVE  MarketRatesInv'
  BY AdministrationAssumption
     DEF MarketRatesInv, BB!SetLiquidationMaxSlippage, BB!rateVars, BB!rewardVars

LEMMA MarketInputs ==
    /\ Fees \subseteq Nat /\ Bonuses \subseteq Nat /\ Rewards \subseteq Nat
    /\ CollateralRates \subseteq Nat /\ SingularityRates \subseteq Nat
    /\ Slippages \subseteq Nat
  BY InputsAssumption

LEMMA MarketStepOfBigBang ==
    ASSUME MarketRatesInv, BB!MarketConfigStep
    PROVE  MarketRatesInv'
<1>1. ASSUME NEW fee \in Fees, NEW bonus \in Bonuses, NEW min \in Rewards, NEW max \in Rewards,
             NEW cr \in CollateralRates, NEW lcr \in CollateralRates,
             BB!SetMarketConfig(fee, bonus, min, max, cr, lcr)
      PROVE  MarketRatesInv'
  BY <1>1, MarketInputs, MarketConfigKept
<1>2. ASSUME NEW val \in Slippages, BB!SetLiquidationMaxSlippage(val)
      PROVE  MarketRatesInv'
  BY <1>2, MarketInputs, SlippageKept
<1> QED
  BY <1>1, <1>2 DEF BB!MarketConfigStep

LEMMA MarketStepOfSingularity ==
    ASSUME MarketRatesInv, SGL!MarketConfigStep
    PROVE  MarketRatesInv'
<1>1. ASSUME NEW fee, NEW bonus, NEW min, NEW max, NEW cr, NEW lcr,
             SGL!SetMarketConfig(fee, bonus, min, max, cr, lcr)
      PROVE  BB!SetMarketConfig(fee, bonus, min, max, cr, lcr)
  BY <1>1 DEF SGL!SetMarketConfig, SGL!SetRewards, SGL!SetRates, SGL!Updated,
              BB!SetMarketConfig, BB!SetRewards, BB!SetRates, BB!Updated
<1>2. ASSUME NEW val, SGL!SetLiquidationMaxSlippage(val)
      PROVE  BB!SetLiquidationMaxSlippage(val)
  BY <1>2 DEF SGL!SetLiquidationMaxSlippage, SGL!rateVars, SGL!rewardVars,
              BB!SetLiquidationMaxSlippage, BB!rateVars, BB!rewardVars
<1>3. ASSUME NEW fee \in Fees, NEW bonus \in Bonuses, NEW min \in Rewards, NEW max \in Rewards,
             NEW cr \in SingularityRates, NEW lcr \in SingularityRates,
             SGL!SetMarketConfig(fee, bonus, min, max, cr, lcr)
      PROVE  MarketRatesInv'
  <2>1. BB!SetMarketConfig(fee, bonus, min, max, cr, lcr)
    BY <1>1, <1>3
  <2>2. /\ fee \in Nat /\ bonus \in Nat /\ min \in Nat /\ max \in Nat
        /\ cr \in Nat /\ lcr \in Nat
    BY MarketInputs
  <2> QED
    BY <2>1, <2>2, MarketConfigKept
<1>4. ASSUME NEW val \in Slippages, SGL!SetLiquidationMaxSlippage(val)
      PROVE  MarketRatesInv'
  <2>1. val \in Nat /\ BB!SetLiquidationMaxSlippage(val)
    BY <1>2, <1>4, InputsAssumption
  <2> QED
    BY <2>1, SlippageKept
<1> QED
  BY <1>3, <1>4 DEF SGL!MarketConfigStep

-----------------------------------------------------------------------------
(* A BigBang market.                                                       *)
BigBangInv ==
    /\ MarketRatesInv
    /\ minMintFee \in Nat /\ maxMintFee \in Nat /\ minMintFee < maxMintFee
    /\ maxMintFeeStart \in Nat /\ minMintFeeStart \in Nat
    /\ maxMintFeeStart < minMintFeeStart
    /\ minDebtRate \in Nat /\ maxDebtRate \in Nat
    /\ debtRateAgainstEthMarket \in Nat

LEMMA BigBangBegins ==
    ASSUME BB!Init
    PROVE  BigBangInv
<1>1. MarketRatesInv
  BY AdministrationAssumption, InputsAssumption DEF BB!Init, MarketRatesInv
<1>2. /\ minMintFee \in Nat /\ maxMintFee \in Nat /\ minMintFee < maxMintFee
      /\ maxMintFeeStart \in Nat /\ minMintFeeStart \in Nat
      /\ maxMintFeeStart < minMintFeeStart
  BY InputsAssumption DEF BB!Init
<1>3. /\ minDebtRate \in Nat /\ maxDebtRate \in Nat
      /\ debtRateAgainstEthMarket \in Nat
  <2>1. PICK against \in DebtShares, min \in DebtRates, max \in DebtRates :
           BB!InitDebtStorage(against, min, max)
    BY DEF BB!Init
  <2>2. against \in Nat /\ min \in Nat /\ max \in Nat
    BY InputsAssumption
  <2> QED
    BY <2>1, <2>2 DEF BB!InitDebtStorage
<1> QED
  BY <1>1, <1>2, <1>3 DEF BigBangInv

LEMMA MintSettersKeep ==
    ASSUME BigBangInv, NEW min \in Nat, NEW max \in Nat,
           BB!SetMinAndMaxMintRange(min, max) \/ BB!SetMinAndMaxMintFee(min, max)
    PROVE  BigBangInv'
  BY DEF BigBangInv, MarketRatesInv, BB!SetMinAndMaxMintRange, BB!SetMinAndMaxMintFee,
         BB!configVars, BB!rateVars, BB!rewardVars, BB!debtVars

LEMMA SetBigBangConfigKeeps ==
    ASSUME BigBangInv, NEW min \in Nat, NEW max \in Nat, NEW against \in Nat,
           NEW multiplier \in Nat, BB!SetBigBangConfig(min, max, against, multiplier)
    PROVE  BigBangInv'
<1>1. /\ minDebtRate' = IF min > 0 THEN min ELSE minDebtRate
      /\ maxDebtRate' = IF max > 0 THEN max ELSE maxDebtRate
      /\ debtRateAgainstEthMarket' = IF against > 0 THEN against
                                     ELSE debtRateAgainstEthMarket
      /\ multiplier < FEE_PRECISION
      /\ liquidationMultiplier' = IF multiplier > 0 THEN multiplier
                                  ELSE liquidationMultiplier
      /\ UNCHANGED <<collateralizationRate, liquidationCollateralizationRate,
                     minLiquidatorReward, maxLiquidatorReward, liquidationBonusAmount,
                     maxLiquidationSlippage, minMintFee, maxMintFee, minMintFeeStart,
                     maxMintFeeStart>>
  BY DEF BB!SetBigBangConfig, BB!SetDebtRates, BB!Updated, BB!rateVars, BB!rewardVars,
         BB!mintVars
<1>2. liquidationMultiplier' \in 0..FEE_PRECISION
  BY <1>1, AdministrationAssumption DEF BigBangInv, MarketRatesInv
<1>3. MarketRatesInv'
  BY <1>1, <1>2 DEF BigBangInv, MarketRatesInv
<1>4. minDebtRate' \in Nat /\ maxDebtRate' \in Nat /\ debtRateAgainstEthMarket' \in Nat
  BY <1>1 DEF BigBangInv
<1> QED
  BY <1>1, <1>3, <1>4 DEF BigBangInv

LEMMA BigBangKept ==
    ASSUME BigBangInv, BB!Next
    PROVE  BigBangInv'
<1>1. CASE BB!MarketConfigStep /\ UNCHANGED <<BB!mintVars, BB!debtVars, accrued>>
  <2>1. MarketRatesInv'
    BY <1>1, MarketStepOfBigBang DEF BigBangInv
  <2> QED
    BY <1>1, <2>1 DEF BigBangInv, BB!mintVars, BB!debtVars
<1>2. ASSUME NEW min \in Prices, NEW max \in Prices, BB!SetMinAndMaxMintRange(min, max)
      PROVE  BigBangInv'
  BY <1>2, InputsAssumption, MintSettersKeep
<1>3. ASSUME NEW min \in MintFees, NEW max \in MintFees, BB!SetMinAndMaxMintFee(min, max)
      PROVE  BigBangInv'
  BY <1>3, InputsAssumption, MintSettersKeep
<1>4. ASSUME NEW min \in DebtRates, NEW max \in DebtRates, NEW against \in DebtShares,
             NEW multiplier \in Multipliers,
             BB!SetBigBangConfig(min, max, against, multiplier)
      PROVE  BigBangInv'
  BY <1>4, InputsAssumption, SetBigBangConfigKeeps
<1>5. CASE BB!Tick
  BY <1>5 DEF BB!Tick, BigBangInv, MarketRatesInv, BB!configVars, BB!rateVars,
              BB!rewardVars, BB!mintVars, BB!debtVars
<1> QED
  BY <1>1, <1>2, <1>3, <1>4, <1>5 DEF BB!Next

(* The fee and the debt rate between their two ends, before the clamp.     *)
FeeDrop(p) ==
    ((p - maxMintFeeStart) * (maxMintFee - minMintFee))
        \div (minMintFeeStart - maxMintFeeStart)
RateRise(d, point) ==
    ((maxDebtRate - minDebtRate) * ((d * DEBT_PRECISION) \div point)) \div DEBT_PRECISION

LEMMA FeeDropGrows ==
    ASSUME BigBangInv, NEW p \in Nat, NEW q \in Nat, maxMintFeeStart < p, p <= q
    PROVE  FeeDrop(p) \in Nat /\ FeeDrop(q) \in Nat /\ FeeDrop(p) <= FeeDrop(q)
<1> DEFINE x == p - maxMintFeeStart
           y == q - maxMintFeeStart
           d == maxMintFee - minMintFee
           w == minMintFeeStart - maxMintFeeStart
<1>1. x \in Nat /\ y \in Nat /\ x <= y /\ d \in Nat /\ w \in Nat \ {0}
  BY DEF BigBangInv
<1> HIDE DEF x, y, d, w
<1>2. x * d \in Nat /\ y * d \in Nat /\ x * d <= y * d
  BY <1>1, ProductMonotone, SMT
<1>3. (x * d) \div w \in Nat /\ (y * d) \div w \in Nat /\ (x * d) \div w <= (y * d) \div w
  <2>1. (x * d) \div w \in Nat
    BY <1>1, <1>2, DivFacts
  <2>2. (y * d) \div w \in Nat
    BY <1>1, <1>2, DivFacts
  <2>3. (x * d) \div w <= (y * d) \div w
    BY <1>1, <1>2, QuotientMonotone
  <2> QED
    BY <2>1, <2>2, <2>3
<1> QED
  BY <1>3 DEF FeeDrop, x, y, d, w

LEMMA RateRiseGrows ==
    ASSUME BigBangInv, minDebtRate <= maxDebtRate, NEW point \in Nat \ {0},
           NEW d \in Nat, NEW e \in Nat, d <= e
    PROVE  /\ RateRise(d, point) \in Nat /\ RateRise(e, point) \in Nat
           /\ RateRise(d, point) <= RateRise(e, point)
<1> DEFINE width == maxDebtRate - minDebtRate
           x == (d * DEBT_PRECISION) \div point
           y == (e * DEBT_PRECISION) \div point
<1>1. width \in Nat /\ DEBT_PRECISION \in Nat \ {0}
  BY AdministrationAssumption DEF BigBangInv
<1> HIDE DEF width
<1>2. x \in Nat /\ y \in Nat /\ x <= y
  <2>1. /\ d * DEBT_PRECISION \in Nat /\ e * DEBT_PRECISION \in Nat
        /\ d * DEBT_PRECISION <= e * DEBT_PRECISION
    BY <1>1, ProductMonotone, SMT
  <2>2. x \in Nat
    BY <2>1, DivFacts
  <2>3. y \in Nat
    BY <2>1, DivFacts
  <2>4. x <= y
    BY <2>1, QuotientMonotone
  <2> QED
    BY <2>2, <2>3, <2>4
<1> HIDE DEF x, y
<1>3. width * x \in Nat /\ width * y \in Nat /\ width * x <= width * y
  BY <1>1, <1>2, SMT
<1>4. (width * x) \div DEBT_PRECISION \in Nat
  BY <1>1, <1>3, DivFacts
<1>5. (width * y) \div DEBT_PRECISION \in Nat
  BY <1>1, <1>3, DivFacts
<1>6. (width * x) \div DEBT_PRECISION <= (width * y) \div DEBT_PRECISION
  BY <1>1, <1>3, QuotientMonotone
<1> QED
  BY <1>4, <1>5, <1>6 DEF RateRise, width, x, y

LEMMA OpeningFeeCases ==
    ASSUME BigBangInv, NEW p \in Nat
    PROVE  /\ BB!Fee!OpeningFeeRate(p) \in minMintFee..maxMintFee
           /\ p >= minMintFeeStart => BB!Fee!OpeningFeeRate(p) = minMintFee
           /\ p <= maxMintFeeStart => BB!Fee!OpeningFeeRate(p) = maxMintFee
           /\ p < minMintFeeStart /\ p > maxMintFeeStart =>
                 BB!Fee!OpeningFeeRate(p)
                    = IF maxMintFee - FeeDrop(p) < minMintFee THEN minMintFee
                      ELSE maxMintFee - FeeDrop(p)
<1>1. /\ minMintFee \in Nat /\ maxMintFee \in Nat /\ minMintFee < maxMintFee
      /\ maxMintFeeStart \in Nat /\ minMintFeeStart \in Nat
      /\ maxMintFeeStart < minMintFeeStart
  BY DEF BigBangInv
<1>2. BB!Fee!OpeningFeeRate(p)
         = IF p >= minMintFeeStart THEN minMintFee
           ELSE IF p <= maxMintFeeStart THEN maxMintFee
           ELSE IF maxMintFee - FeeDrop(p) > maxMintFee THEN maxMintFee
           ELSE IF maxMintFee - FeeDrop(p) < minMintFee THEN minMintFee
           ELSE maxMintFee - FeeDrop(p)
  BY DEF BB!Fee!OpeningFeeRate, FeeDrop
<1>3. p > maxMintFeeStart => FeeDrop(p) \in Nat
  BY FeeDropGrows
<1> QED
  BY <1>1, <1>2, <1>3

LEMMA FeesInRange ==
    ASSUME BigBangInv, NEW p \in Nat, NEW q \in Nat, p <= q
    PROVE  BB!Fee!OpeningFeeRate(p) >= BB!Fee!OpeningFeeRate(q)
<1> DEFINE feeP == BB!Fee!OpeningFeeRate(p)
           feeQ == BB!Fee!OpeningFeeRate(q)
<1>1. /\ minMintFee \in Nat /\ maxMintFee \in Nat
      /\ maxMintFeeStart \in Nat /\ minMintFeeStart \in Nat
  BY DEF BigBangInv
<1>2. feeP \in minMintFee..maxMintFee /\ feeQ \in minMintFee..maxMintFee
  BY OpeningFeeCases
<1>3. CASE q >= minMintFeeStart
  <2>1. feeQ = minMintFee
    BY <1>3, OpeningFeeCases
  <2> HIDE DEF feeP, feeQ
  <2>2. feeP >= feeQ
    BY <1>1, <1>2, <2>1
  <2> QED
    BY <2>2 DEF feeP, feeQ
<1>4. CASE p <= maxMintFeeStart
  <2>1. feeP = maxMintFee
    BY <1>4, OpeningFeeCases
  <2> HIDE DEF feeP, feeQ
  <2>2. feeP >= feeQ
    BY <1>1, <1>2, <2>1
  <2> QED
    BY <2>2 DEF feeP, feeQ
<1>5. CASE q < minMintFeeStart /\ p > maxMintFeeStart
  <2>1. FeeDrop(p) \in Nat /\ FeeDrop(q) \in Nat /\ FeeDrop(p) <= FeeDrop(q)
    BY <1>5, FeeDropGrows
  <2>2. p < minMintFeeStart /\ q > maxMintFeeStart
    BY <1>1, <1>5
  <2>3. feeP = IF maxMintFee - FeeDrop(p) < minMintFee THEN minMintFee
               ELSE maxMintFee - FeeDrop(p)
    BY <1>5, <2>2, OpeningFeeCases
  <2>4. feeQ = IF maxMintFee - FeeDrop(q) < minMintFee THEN minMintFee
               ELSE maxMintFee - FeeDrop(q)
    BY <1>5, <2>2, OpeningFeeCases
  <2> HIDE DEF feeP, feeQ
  <2>5. feeP >= feeQ
    BY <1>1, <2>1, <2>3, <2>4
  <2> QED
    BY <2>5 DEF feeP, feeQ
<1> QED
  BY <1>1, <1>3, <1>4, <1>5

LEMMA DebtRateCases ==
    ASSUME BigBangInv, minDebtRate <= maxDebtRate, NEW d \in Nat, NEW ethDebt \in Nat
    PROVE  /\ BB!Debt!MaxDebtPoint(ethDebt) \in Nat
           /\ BB!Debt!DebtRateOf(d, ethDebt) \in minDebtRate..maxDebtRate
           /\ d = 0 => BB!Debt!DebtRateOf(d, ethDebt) = minDebtRate
           /\ d # 0 /\ d >= BB!Debt!MaxDebtPoint(ethDebt)
                 => BB!Debt!DebtRateOf(d, ethDebt) = maxDebtRate
           /\ d # 0 /\ d < BB!Debt!MaxDebtPoint(ethDebt) =>
                 /\ RateRise(d, BB!Debt!MaxDebtPoint(ethDebt)) \in Nat
                 /\ BB!Debt!DebtRateOf(d, ethDebt) =
                       IF RateRise(d, BB!Debt!MaxDebtPoint(ethDebt)) + minDebtRate
                             <= maxDebtRate
                       THEN RateRise(d, BB!Debt!MaxDebtPoint(ethDebt)) + minDebtRate
                       ELSE maxDebtRate
<1> DEFINE point == BB!Debt!MaxDebtPoint(ethDebt)
           rise == RateRise(d, point)
           result == BB!Debt!DebtRateOf(d, ethDebt)
<1>1. minDebtRate \in Nat /\ maxDebtRate \in Nat /\ debtRateAgainstEthMarket \in Nat
  BY DEF BigBangInv
<1>2. point \in Nat
  <2>1. ethDebt * debtRateAgainstEthMarket \in Nat /\ RATE_PRECISION \in Nat \ {0}
    BY <1>1, AdministrationAssumption, SMT
  <2> QED
    BY <2>1, DivFacts DEF BB!Debt!MaxDebtPoint
<1>3. result = IF d = 0 THEN minDebtRate
               ELSE IF d >= point THEN maxDebtRate
               ELSE IF rise + minDebtRate <= maxDebtRate THEN rise + minDebtRate
               ELSE maxDebtRate
  BY DEF BB!Debt!DebtRateOf, BB!Debt!Least, RateRise
<1> HIDE DEF point
<1>4. d < point => rise \in Nat
  BY <1>2, RateRiseGrows
<1> HIDE DEF rise, result
<1>5. result \in minDebtRate..maxDebtRate
  BY <1>1, <1>2, <1>3, <1>4
<1>6. /\ d = 0 => result = minDebtRate
      /\ d # 0 /\ d >= point => result = maxDebtRate
      /\ d # 0 /\ d < point =>
            /\ rise \in Nat
            /\ result = IF rise + minDebtRate <= maxDebtRate THEN rise + minDebtRate
                        ELSE maxDebtRate
  BY <1>2, <1>3, <1>4
<1> QED
  BY <1>2, <1>5, <1>6 DEF point, rise, result

LEMMA DebtRateGrows ==
    ASSUME BigBangInv, minDebtRate <= maxDebtRate,
           NEW d \in Nat, NEW e \in Nat, d <= e, NEW ethDebt \in Nat
    PROVE  BB!Debt!DebtRateOf(d, ethDebt) <= BB!Debt!DebtRateOf(e, ethDebt)
<1> DEFINE point == BB!Debt!MaxDebtPoint(ethDebt)
           rateD == BB!Debt!DebtRateOf(d, ethDebt)
           rateE == BB!Debt!DebtRateOf(e, ethDebt)
           riseD == RateRise(d, point)
           riseE == RateRise(e, point)
<1>1. minDebtRate \in Nat /\ maxDebtRate \in Nat
  BY DEF BigBangInv
<1>2. /\ point \in Nat
      /\ rateD \in minDebtRate..maxDebtRate /\ rateE \in minDebtRate..maxDebtRate
  BY DebtRateCases
<1>3. CASE d = 0
  <2>1. rateD = minDebtRate
    BY <1>3, DebtRateCases
  <2> HIDE DEF rateD, rateE
  <2>2. rateD <= rateE
    BY <1>1, <1>2, <2>1
  <2> QED
    BY <2>2 DEF rateD, rateE
<1>4. CASE e # 0 /\ e >= point
  <2>1. rateE = maxDebtRate
    BY <1>4, DebtRateCases
  <2> HIDE DEF rateD, rateE
  <2>2. rateD <= rateE
    BY <1>1, <1>2, <2>1
  <2> QED
    BY <2>2 DEF rateD, rateE
<1>5. CASE d # 0 /\ e < point
  <2>1. d < point /\ e # 0
    BY <1>2, <1>5
  <2>2. rateD = IF riseD + minDebtRate <= maxDebtRate THEN riseD + minDebtRate
                ELSE maxDebtRate
    BY <1>5, <2>1, DebtRateCases
  <2>3. rateE = IF riseE + minDebtRate <= maxDebtRate THEN riseE + minDebtRate
                ELSE maxDebtRate
    BY <1>5, <2>1, DebtRateCases
  <2> HIDE DEF point, rateD, rateE
  <2>4. riseD \in Nat /\ riseE \in Nat /\ riseD <= riseE
    BY <1>2, <2>1, RateRiseGrows
  <2> HIDE DEF riseD, riseE
  <2>5. rateD <= rateE
    BY <1>1, <2>2, <2>3, <2>4
  <2> QED
    BY <2>5 DEF rateD, rateE
<1>6. d = 0 \/ (e # 0 /\ e >= point) \/ (d # 0 /\ e < point)
  <2> HIDE DEF point
  <2> QED
    BY <1>2
<1> QED
  BY <1>3, <1>4, <1>5, <1>6

LEMMA BigBangRatesInRange ==
    ASSUME BigBangInv
    PROVE  BB!RatesInRange
<1>1. Prices \subseteq Nat /\ DebtAmounts \subseteq Nat
  BY InputsAssumption
<1>2. ASSUME NEW p \in Prices, NEW q \in Prices
      PROVE  /\ BB!Fee!OpeningFeeRate(p) \in minMintFee..maxMintFee
             /\ p <= q => BB!Fee!OpeningFeeRate(p) >= BB!Fee!OpeningFeeRate(q)
  <2>1. p \in Nat /\ q \in Nat
    BY <1>1
  <2> QED
    BY <2>1, OpeningFeeCases, FeesInRange
<1>3. ASSUME minDebtRate <= maxDebtRate,
             NEW d \in DebtAmounts, NEW e \in DebtAmounts, NEW ethDebt \in DebtAmounts
      PROVE  /\ BB!Debt!DebtRateOf(d, ethDebt) \in minDebtRate..maxDebtRate
             /\ d <= e => BB!Debt!DebtRateOf(d, ethDebt) <= BB!Debt!DebtRateOf(e, ethDebt)
  <2>1. d \in Nat /\ e \in Nat /\ ethDebt \in Nat
    BY <1>1
  <2> QED
    BY <1>3, <2>1, DebtRateCases, DebtRateGrows
<1> QED
  BY <1>2, <1>3 DEF BB!RatesInRange

(* The debt rates change only when the interest at the old ones is charged *)
(* and stay in order.                                                      *)
LEMMA BigBangChangesSafely ==
    ASSUME BigBangInv, BB!Next
    PROVE  /\ minDebtRate < maxDebtRate => minDebtRate' < maxDebtRate'
           /\ BB!debtVars' # BB!debtVars => accrued'
<1>1. CASE UNCHANGED BB!debtVars
  BY <1>1 DEF BB!debtVars
<1>2. ASSUME NEW min \in DebtRates, NEW max \in DebtRates, NEW against \in DebtShares,
             NEW multiplier \in Multipliers,
             BB!SetBigBangConfig(min, max, against, multiplier)
      PROVE  /\ minDebtRate < maxDebtRate => minDebtRate' < maxDebtRate'
             /\ BB!debtVars' # BB!debtVars => accrued'
  <2>1. /\ accrued' = TRUE
        /\ min > 0 => min < maxDebtRate
        /\ minDebtRate' = IF min > 0 THEN min ELSE minDebtRate
        /\ max > 0 => max > minDebtRate'
        /\ maxDebtRate' = IF max > 0 THEN max ELSE maxDebtRate
    BY <1>2 DEF BB!SetBigBangConfig, BB!SetDebtRates, BB!Updated
  <2>2. min \in Nat /\ max \in Nat /\ minDebtRate \in Nat /\ maxDebtRate \in Nat
    BY InputsAssumption DEF BigBangInv
  <2> QED
    BY <2>1, <2>2
<1> QED
  BY <1>1, <1>2 DEF BB!Next, BB!SetMinAndMaxMintRange, BB!SetMinAndMaxMintFee, BB!Tick

-----------------------------------------------------------------------------
(* A Singularity market.  The owner may set targets in any order and the   *)
(* lower one anywhere; the upper one stays below full utilization, so that *)
(* the rate above it is defined.                                           *)
SingularityInv ==
    /\ MarketRatesInv
    /\ minimumTargetUtilization \in Nat
    /\ maximumTargetUtilization \in 0..(UTILIZATION_PRECISION - 1)
    /\ minimumInterestPerSecond \in Nat /\ maximumInterestPerSecond \in Nat
    /\ startingInterestPerSecond \in Nat
    /\ interestElasticity \in Nat \ {0}
    /\ interestPerSecond \in Nat /\ elapsed \in Nat /\ utilization \in Nat

LEMMA SingularityBegins ==
    ASSUME SGL!Init
    PROVE  SingularityInv
<1>1. SingularityRates \subseteq Nat
  BY MarketInputs
<1>2. MarketRatesInv
  <2>1. /\ collateralizationRate \in Nat \ {0}
        /\ liquidationCollateralizationRate \in Nat \ {0}
        /\ collateralizationRate <= liquidationCollateralizationRate
    BY <1>1, AdministrationAssumption DEF SGL!Init
  <2>2. /\ minLiquidatorReward = FEE_PRECISION - 2 /\ maxLiquidatorReward = FEE_PRECISION - 1
        /\ liquidationBonusAmount = 1 /\ liquidationMultiplier = 1
        /\ maxLiquidationSlippage = 0
    BY DEF SGL!Init
  <2> QED
    BY <2>1, <2>2, AdministrationAssumption DEF MarketRatesInv
<1>3. /\ minimumTargetUtilization = 3 /\ maximumTargetUtilization = 5
      /\ minimumInterestPerSecond = 8 /\ maximumInterestPerSecond = 0
      /\ startingInterestPerSecond = 8 /\ interestElasticity = 10
      /\ interestPerSecond = 8 /\ elapsed = 0 /\ utilization = 0
  BY DEF SGL!Init
<1> QED
  BY <1>2, <1>3, AdministrationAssumption DEF SingularityInv

(* Below its target the rate decays, above it it grows.                    *)
LEMMA RateDecays ==
    ASSUME SingularityInv, utilization < minimumTargetUtilization
    PROVE  \E decayed \in Nat :
              /\ decayed <= interestPerSecond
              /\ SGL!Interest!RateBelowTarget(interestPerSecond, utilization, elapsed)
                    = IF decayed < minimumInterestPerSecond THEN minimumInterestPerSecond
                      ELSE decayed
<1> DEFINE factor == ((minimumTargetUtilization - utilization) * UTILIZATION_PRECISION)
                        \div minimumTargetUtilization
           scale == interestElasticity + factor * factor * elapsed
           decayed == (interestPerSecond * interestElasticity) \div scale
<1>1. /\ minimumTargetUtilization \in Nat \ {0} /\ UTILIZATION_PRECISION \in Nat
      /\ minimumTargetUtilization - utilization \in Nat
      /\ interestElasticity \in Nat \ {0} /\ interestPerSecond \in Nat /\ elapsed \in Nat
  BY AdministrationAssumption DEF SingularityInv
<1>2. factor \in Nat
  <2>1. (minimumTargetUtilization - utilization) * UTILIZATION_PRECISION \in Nat
    BY <1>1, SMT
  <2> QED
    BY <1>1, <2>1, DivFacts
<1> HIDE DEF factor
<1>3. scale \in Nat \ {0} /\ interestElasticity <= scale
  <2>1. factor * factor * elapsed \in Nat
    BY <1>1, <1>2, SMT
  <2> QED
    BY <1>1, <2>1
<1> HIDE DEF scale
<1>4. decayed \in Nat /\ decayed <= interestPerSecond
  <2>1. interestPerSecond * interestElasticity \in Nat
    BY <1>1, SMT
  <2>2. decayed \in Nat /\ scale * decayed <= interestPerSecond * interestElasticity
    BY <1>3, <2>1, DivFacts
  <2>3. interestElasticity * interestPerSecond <= scale * interestPerSecond
    BY <1>1, <1>3, ProductMonotone
  <2> HIDE DEF decayed
  <2>4. decayed * scale <= interestPerSecond * scale
    BY <1>1, <1>3, <2>1, <2>2, <2>3, SMT
  <2> QED
    BY <1>1, <1>3, <2>2, <2>4, CancelProduct
<1>5. SGL!Interest!RateBelowTarget(interestPerSecond, utilization, elapsed)
         = IF decayed < minimumInterestPerSecond THEN minimumInterestPerSecond ELSE decayed
  BY DEF SGL!Interest!RateBelowTarget, decayed, scale, factor
<1> HIDE DEF decayed
<1> QED
  BY <1>4, <1>5

LEMMA RateGrows ==
    ASSUME SingularityInv, utilization > maximumTargetUtilization
    PROVE  \E grown \in Nat :
              /\ interestPerSecond <= grown
              /\ SGL!Interest!RateAboveTarget(interestPerSecond, utilization, elapsed)
                    = IF grown <= maximumInterestPerSecond THEN grown
                      ELSE maximumInterestPerSecond
<1> DEFINE factor == ((utilization - maximumTargetUtilization) * UTILIZATION_PRECISION)
                        \div (UTILIZATION_PRECISION - maximumTargetUtilization)
           scale == interestElasticity + factor * factor * elapsed
           grown == (interestPerSecond * scale) \div interestElasticity
<1>1. /\ UTILIZATION_PRECISION - maximumTargetUtilization \in Nat \ {0}
      /\ UTILIZATION_PRECISION \in Nat
      /\ utilization - maximumTargetUtilization \in Nat
      /\ interestElasticity \in Nat \ {0} /\ interestPerSecond \in Nat /\ elapsed \in Nat
  BY AdministrationAssumption DEF SingularityInv
<1>2. factor \in Nat
  <2>1. (utilization - maximumTargetUtilization) * UTILIZATION_PRECISION \in Nat
    BY <1>1, SMT
  <2> QED
    BY <1>1, <2>1, DivFacts
<1> HIDE DEF factor
<1>3. scale \in Nat /\ interestElasticity <= scale
  <2>1. factor * factor * elapsed \in Nat
    BY <1>1, <1>2, SMT
  <2> QED
    BY <1>1, <2>1
<1> HIDE DEF scale
<1>4. grown \in Nat /\ interestPerSecond <= grown
  <2>1. interestPerSecond * scale \in Nat
    BY <1>1, <1>3, SMT
  <2>2. grown \in Nat
        /\ interestPerSecond * scale < interestElasticity * grown + interestElasticity
    BY <1>1, <2>1, DivFacts
  <2>3. interestElasticity * interestPerSecond <= scale * interestPerSecond
    BY <1>1, <1>3, ProductMonotone
  <2> HIDE DEF grown
  <2>4. interestPerSecond * interestElasticity < (grown + 1) * interestElasticity
    BY <1>1, <1>3, <2>1, <2>2, <2>3, SMT
  <2>5. interestPerSecond < grown + 1
    BY <1>1, <2>2, <2>4, CancelProduct
  <2> QED
    BY <1>1, <2>2, <2>5
<1>5. SGL!Interest!RateAboveTarget(interestPerSecond, utilization, elapsed)
         = IF grown <= maximumInterestPerSecond THEN grown ELSE maximumInterestPerSecond
  BY DEF SGL!Interest!RateAboveTarget, SGL!Interest!Least, grown, scale, factor
<1> HIDE DEF grown
<1> QED
  BY <1>4, <1>5

LEMMA NextRateFacts ==
    ASSUME SingularityInv
    PROVE  LET next == SGL!Interest!NextRate(interestPerSecond, utilization, elapsed)
           IN  /\ next \in Nat
               /\ SGL!RateInBounds =>
                     /\ next \in minimumInterestPerSecond..maximumInterestPerSecond
                     /\ next > interestPerSecond => utilization > maximumTargetUtilization
                     /\ next < interestPerSecond => utilization < minimumTargetUtilization
<1> DEFINE next == SGL!Interest!NextRate(interestPerSecond, utilization, elapsed)
<1>1. /\ interestPerSecond \in Nat /\ utilization \in Nat
      /\ minimumInterestPerSecond \in Nat /\ maximumInterestPerSecond \in Nat
  BY DEF SingularityInv
<1>2. CASE utilization < minimumTargetUtilization
  <2>1. next = SGL!Interest!RateBelowTarget(interestPerSecond, utilization, elapsed)
    BY <1>2 DEF SGL!Interest!NextRate
  <2> HIDE DEF next
  <2>2. PICK decayed \in Nat :
           /\ decayed <= interestPerSecond
           /\ next = IF decayed < minimumInterestPerSecond THEN minimumInterestPerSecond
                     ELSE decayed
    BY <1>2, <2>1, RateDecays
  <2>3. /\ next \in Nat
        /\ SGL!RateInBounds =>
              /\ next \in minimumInterestPerSecond..maximumInterestPerSecond
              /\ ~(next > interestPerSecond)
    BY <1>1, <2>2 DEF SGL!RateInBounds
  <2> QED
    BY <1>2, <2>3 DEF next
<1>3. CASE ~(utilization < minimumTargetUtilization) /\ utilization > maximumTargetUtilization
  <2>1. next = SGL!Interest!RateAboveTarget(interestPerSecond, utilization, elapsed)
    BY <1>3 DEF SGL!Interest!NextRate
  <2> HIDE DEF next
  <2>2. PICK grown \in Nat :
           /\ interestPerSecond <= grown
           /\ next = IF grown <= maximumInterestPerSecond THEN grown
                     ELSE maximumInterestPerSecond
    BY <1>3, <2>1, RateGrows
  <2>3. /\ next \in Nat
        /\ SGL!RateInBounds =>
              /\ next \in minimumInterestPerSecond..maximumInterestPerSecond
              /\ ~(next < interestPerSecond)
    BY <1>1, <2>2 DEF SGL!RateInBounds
  <2> QED
    BY <1>3, <2>3 DEF next
<1>4. CASE /\ ~(utilization < minimumTargetUtilization)
           /\ ~(utilization > maximumTargetUtilization)
  <2>1. next = interestPerSecond
    BY <1>4 DEF SGL!Interest!NextRate
  <2> HIDE DEF next
  <2>2. /\ next \in Nat /\ ~(next > interestPerSecond) /\ ~(next < interestPerSecond)
        /\ SGL!RateInBounds => next \in minimumInterestPerSecond..maximumInterestPerSecond
    BY <1>1, <2>1 DEF SGL!RateInBounds
  <2> QED
    BY <2>2 DEF next
<1> QED
  BY <1>2, <1>3, <1>4

(* What a charge of the interest does to the rate.                         *)
RateMovesSafely ==
    /\ interestPerSecond' # interestPerSecond => elapsed > 0
    /\ borrowed /\ SGL!RateInBounds =>
          /\ interestPerSecond' \in minimumInterestPerSecond..maximumInterestPerSecond
          /\ interestPerSecond' > interestPerSecond => utilization > maximumTargetUtilization
          /\ interestPerSecond' < interestPerSecond => utilization < minimumTargetUtilization

LEMMA RateStands ==
    ASSUME SingularityInv, interestPerSecond' = interestPerSecond
    PROVE  RateMovesSafely
<1>1. interestPerSecond \in Nat
  BY DEF SingularityInv
<1> QED
  BY <1>1 DEF RateMovesSafely, SGL!RateInBounds

LEMMA ChargeMovesSafely ==
    ASSUME SingularityInv, SGL!ChargeInterest
    PROVE  interestPerSecond' \in Nat /\ elapsed' = 0 /\ RateMovesSafely
<1>1. elapsed' = 0
  BY DEF SGL!ChargeInterest
<1>2. elapsed \in Nat /\ interestPerSecond \in Nat /\ startingInterestPerSecond \in Nat
  BY DEF SingularityInv
<1>3. CASE elapsed = 0
  <2>1. interestPerSecond' = interestPerSecond
    BY <1>3 DEF SGL!ChargeInterest
  <2> QED
    BY <1>1, <1>2, <2>1, RateStands
<1>4. CASE elapsed # 0 /\ ~borrowed
  <2>1. interestPerSecond' = startingInterestPerSecond
    BY <1>4 DEF SGL!ChargeInterest
  <2>2. elapsed > 0
    BY <1>2, <1>4
  <2> QED
    BY <1>1, <1>2, <1>4, <2>1, <2>2 DEF RateMovesSafely
<1>5. CASE elapsed # 0 /\ borrowed
  <2>1. interestPerSecond' = SGL!Interest!NextRate(interestPerSecond, utilization, elapsed)
    BY <1>5 DEF SGL!ChargeInterest
  <2>2. elapsed > 0
    BY <1>2, <1>5
  <2> QED
    BY <1>1, <2>1, <2>2, NextRateFacts DEF RateMovesSafely
<1> QED
  BY <1>3, <1>4, <1>5

(* What InterestChangesSafely and RateFollowsTarget ask of a step.         *)
SingularityStepSafe ==
    /\ SGL!interestVars' # SGL!interestVars => elapsed' = 0
    /\ interestPerSecond' # interestPerSecond => interestHelper'
    /\ minimumInterestPerSecond < maximumInterestPerSecond
          => minimumInterestPerSecond' < maximumInterestPerSecond'
    /\ RateMovesSafely

LEMMA SetSingularityConfigKeeps ==
    ASSUME SingularityInv, NEW fee \in Nat, NEW multiplier \in Nat, NEW minTarget \in Nat,
           NEW maxTarget \in Nat, NEW min \in Nat, NEW max \in Nat,
           NEW elasticity \in Nat, NEW helper,
           SGL!SetSingularityConfig(fee, multiplier, minTarget, maxTarget, min, max,
                                    elasticity, helper)
    PROVE  SingularityInv' /\ SingularityStepSafe
<1>1. /\ interestHelper' /\ SGL!ChargeInterest
      /\ SGL!SetTargets(minTarget, maxTarget) /\ SGL!SetBounds(min, max)
      /\ interestElasticity' = IF elasticity > 0 THEN elasticity ELSE interestElasticity
      /\ multiplier <= FEE_PRECISION
      /\ liquidationMultiplier' = IF multiplier > 0 THEN multiplier
                                  ELSE liquidationMultiplier
      /\ UNCHANGED <<collateralizationRate, liquidationCollateralizationRate,
                     minLiquidatorReward, maxLiquidatorReward, liquidationBonusAmount,
                     maxLiquidationSlippage, startingInterestPerSecond, utilization>>
  BY DEF SGL!SetSingularityConfig, SGL!Updated, SGL!rateVars, SGL!rewardVars
<1>2. interestPerSecond' \in Nat /\ elapsed' = 0 /\ RateMovesSafely
  BY <1>1, ChargeMovesSafely
<1>3. MarketRatesInv'
  <2>1. liquidationMultiplier' \in 0..FEE_PRECISION
    BY <1>1, AdministrationAssumption DEF SingularityInv, MarketRatesInv
  <2> QED
    BY <1>1, <2>1 DEF SingularityInv, MarketRatesInv
<1>4. /\ minimumTargetUtilization' \in Nat
      /\ maximumTargetUtilization' \in 0..(UTILIZATION_PRECISION - 1)
  <2>1. /\ minimumTargetUtilization' = IF minTarget > 0 THEN minTarget
                                       ELSE minimumTargetUtilization
        /\ maxTarget < UTILIZATION_PRECISION
        /\ maximumTargetUtilization' = IF maxTarget > 0 THEN maxTarget
                                       ELSE maximumTargetUtilization
    BY <1>1 DEF SGL!SetTargets, SGL!Updated
  <2> QED
    BY <2>1, AdministrationAssumption DEF SingularityInv
<1>5. /\ minimumInterestPerSecond' \in Nat /\ maximumInterestPerSecond' \in Nat
      /\ minimumInterestPerSecond < maximumInterestPerSecond
            => minimumInterestPerSecond' < maximumInterestPerSecond'
  <2>1. /\ min > 0 => min < maximumInterestPerSecond
        /\ minimumInterestPerSecond' = IF min > 0 THEN min ELSE minimumInterestPerSecond
        /\ max > 0 => max > minimumInterestPerSecond'
        /\ maximumInterestPerSecond' = IF max > 0 THEN max ELSE maximumInterestPerSecond
    BY <1>1 DEF SGL!SetBounds, SGL!Updated
  <2> QED
    BY <2>1 DEF SingularityInv
<1>6. interestElasticity' \in Nat \ {0}
  BY <1>1 DEF SingularityInv
<1>7. startingInterestPerSecond' \in Nat /\ elapsed' \in Nat /\ utilization' \in Nat
  BY <1>1, <1>2 DEF SingularityInv
<1>8. SingularityInv'
  BY <1>2, <1>3, <1>4, <1>5, <1>6, <1>7 DEF SingularityInv
<1> QED
  BY <1>1, <1>2, <1>5, <1>8 DEF SingularityStepSafe

LEMMA SingularityKept ==
    ASSUME SingularityInv, SGL!Next
    PROVE  SingularityInv' /\ SingularityStepSafe
<1>1. CASE SGL!MarketConfigStep
             /\ UNCHANGED <<borrowOpeningFee, SGL!interestVars, interestHelper,
                            interestPerSecond, elapsed, utilization, borrowed>>
  <2>1. MarketRatesInv'
    BY <1>1, MarketStepOfSingularity DEF SingularityInv
  <2>2. SingularityInv'
    BY <1>1, <2>1 DEF SingularityInv, SGL!interestVars, SGL!boundVars, SGL!targetVars
  <2>3. RateMovesSafely
    BY <1>1, RateStands
  <2> QED
    BY <1>1, <2>2, <2>3 DEF SingularityStepSafe, SGL!interestVars, SGL!boundVars
<1>2. ASSUME NEW u \in Utilizations, SGL!UseMarket(u)
      PROVE  SingularityInv' /\ SingularityStepSafe
  <2>1. /\ interestHelper' /\ SGL!ChargeInterest /\ utilization' = u
        /\ UNCHANGED <<SGL!configVars, SGL!interestVars>>
    BY <1>2 DEF SGL!UseMarket
  <2>2. interestPerSecond' \in Nat /\ elapsed' = 0 /\ RateMovesSafely
    BY <2>1, ChargeMovesSafely
  <2>3. u \in Nat
    BY InputsAssumption
  <2>4. SingularityInv'
    BY <2>1, <2>2, <2>3
       DEF SingularityInv, MarketRatesInv, SGL!configVars, SGL!rateVars, SGL!rewardVars,
           SGL!interestVars, SGL!boundVars, SGL!targetVars
  <2> QED
    BY <2>1, <2>2, <2>4 DEF SingularityStepSafe, SGL!interestVars, SGL!boundVars
<1>3. ASSUME NEW fee \in OpeningFees, NEW multiplier \in SingularityMultipliers,
             NEW minTarget \in Targets, NEW maxTarget \in Targets,
             NEW min \in InterestRates, NEW max \in InterestRates,
             NEW elasticity \in Elasticities, NEW helper \in BOOLEAN,
             SGL!SetSingularityConfig(fee, multiplier, minTarget, maxTarget, min, max,
                                      elasticity, helper)
      PROVE  SingularityInv' /\ SingularityStepSafe
  <2>1. /\ fee \in Nat /\ multiplier \in Nat /\ minTarget \in Nat /\ maxTarget \in Nat
        /\ min \in Nat /\ max \in Nat /\ elasticity \in Nat
    <3>1. /\ OpeningFees \subseteq Nat /\ SingularityMultipliers \subseteq Nat
          /\ Targets \subseteq Nat /\ InterestRates \subseteq Nat
          /\ Elasticities \subseteq Nat
      BY InputsAssumption
    <3> QED
      BY <3>1
  <2> QED
    BY <1>3, <2>1, SetSingularityConfigKeeps, Zenon
<1>4. ASSUME NEW time \in Times, SGL!Tick(time)
      PROVE  SingularityInv' /\ SingularityStepSafe
  <2>1. /\ elapsed' = time
        /\ UNCHANGED <<SGL!configVars, SGL!interestVars, interestPerSecond, utilization>>
    BY <1>4 DEF SGL!Tick
  <2>2. time \in Nat
    BY InputsAssumption
  <2>3. SingularityInv'
    BY <2>1, <2>2
       DEF SingularityInv, MarketRatesInv, SGL!configVars, SGL!rateVars, SGL!rewardVars,
           SGL!interestVars, SGL!boundVars, SGL!targetVars
  <2>4. RateMovesSafely
    BY <2>1, RateStands
  <2> QED
    BY <2>1, <2>3, <2>4 DEF SingularityStepSafe, SGL!interestVars, SGL!boundVars
<1> QED
  BY <1>1, <1>2, <1>3, <1>4 DEF SGL!Next, SGL!SetConfigStep

-----------------------------------------------------------------------------
(* What is administered, together.  The configuration of a market that is  *)
(* not there stands still.                                                 *)
AdminInv ==
    /\ RegistryInv
    /\ administered = "BigBang" => BigBangInv
    /\ administered = "Singularity" => SingularityInv

LEMMA AdminBegins == AdminInit => AdminInv
<1> SUFFICES ASSUME AdminInit
             PROVE  AdminInv
  OBVIOUS
<1>1. RegistryInv
  BY RegistryBegins DEF AdminInit
<1>2. administered = "BigBang" => BigBangInv
  BY BigBangBegins DEF AdminInit
<1>3. administered = "Singularity" => SingularityInv
  BY SingularityBegins DEF AdminInit
<1> QED
  BY <1>1, <1>2, <1>3 DEF AdminInv

LEMMA AdminKept == AdminInv /\ [AdminNext]_adminVars => AdminInv'
<1> SUFFICES ASSUME AdminInv, [AdminNext]_adminVars
             PROVE  AdminInv'
  OBVIOUS
<1>1. CASE AdministerRegistry
  <2>1. RegistryInv'
    BY <1>1, RegistryKept DEF AdministerRegistry, AdminInv
  <2> QED
    BY <1>1, <2>1 DEF AdministerRegistry, AdminInv
<1>2. CASE ConfigureBigBang
  <2>1. RegistryInv'
    BY <1>2, RegistryKept DEF ConfigureBigBang, AdminInv
  <2>2. BigBangInv'
    BY <1>2, BigBangKept DEF ConfigureBigBang, AdminInv
  <2> QED
    BY <1>2, <2>1, <2>2 DEF ConfigureBigBang, AdminInv
<1>3. CASE ConfigureSingularity
  <2>1. RegistryInv'
    BY <1>3, RegistryKept DEF ConfigureSingularity, AdminInv
  <2>2. SingularityInv'
    BY <1>3, SingularityKept DEF ConfigureSingularity, AdminInv
  <2> QED
    BY <1>3, <2>1, <2>2 DEF ConfigureSingularity, AdminInv
<1>4. CASE UNCHANGED adminVars
  <2>1. RegistryInv'
    BY <1>4, RegistryKept DEF adminVars, AdminInv
  <2> QED
    BY <1>4, <2>1 DEF adminVars, marketConfig, bigBangConfig, singularityConfig, AdminInv,
                      BigBangInv, SingularityInv, MarketRatesInv
<1> QED
  BY <1>1, <1>2, <1>3, <1>4 DEF AdminNext

LEMMA AdminInvHolds == AdminSpec => []AdminInv
  BY AdminBegins, AdminKept, PTL DEF AdminSpec

(* A step that leaves the debt rates of a BigBang market, or the interest  *)
(* of a Singularity one, alone.                                            *)
LEMMA StepOfDebtRates ==
    ASSUME AdminInv, [AdminNext]_adminVars
    PROVE  /\ minDebtRate < maxDebtRate => minDebtRate' < maxDebtRate'
           /\ BB!debtVars' # BB!debtVars => accrued'
<1>1. CASE ConfigureBigBang
  BY <1>1, BigBangChangesSafely DEF ConfigureBigBang, AdminInv
<1>2. CASE ~ConfigureBigBang
  BY <1>2 DEF AdminNext, AdministerRegistry, ConfigureSingularity, adminVars,
              bigBangConfig, BB!debtVars
<1> QED
  BY <1>1, <1>2

LEMMA StepOfInterest ==
    ASSUME AdminInv, [AdminNext]_adminVars
    PROVE  \/ administered = "Singularity" /\ SingularityInv /\ SingularityStepSafe
           \/ UNCHANGED <<SGL!interestVars, interestPerSecond>>
<1>1. CASE ConfigureSingularity
  BY <1>1, SingularityKept DEF ConfigureSingularity, AdminInv
<1>2. CASE ~ConfigureSingularity
  BY <1>2 DEF AdminNext, AdministerRegistry, ConfigureBigBang, adminVars,
              singularityConfig, SGL!interestVars, SGL!boundVars, SGL!targetVars
<1> QED
  BY <1>1, <1>2

-----------------------------------------------------------------------------
(* The theorems.                                                           *)

(* The lists of BigBang and of Origins markets are those registered, each  *)
(* once (Penrose.sol).                                                     *)
THEOREM ListsStayExact == AdminSpec => []ListsAreExact
<1>1. AdminInv => ListsAreExact
  BY DEF AdminInv, RegistryInv
<1> QED
  BY <1>1, AdminInvHolds, PTL

(* Every registered market can be reached by executeMarketFn, through its  *)
(* master contract's clones (Penrose.sol).                                 *)
THEOREM RegisteredStayReachable == AdminSpec => []RegisteredAreReachable
<1>1. AdminInv => RegisteredAreReachable
  BY ReachableIsSeen DEF AdminInv, RegistryInv
<1> QED
  BY <1>1, AdminInvHolds, PTL

(* However a market's rates are configured, for any precisions, no         *)
(* position that may borrow may be liquidated (setMarketConfig).           *)
THEOREM ConfiguredSolventNotLiquidatable == AdminSpec => []SolventNotLiquidatable
<1>1. AdminInv => SolventNotLiquidatable
  BY SolventIsSafeInBigBang, SolventIsSafeInSingularity
     DEF AdminInv, BigBangInv, SingularityInv, SolventNotLiquidatable
<1> QED
  BY <1>1, AdminInvHolds, PTL

(* While the collateralization rate leaves room for the liquidator's       *)
(* bonus, no position that may borrow may be written off as bad debt,      *)
(* whatever is rounded (setMarketConfig, liquidateBadDebt).                 *)
THEOREM ConfiguredSolventIsNotBadDebt == AdminSpec => []SolventIsNotBadDebt
<1>1. AdminInv => SolventIsNotBadDebt
  BY SolventIsSafeInBigBang, SolventIsSafeInSingularity
     DEF AdminInv, BigBangInv, SingularityInv, SolventIsNotBadDebt
<1> QED
  BY <1>1, AdminInvHolds, PTL

(* Opening fees and debt rates stay between the bounds in force, and move  *)
(* the right way (computeVariableOpeningFee, getDebtRate).                 *)
THEOREM RatesStayInRange == AdminSpec => []RatesInRange
<1>1. AdminInv => RatesInRange
  BY BigBangRatesInRange DEF AdminInv, RatesInRange
<1> QED
  BY <1>1, AdminInvHolds, PTL

(* Debt rates change only once interest is charged at the old ones, and    *)
(* bounds once in order stay in order (setBigBangConfig).                  *)
THEOREM DebtRatesAreChanged == AdminSpec => DebtRatesChangeSafely
<1>1. AdminInv /\ [AdminNext]_adminVars =>
         [/\ minDebtRate < maxDebtRate => minDebtRate' < maxDebtRate'
          /\ BB!debtVars' # BB!debtVars => accrued']_BB!vars
  BY StepOfDebtRates
<1> QED
  BY <1>1, AdminInvHolds, PTL
     DEF AdminSpec, DebtRatesChangeSafely, BB!DebtRatesChangeSafely

(* A Singularity market's interest rate rises only above its target and    *)
(* falls only below it, within its bounds (getInterestRate).               *)
THEOREM RateFollowsItsTarget == AdminSpec => RateFollowsTarget
<1>1. AdminInv /\ [AdminNext]_adminVars =>
         [UNCHANGED SGL!boundVars /\ borrowed /\ SGL!RateInBounds =>
            /\ SGL!RateInBounds'
            /\ interestPerSecond' > interestPerSecond
                  => utilization > maximumTargetUtilization
            /\ interestPerSecond' < interestPerSecond
                  => utilization < minimumTargetUtilization]_SGL!vars
  <2> SUFFICES ASSUME AdminInv, [AdminNext]_adminVars, UNCHANGED SGL!boundVars, borrowed,
                      SGL!RateInBounds
               PROVE  /\ SGL!RateInBounds'
                      /\ interestPerSecond' > interestPerSecond
                            => utilization > maximumTargetUtilization
                      /\ interestPerSecond' < interestPerSecond
                            => utilization < minimumTargetUtilization
    OBVIOUS
  <2>1. CASE SingularityInv /\ SingularityStepSafe
    BY <2>1 DEF SingularityStepSafe, RateMovesSafely, SGL!RateInBounds, SGL!boundVars
  <2>2. CASE UNCHANGED <<SGL!interestVars, interestPerSecond>>
    <3>1. /\ interestPerSecond' = interestPerSecond
          /\ interestPerSecond \in minimumInterestPerSecond..maximumInterestPerSecond
          /\ UNCHANGED <<minimumInterestPerSecond, maximumInterestPerSecond>>
      BY <2>2 DEF SGL!RateInBounds, SGL!boundVars
    <3> QED
      BY <3>1 DEF SGL!RateInBounds
  <2> QED
    BY <2>1, <2>2, StepOfInterest
<1> QED
  BY <1>1, AdminInvHolds, PTL DEF AdminSpec, RateFollowsTarget, SGL!RateFollowsTarget

(* The parameters of the interest change only once it is charged, and the  *)
(* rate only when time passed and a helper is set (setSingularityConfig).  *)
THEOREM InterestIsChanged == AdminSpec => InterestChangesSafely
<1>1. AdminInv /\ [AdminNext]_adminVars =>
         [/\ SGL!interestVars' # SGL!interestVars => elapsed' = 0
          /\ interestPerSecond' # interestPerSecond => interestHelper' /\ elapsed > 0
          /\ minimumInterestPerSecond < maximumInterestPerSecond
                => minimumInterestPerSecond' < maximumInterestPerSecond']_SGL!vars
  <2> SUFFICES ASSUME AdminInv, [AdminNext]_adminVars
               PROVE  /\ SGL!interestVars' # SGL!interestVars => elapsed' = 0
                      /\ interestPerSecond' # interestPerSecond
                            => interestHelper' /\ elapsed > 0
                      /\ minimumInterestPerSecond < maximumInterestPerSecond
                            => minimumInterestPerSecond' < maximumInterestPerSecond'
    OBVIOUS
  <2>1. CASE SingularityInv /\ SingularityStepSafe
    BY <2>1 DEF SingularityStepSafe, RateMovesSafely
  <2>2. CASE UNCHANGED <<SGL!interestVars, interestPerSecond>>
    BY <2>2 DEF SGL!interestVars, SGL!boundVars
  <2> QED
    BY <2>1, <2>2, StepOfInterest
<1> QED
  BY <1>1, AdminInvHolds, PTL
     DEF AdminSpec, InterestChangesSafely, SGL!InterestChangesSafely
=============================================================================
