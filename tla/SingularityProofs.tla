-------------------------- MODULE SingularityProofs -------------------------
(***************************************************************************)
(* Theorems about a Singularity market, for any lenders, borrowers,        *)
(* amounts, rates and bounds.                                              *)
(*                                                                         *)
(* The invariant joins the two sides of the pool: the types, the soundness *)
(* of the debt (without which neither the fee of the interest nor that of  *)
(* a loan is known to be divided by something), the shape and the backing  *)
(* of the pool, and the sums of the holdings (without which a position is  *)
(* not known to be a part of the debt).  What a step does is split into    *)
(* charging the interest and the handler's own work on the charged pool.   *)
(***************************************************************************)
EXTENDS Singularity, MarketTheorems

(* A pool ta that has lent tb.                                             *)
SoundPool(ta, tb) ==
    /\ ta \in [elastic : Nat, base : Nat]
    /\ SoundDebt(tb)
    /\ ta.base = 0 \/ ta.base >= MinFraction
    /\ ta.base = 0 <=> AllShare(ta, tb) = 0

IInv ==
    /\ TypeOK
    /\ SoundDebt(totalBorrow)
    /\ PoolShape
    /\ AssetBacked
    /\ HoldingsAddUp

(* From a pool worth a1 in b1 fractions to one worth a2 in b2: a fraction  *)
(* loses nothing but what new ones take of one unit of the asset.          *)
NewFractions(b1, b2) == IF b2 > b1 THEN b2 - b1 ELSE 0
NoLoss(a1, b1, a2, b2) ==
    a1 * b2 <= a2 * b1 + NewFractions(b1, b2) * (AssetShareRatio - 1)

-----------------------------------------------------------------------------
(* Arithmetic of the pool.                                                 *)

LEMMA AllShareType ==
    ASSUME NEW ta \in [elastic : Nat, base : Nat], NEW tb, SoundDebt(tb)
    PROVE  /\ AllShare(ta, tb) \in Nat
           /\ ta.elastic <= AllShare(ta, tb)
           /\ FullAssetAmount(ta, tb) \in Nat
           /\ AllShare(ta, tb) <= AssetShareRatio * FullAssetAmount(ta, tb)
                                    + (AssetShareRatio - 1)
<1> DEFINE a == ToAmount(AssetShareRatio, ta.elastic)
<1>1. ta.elastic \in Nat /\ tb.elastic \in Nat /\ AssetShareRatio \in Nat \ {0}
  BY SingularityAssumption DEF SoundDebt
<1>2. tb.elastic * AssetShareRatio \in Nat
  BY <1>1, SMT
<1>3. a \in Nat /\ ta.elastic < AssetShareRatio * a + AssetShareRatio
  BY <1>1, DivFacts DEF ToAmount
<1> HIDE DEF a
<1>4. /\ AllShare(ta, tb) = ta.elastic + tb.elastic * AssetShareRatio
      /\ FullAssetAmount(ta, tb) = a + tb.elastic
  BY DEF AllShare, FullAssetAmount, ToShare, a
<1>5. AssetShareRatio * (a + tb.elastic) = AssetShareRatio * a + tb.elastic * AssetShareRatio
  BY <1>1, <1>3, SMT
<1>6. AssetShareRatio * a \in Nat
  BY <1>1, <1>3, SMT
<1> QED
  BY <1>1, <1>2, <1>3, <1>4, <1>5, <1>6

(* Fractions for a fee, at most what the fee is of d units of the pool.    *)
LEMMA FeeKeepsValue ==
    ASSUME NEW a \in Nat, NEW b \in Nat, NEW d \in Nat, NEW fee \in Nat,
           NEW ff \in Nat, ff * d <= fee * b,
           a <= AssetShareRatio * d + (AssetShareRatio - 1)
    PROVE  NoLoss(a, b, a + fee * AssetShareRatio, b + ff)
<1> DEFINE r == AssetShareRatio
<1>1. r \in Nat \ {0}
  BY SingularityAssumption
<1>2. NewFractions(b, b + ff) = ff
  BY DEF NewFractions
<1> HIDE DEF r
<1>3. a * ff <= (r * d + (r - 1)) * ff
  <2>1. r * d + (r - 1) \in Nat
    BY <1>1, SMT
  <2> QED
    BY <2>1, ProductMonotone DEF r
<1>4. (ff * d) * r <= (fee * b) * r
  <2>1. ff * d \in Nat /\ fee * b \in Nat
    BY SMT
  <2> QED
    BY <1>1, <2>1, ProductMonotone
<1>5. (r * d + (r - 1)) * ff = (ff * d) * r + ff * (r - 1)
  BY <1>1, SMT
<1>6. /\ a * (b + ff) = a * b + a * ff
      /\ (a + fee * r) * b = a * b + (fee * b) * r
  BY <1>1, SMT
<1>7. /\ a * ff \in Nat /\ (ff * d) * r \in Nat /\ (fee * b) * r \in Nat
      /\ ff * (r - 1) \in Nat /\ a * b \in Nat
  BY <1>1, SMT
<1>8. a * (b + ff) <= (a + fee * r) * b + ff * (r - 1)
  BY <1>3, <1>4, <1>5, <1>6, <1>7
<1> QED
  BY <1>2, <1>8 DEF NoLoss, r

(* Charging the interest, then what the handler does.                      *)
LEMMA NoLossTwice ==
    ASSUME NEW x \in Nat, NEW b0 \in Nat, NEW a1 \in Nat, NEW ff \in Nat,
           NEW a2 \in Nat, NEW b2 \in Nat,
           b0 = 0 => x = 0,
           x * (b0 + ff) <= a1 * b0 + ff * (AssetShareRatio - 1),
           NoLoss(a1, b0 + ff, a2, b2)
    PROVE  x * b2 <= a2 * b0 + (ff + NewFractions(b0 + ff, b2)) * (AssetShareRatio - 1)
<1> DEFINE k == NewFractions(b0 + ff, b2)
           b1 == b0 + ff
           s == AssetShareRatio - 1
<1>1. k \in Nat /\ b1 \in Nat /\ s \in Nat
  BY SingularityAssumption DEF NewFractions
<1>2. /\ a1 * b2 <= a2 * b1 + k * s
      /\ x * b1 <= a1 * b0 + ff * s
  BY DEF NoLoss
<1>3. k * b0 + ff * b2 <= (ff + k) * b1
  <2>1. CASE b2 > b1
    <3>1. k = b2 - b1
      BY <2>1 DEF NewFractions
    <3>2. b2 = b1 + k
      BY <1>1, <3>1
    <3>3. b1 = b0 + ff
      OBVIOUS
    <3> HIDE DEF k, b1
    <3>4. k * b0 + ff * (b1 + k) = (ff + k) * b1
      BY <1>1, <3>3, SMT
    <3>5. (ff + k) * b1 \in Nat
      BY <1>1, SMT
    <3> QED
      BY <3>2, <3>4, <3>5
  <2>2. CASE ~(b2 > b1)
    <3>1. k = 0
      BY <2>2 DEF NewFractions
    <3>2. b2 <= b1
      BY <1>1, <2>2
    <3>3. b2 * ff <= b1 * ff
      BY <1>1, <3>2, ProductMonotone
    <3> HIDE DEF k, b1
    <3> QED
      BY <1>1, <3>1, <3>3, SMT
  <2> QED
    BY <2>1, <2>2
<1> HIDE DEF s
<1>4. CASE b0 = 0
  <2>1. x * b2 = 0
    BY <1>4, SMT
  <2>2. a2 * b0 + (ff + k) * s \in Nat
    BY <1>1, SMT
  <2> QED
    BY <2>1, <2>2 DEF s
<1>5. CASE b0 # 0
  <2>1. b1 \in Nat \ {0}
    BY <1>1, <1>5
  <2> HIDE DEF k, b1
  <2>2. (x * b1) * b2 <= (a1 * b0 + ff * s) * b2
    <3>1. x * b1 \in Nat /\ a1 * b0 + ff * s \in Nat
      BY <1>1, SMT
    <3> QED
      BY <1>2, <3>1, ProductMonotone
  <2>3. (a1 * b2) * b0 <= (a2 * b1 + k * s) * b0
    <3>1. a1 * b2 \in Nat /\ a2 * b1 + k * s \in Nat
      BY <1>1, SMT
    <3> QED
      BY <1>2, <3>1, ProductMonotone
  <2>4. (k * b0 + ff * b2) * s <= ((ff + k) * b1) * s
    <3>1. k * b0 + ff * b2 \in Nat /\ (ff + k) * b1 \in Nat
      BY <1>1, SMT
    <3> QED
      BY <1>1, <1>3, <3>1, ProductMonotone
  <2>5. /\ (x * b1) * b2 = (x * b2) * b1
        /\ (a1 * b0 + ff * s) * b2 = (a1 * b2) * b0 + (ff * b2) * s
        /\ (a2 * b1 + k * s) * b0 = (a2 * b0) * b1 + (k * b0) * s
        /\ (k * b0 + ff * b2) * s = (k * b0) * s + (ff * b2) * s
        /\ ((ff + k) * b1) * s = ((ff + k) * s) * b1
        /\ (a2 * b0 + (ff + k) * s) * b1 = (a2 * b0) * b1 + ((ff + k) * s) * b1
    BY <1>1, SMT
  <2>6. /\ (x * b2) * b1 \in Nat /\ (a1 * b2) * b0 \in Nat /\ (ff * b2) * s \in Nat
        /\ (a2 * b0) * b1 \in Nat /\ (k * b0) * s \in Nat
        /\ ((ff + k) * s) * b1 \in Nat
    BY <1>1, SMT
  <2>7. (x * b2) * b1 <= (a2 * b0 + (ff + k) * s) * b1
    BY <2>2, <2>3, <2>4, <2>5, <2>6
  <2>8. x * b2 \in Nat /\ a2 * b0 + (ff + k) * s \in Nat
    BY <1>1, SMT
  <2>9. x * b2 <= a2 * b0 + (ff + k) * s
    BY <2>1, <2>7, <2>8, CancelProduct
  <2> QED
    BY <2>9 DEF s, k, b1
<1> QED
  BY <1>4, <1>5

-----------------------------------------------------------------------------
(* Charging the interest.                                                  *)

LEMMA StateFacts ==
    ASSUME IInv
    PROVE  /\ SoundDebt(totalBorrow) /\ SoundPool(totalAsset, totalBorrow)
           /\ totalAsset.elastic \in Nat /\ totalAsset.base \in Nat
           /\ totalBorrow.elastic \in 0..MaxUint128 /\ totalBorrow.base \in 0..MaxUint128
           /\ userBorrowPart \in [Borrowers -> Nat]
           /\ userCollateralShare \in [Borrowers -> Nat]
           /\ balanceOf \in [Holders -> Nat] /\ IsFiniteSet(Holders)
           /\ totalCollateralShare \in Nat /\ ybCollateral \in Nat /\ ybAsset \in Nat
           /\ totalAsset.elastic <= ybAsset /\ feesEarnedFraction \in Nat
<1>1. IsFiniteSet(Holders)
  BY AccountsAssumption, FS_AddElement DEF Holders
<1> QED
  BY <1>1 DEF IInv, TypeOK, PoolShape, AssetBacked, SoundPool

(* A position is part of the debt and of the collateral held.              *)
LEMMA PositionWithinTotals ==
    ASSUME IInv, NEW u \in Borrowers
    PROVE  /\ userBorrowPart[u] <= totalBorrow.base
           /\ userCollateralShare[u] <= totalCollateralShare
  BY StateFacts, AccountsAssumption, SumBounds DEF IInv, HoldingsAddUp

LEMMA InterestFacts ==
    ASSUME IInv
    PROVE  /\ Interest \in Nat /\ InterestFee \in 0..Interest
           /\ NothingDue => Interest = 0 /\ InterestFee = 0
           /\ AccruedBorrow.elastic = totalBorrow.elastic + Interest
           /\ AccruedBorrow.base = totalBorrow.base
           /\ SoundDebt(AccruedBorrow)
           /\ NoDearer(AccruedBorrow, AccruedBorrow)
           /\ NoDearer(totalBorrow, AccruedBorrow)
<1> DEFINE e == totalBorrow.elastic
           b == totalBorrow.base
           grown == e * interestPerSecond * Elapsed
<1>1. /\ e \in Nat /\ b \in Nat /\ b <= e /\ (b = 0 => e = 0)
      /\ Elapsed \in Nat /\ interestPerSecond \in Nat
      /\ INTEREST_PRECISION \in Nat \ {0}
      /\ protocolFee \in Nat /\ protocolFee <= FEE_PRECISION /\ FEE_PRECISION \in Nat \ {0}
  BY StateFacts, SingularityAssumption, PrecisionAssumption
  DEF IInv, TypeOK, SoundDebt, Elapsed
<1>2. grown \in Nat
  BY <1>1, SMT
<1>3. Interest \in Nat
  BY <1>1, <1>2, DivFacts DEF Interest
<1>4. NothingDue => Interest = 0
  BY DEF Interest
<1>5. InterestFee \in Nat /\ InterestFee <= Interest
  <2>1. Interest * protocolFee \in Nat /\ Interest * protocolFee <= Interest * FEE_PRECISION
    BY <1>1, <1>3, SMT
  <2>2. InterestFee \in Nat /\ FEE_PRECISION * InterestFee <= Interest * protocolFee
    BY <1>1, <2>1, DivFacts DEF InterestFee
  <2>3. InterestFee * FEE_PRECISION <= Interest * FEE_PRECISION
    BY <1>1, <1>3, <2>1, <2>2, SMT
  <2> QED
    BY <1>1, <1>3, <2>2, <2>3, CancelProduct
<1>6. b = 0 => Interest = 0
  BY <1>4 DEF NothingDue
<1>7. AccruedBorrow.elastic = e + Interest /\ AccruedBorrow.base = b
  BY DEF AccruedBorrow
<1>8. SoundDebt(AccruedBorrow)
  BY <1>1, <1>3, <1>6, <1>7 DEF SoundDebt
<1>9. e * b <= (e + Interest) * b
  BY <1>1, <1>3, SMT
<1>10. (e + Interest) * b \in Nat
  BY <1>1, <1>3, SMT
<1> QED
  BY <1>3, <1>4, <1>5, <1>7, <1>8, <1>9, <1>10 DEF NoDearer

(* What interest does to the pool: it stays sound, and with all of the     *)
(* interest but the fee added to it, a fraction keeps its value.           *)
LEMMA ChargedPool ==
    ASSUME IInv
    PROVE  /\ InterestFeeFraction \in Nat
           /\ NothingDue => InterestFeeFraction = 0
           /\ AccruedAsset.elastic = totalAsset.elastic
           /\ AccruedAsset.base = totalAsset.base + InterestFeeFraction
           /\ SoundPool(AccruedAsset, AccruedBorrow)
           /\ NoLoss(AllShare(totalAsset, totalBorrow)
                       + ToShare(AssetShareRatio, Interest - InterestFee),
                     totalAsset.base, AllShare(AccruedAsset, AccruedBorrow),
                     AccruedAsset.base)
<1> DEFINE r == AssetShareRatio
           I == Interest
           F == InterestFee
           B == totalAsset.base
           full == FullAssetAmount(totalAsset, AccruedBorrow)
           all == AllShare(totalAsset, totalBorrow)
           ff == InterestFeeFraction
<1>1. /\ I \in Nat /\ F \in Nat /\ F <= I /\ B \in Nat /\ r \in Nat \ {0}
      /\ totalBorrow.elastic \in Nat /\ totalAsset.elastic \in Nat
      /\ AccruedBorrow.elastic = totalBorrow.elastic + I
      /\ AccruedBorrow.base = totalBorrow.base
      /\ SoundDebt(totalBorrow) /\ SoundDebt(AccruedBorrow)
      /\ totalAsset \in [elastic : Nat, base : Nat]
  BY StateFacts, InterestFacts, SingularityAssumption DEF SoundPool
<1>2. /\ AccruedAsset.elastic = totalAsset.elastic
      /\ AccruedAsset.base = B + ff
  BY DEF AccruedAsset
<1>3. /\ all \in Nat /\ full \in Nat
      /\ AllShare(totalAsset, AccruedBorrow) <= r * full + (r - 1)
      /\ AllShare(totalAsset, AccruedBorrow) = all + I * r
      /\ full >= totalBorrow.elastic + I
  <2>1. ToAmount(AssetShareRatio, totalAsset.elastic) \in Nat
    BY <1>1, DivFacts DEF ToAmount
  <2>2. full >= totalBorrow.elastic + I
    BY <1>1, <2>1 DEF FullAssetAmount
  <2>3. (totalBorrow.elastic + I) * r = totalBorrow.elastic * r + I * r
        /\ totalBorrow.elastic * r \in Nat /\ I * r \in Nat
    BY <1>1, SMT
  <2>4. AllShare(totalAsset, AccruedBorrow) = all + I * r
    BY <1>1, <2>3 DEF AllShare, ToShare
  <2> QED
    BY <1>1, <2>2, <2>4, AllShareType
<1>4. /\ ff \in Nat
      /\ ff * (full - F) <= F * B
      /\ NothingDue => ff = 0
  <2>1. CASE NothingDue
    <3>1. ff = 0
      BY <2>1 DEF InterestFeeFraction
    <3>2. 0 * (full - F) = 0 /\ F * B \in Nat
      BY <1>1, <1>3, SMT
    <3> QED
      BY <3>1, <3>2
  <2>2. CASE ~NothingDue
    <3>1. totalBorrow.elastic # 0
      BY <1>1, <2>2 DEF NothingDue, SoundDebt
    <3>2. full - F \in Nat \ {0}
      <4>1. totalBorrow.elastic \in Nat \ {0}
        BY <1>1, <3>1
      <4> HIDE DEF r, I, F, B, full, all, ff
      <4>2. /\ full \in Nat /\ I \in Nat /\ F \in Nat /\ F <= I
            /\ full >= totalBorrow.elastic + I
        BY <1>1, <1>3
      <4> QED
        BY <4>1, <4>2
    <3>3. ff = (F * B) \div (full - F)
      BY <2>2 DEF InterestFeeFraction
    <3>4. F * B \in Nat
      BY <1>1, SMT
    <3>5. ff \in Nat /\ (full - F) * ff <= F * B
      BY <3>2, <3>3, <3>4, DivFacts
    <3> QED
      BY <2>2, <3>2, <3>5, SMT
  <2> QED
    BY <2>1, <2>2
<1>5. AllShare(AccruedAsset, AccruedBorrow) = all + I * r
  BY <1>2, <1>3 DEF AllShare
<1> HIDE DEF r, I, F, B, full, all, ff
<1>6. NoLoss(all + (I - F) * r, B, all + I * r, B + ff)
  <2>1. (I - F) * r \in Nat /\ I * r = (I - F) * r + F * r /\ F * r \in Nat
        /\ full - F \in Nat
    BY <1>1, <1>3, SMT
  <2>2. all + (I - F) * r <= r * (full - F) + (r - 1)
    <3>1. r * (full - F) = r * full - F * r /\ r * full \in Nat
      BY <1>1, <1>3, SMT
    <3> QED
      BY <1>1, <1>3, <2>1, <3>1
  <2>3. all + (I - F) * r \in Nat
        /\ (all + (I - F) * r) + F * r = all + I * r
    BY <1>3, <2>1
  <2>4. NoLoss(all + (I - F) * r, B, (all + (I - F) * r) + F * r, B + ff)
    BY <1>1, <1>4, <2>1, <2>2, <2>3, FeeKeepsValue DEF r
  <2> QED
    BY <2>3, <2>4
<1>7. SoundPool(AccruedAsset, AccruedBorrow)
  <2>1. AccruedAsset \in [elastic : Nat, base : Nat]
    BY <1>1, <1>2, <1>4 DEF AccruedAsset, B, ff
  <2>2. /\ B = 0 \/ B >= MinFraction
        /\ B = 0 <=> all = 0
    BY StateFacts DEF SoundPool, B, all
  <2>3. I * r \in Nat /\ MinFraction \in Nat \ {0}
    BY <1>1, SingularityAssumption, SMT
  <2>4. CASE B = 0
    <3>1. totalBorrow.elastic = 0
      <4>1. all = 0 /\ totalBorrow.elastic * r \in Nat
        BY <1>1, <2>2, <2>4, SMT
      <4>2. totalBorrow.elastic * r = 0
        BY <1>1, <4>1 DEF all, AllShare, ToShare, r
      <4> QED
        BY <1>1, <4>2, SMT
    <3>2. NothingDue
      BY <1>1, <3>1 DEF NothingDue, SoundDebt
    <3>3. I = 0 /\ ff = 0
      BY <1>4, <3>2, InterestFacts DEF I
    <3>4. I * r = 0
      BY <1>1, <3>3, SMT
    <3> QED
      BY <1>1, <1>2, <1>5, <2>1, <2>2, <2>4, <3>3, <3>4 DEF SoundPool
  <2>5. CASE B # 0
    <3>1. B + ff # 0 /\ B + ff >= MinFraction /\ all + I * r # 0
      BY <1>1, <1>3, <1>4, <2>2, <2>3, <2>5
    <3> QED
      BY <1>1, <1>2, <1>5, <2>1, <3>1 DEF SoundPool
  <2> QED
    BY <2>4, <2>5
<1> QED
  BY <1>2, <1>4, <1>5, <1>6, <1>7 DEF r, I, F, B, full, all, ff, ToShare

-----------------------------------------------------------------------------
(* The interest rate stays below one of the three rates it is set to.      *)

RateBounded(rate) ==
    \E most \in {startingInterestPerSecond, minimumInterestPerSecond,
                 maximumInterestPerSecond} : rate <= most

LEMMA RateDecays ==
    ASSUME NEW rate \in Nat, RateBounded(rate), NEW u \in Nat,
           u < minimumTargetUtilization, NEW elapsed \in Nat
    PROVE  /\ RateBelowTarget(rate, u, elapsed) \in Nat
           /\ RateBounded(RateBelowTarget(rate, u, elapsed))
<1> DEFINE factor == ((minimumTargetUtilization - u) * UTILIZATION_PRECISION)
                        \div minimumTargetUtilization
           scale == interestElasticity + factor * factor * elapsed
           decayed == (rate * interestElasticity) \div scale
<1> USE SingularityAssumption
<1>1. factor \in Nat
  <2>1. minimumTargetUtilization - u \in Nat /\ minimumTargetUtilization \in Nat \ {0}
    OBVIOUS
  <2>2. (minimumTargetUtilization - u) * UTILIZATION_PRECISION \in Nat
    BY <2>1, SMT
  <2> QED
    BY <2>1, <2>2, DivFacts
<1> HIDE DEF factor
<1>2. scale \in Nat \ {0} /\ interestElasticity <= scale
  <2>1. factor * factor * elapsed \in Nat
    BY <1>1, SMT
  <2> QED
    BY <2>1
<1> HIDE DEF scale
<1>3. decayed \in Nat /\ decayed <= rate
  <2>1. rate * interestElasticity \in Nat /\ interestElasticity \in Nat
    BY SMT
  <2>2. decayed \in Nat /\ scale * decayed <= rate * interestElasticity
    BY <1>2, <2>1, DivFacts
  <2>3. interestElasticity * rate <= scale * rate
    BY <1>2, <2>1, ProductMonotone
  <2> HIDE DEF decayed
  <2>4. decayed * scale <= rate * scale
    BY <1>2, <2>1, <2>2, <2>3, SMT
  <2> QED
    BY <1>2, <2>2, <2>4, CancelProduct
<1> HIDE DEF decayed
<1>4. RateBelowTarget(rate, u, elapsed)
         = IF decayed < minimumInterestPerSecond THEN minimumInterestPerSecond ELSE decayed
  BY DEF RateBelowTarget, decayed, scale, factor
<1> QED
  BY <1>3, <1>4 DEF RateBounded

LEMMA RateGrows ==
    ASSUME NEW rate \in Nat, NEW u \in Nat, u > maximumTargetUtilization,
           NEW elapsed \in Nat
    PROVE  /\ RateAboveTarget(rate, u, elapsed) \in Nat
           /\ RateBounded(RateAboveTarget(rate, u, elapsed))
<1> DEFINE factor == ((u - maximumTargetUtilization) * UTILIZATION_PRECISION)
                        \div (UTILIZATION_PRECISION - maximumTargetUtilization)
           scale == interestElasticity + factor * factor * elapsed
           grown == (rate * scale) \div interestElasticity
<1> USE SingularityAssumption
<1>1. factor \in Nat
  <2>1. u - maximumTargetUtilization \in Nat
        /\ UTILIZATION_PRECISION - maximumTargetUtilization \in Nat \ {0}
    OBVIOUS
  <2>2. (u - maximumTargetUtilization) * UTILIZATION_PRECISION \in Nat
    BY <2>1, SMT
  <2> QED
    BY <2>1, <2>2, DivFacts
<1> HIDE DEF factor
<1>2. scale \in Nat
  <2>1. factor * factor * elapsed \in Nat
    BY <1>1, SMT
  <2> QED
    BY <2>1
<1> HIDE DEF scale
<1>3. grown \in Nat
  <2>1. rate * scale \in Nat
    BY <1>2, SMT
  <2> QED
    BY <2>1, DivFacts
<1> HIDE DEF grown
<1>4. RateAboveTarget(rate, u, elapsed) = Least(grown, maximumInterestPerSecond)
  BY DEF RateAboveTarget, grown, scale, factor
<1> QED
  BY <1>3, <1>4 DEF RateBounded, Least

(* What a handler that charges the interest does to the clock.             *)
Charging ==
    /\ AccruedBorrow.elastic <= MaxUint128
    /\ lastAccrued' = now
    /\ interestPerSecond' = AccruedRate

LEMMA ChargingTyped ==
    ASSUME IInv, Charging, UNCHANGED now
    PROVE  /\ now' \in 0..MaxTime /\ lastAccrued' \in 0..now'
           /\ interestPerSecond' \in Nat /\ RateBounded(interestPerSecond')
<1>1. /\ now \in 0..MaxTime /\ Elapsed \in Nat /\ interestPerSecond \in Nat
      /\ RateBounded(interestPerSecond) /\ MaxTime \in Nat
  BY SingularityAssumption DEF IInv, TypeOK, Elapsed, RateBounded
<1> DEFINE u == Utilization(AccruedAsset, AccruedBorrow)
<1>2. u \in Nat
  <2>1. FullAssetAmount(AccruedAsset, AccruedBorrow) \in Nat /\ AccruedBorrow.elastic \in Nat
    BY ChargedPool, InterestFacts, AllShareType DEF SoundPool, SoundDebt
  <2>2. AccruedBorrow.elastic * UTILIZATION_PRECISION \in Nat
    BY <2>1, SingularityAssumption, SMT
  <2> QED
    BY <2>1, <2>2, DivFacts DEF Utilization
<1> HIDE DEF u
<1>3. AccruedRate \in Nat /\ RateBounded(AccruedRate)
  <2>1. CASE Elapsed = 0
    BY <1>1, <2>1 DEF AccruedRate
  <2>2. CASE Elapsed # 0 /\ totalBorrow.base = 0
    BY <2>2, SingularityAssumption DEF AccruedRate, RateBounded
  <2>3. CASE Elapsed # 0 /\ totalBorrow.base # 0
    <3>1. AccruedRate = NextRate(interestPerSecond, u, Elapsed)
      BY <2>3 DEF AccruedRate, u
    <3>2. minimumTargetUtilization \in Nat /\ maximumTargetUtilization \in Nat
      BY SingularityAssumption
    <3> QED
      BY <1>1, <1>2, <3>1, <3>2, RateDecays, RateGrows DEF NextRate
  <2> QED
    BY <2>1, <2>2, <2>3
<1> QED
  BY <1>1, <1>3 DEF Charging

-----------------------------------------------------------------------------
(* What a handler does to a pool ta that has lent tb (both charged): the   *)
(* pool stays sound, backed and as good for its fractions, and where bal   *)
(* are the balances it starts from, their sum moves with the fractions.    *)
PoolEffect(ta, tb, bal) ==
    /\ SoundPool(totalAsset', totalBorrow')
    /\ NoLoss(AllShare(ta, tb), ta.base,
              AllShare(totalAsset', totalBorrow'), totalAsset'.base)
    /\ balanceOf' \in [Holders -> Nat]
    /\ SumFunction(balanceOf') = SumFunction(bal) + totalAsset'.base - ta.base
    /\ ybAsset' \in Nat /\ totalAsset'.elastic <= ybAsset'

LEMMA SamePool ==
    ASSUME IInv, NEW ta, NEW tb, SoundPool(ta, tb), ta.elastic <= ybAsset,
           totalAsset' = ta, totalBorrow' = tb, UNCHANGED <<balanceOf, ybAsset>>
    PROVE  PoolEffect(ta, tb, balanceOf)
<1>1. /\ ta \in [elastic : Nat, base : Nat] /\ SoundDebt(tb)
      /\ ta.base \in Nat
  BY DEF SoundPool
<1>2. AllShare(ta, tb) \in Nat
  BY <1>1, AllShareType
<1>3. NoLoss(AllShare(ta, tb), ta.base, AllShare(ta, tb), ta.base)
  <2>1. NewFractions(ta.base, ta.base) = 0
    BY <1>1 DEF NewFractions
  <2>2. AllShare(ta, tb) * ta.base \in Nat /\ 0 * (AssetShareRatio - 1) = 0
    BY <1>1, <1>2, SingularityAssumption, SMT
  <2> QED
    BY <2>1, <2>2 DEF NoLoss
<1>4. SumFunction(balanceOf) \in Nat
  BY StateFacts, SumBounds
<1> QED
  BY <1>1, <1>3, <1>4, StateFacts DEF PoolEffect

(* A withdrawal takes at most its part of the pool, and not all of it.     *)
LEMMA RemoveAssetPool ==
    ASSUME IInv, NEW ta, NEW tb, SoundPool(ta, tb), ta.elastic <= ybAsset,
           NEW bal \in [Holders -> Nat], NEW from \in Holders, NEW fraction \in Nat,
           RemoveAssetCore(ta, tb, bal, from, fraction), totalBorrow' = tb
    PROVE  PoolEffect(ta, tb, bal)
<1> DEFINE a == AllShare(ta, tb)
           b == ta.base
           share == (fraction * a) \div b
<1>1. /\ ta \in [elastic : Nat, base : Nat] /\ SoundDebt(tb) /\ b \in Nat
      /\ ta.elastic \in Nat /\ b = 0 <=> a = 0
  BY DEF SoundPool
<1>2. a \in Nat
  BY <1>1, AllShareType
<1>3. /\ SumFunction(bal) \in Nat /\ MinFraction \in Nat \ {0} /\ IsFiniteSet(Holders)
      /\ ybAsset \in Nat
  BY StateFacts, SumBounds, SingularityAssumption
<1>4. CASE b = 0 /\ totalAsset' = ta /\ balanceOf' = bal /\ UNCHANGED ybAsset
  <2>1. NewFractions(b, b) = 0 /\ a * b \in Nat /\ 0 * (AssetShareRatio - 1) = 0
    BY <1>1, <1>2, SingularityAssumption, SMT DEF NewFractions
  <2>2. NoLoss(a, b, a, b)
    BY <2>1 DEF NoLoss
  <2> QED
    BY <1>1, <1>3, <1>4, <2>2 DEF PoolEffect
<1>5. CASE /\ b # 0
           /\ EnoughFractions(b - fraction)
           /\ fraction <= bal[from]
           /\ share <= ta.elastic
           /\ share <= ybAsset
           /\ totalAsset' = [elastic |-> ta.elastic - share, base |-> b - fraction]
           /\ balanceOf' = [bal EXCEPT ![from] = @ - fraction]
           /\ ybAsset' = ybAsset - share
  <2>1. b \in Nat \ {0} /\ b - fraction \in Nat \ {0} /\ b - fraction >= MinFraction
    BY <1>1, <1>3, <1>5 DEF EnoughFractions
  <2>2. fraction * a \in Nat
    BY <1>2, SMT
  <2>3. share \in Nat /\ b * share <= fraction * a
    BY <2>1, <2>2, DivFacts
  <2>4. AllShare(totalAsset', totalBorrow') = a - share
    <3>1. totalAsset'.elastic = ta.elastic - share
      BY <1>5
    <3>2. tb.elastic * AssetShareRatio \in Nat
      BY <1>1, SingularityAssumption, SMT DEF SoundDebt
    <3>3. a = ta.elastic + tb.elastic * AssetShareRatio
      BY DEF AllShare, ToShare
    <3> HIDE DEF share, a
    <3> QED
      BY <1>1, <2>3, <3>1, <3>2, <3>3 DEF AllShare, ToShare
  <2> HIDE DEF share
  <2>5. a * (b - fraction) <= (a - share) * b
    <3> HIDE DEF a, b
    <3>1. /\ a * (b - fraction) = a * b - fraction * a
          /\ (a - share) * b = a * b - b * share
          /\ a * b \in Nat /\ b * share \in Nat
      BY <1>1, <1>2, <2>3, SMT
    <3> QED
      BY <2>2, <2>3, <3>1
  <2>6. a - share \in Nat \ {0}
    <3>1. a # 0 /\ share <= ta.elastic /\ ta.elastic <= a
      BY <1>1, <1>5, <2>1, AllShareType
    <3>2. a - share \in Nat
      BY <1>1, <1>2, <2>3, <3>1
    <3>3. a \in Nat \ {0}
      BY <1>2, <3>1
    <3> HIDE DEF a, b
    <3>4. a * (b - fraction) # 0 /\ a * (b - fraction) \in Nat
      BY <2>1, <3>3, SMT
    <3>5. a - share = 0 => (a - share) * b = 0
      BY <1>1, SMT
    <3> QED
      BY <2>5, <3>2, <3>4, <3>5
  <2>7. totalAsset' \in [elastic : Nat, base : Nat] /\ totalAsset'.base = b - fraction
        /\ totalAsset'.elastic = ta.elastic - share
    BY <1>1, <1>5, <2>1, <2>3
  <2>8. SoundPool(totalAsset', totalBorrow')
    BY <1>1, <2>1, <2>4, <2>6, <2>7 DEF SoundPool
  <2>9. NoLoss(a, b, AllShare(totalAsset', totalBorrow'), totalAsset'.base)
    <3>1. NewFractions(b, b - fraction) = 0
      BY <1>1, <2>1 DEF NewFractions
    <3>2. 0 * (AssetShareRatio - 1) = 0 /\ (a - share) * b \in Nat
      BY <1>1, <2>6, SingularityAssumption, SMT
    <3> QED
      BY <2>4, <2>5, <2>7, <3>1, <3>2 DEF NoLoss
  <2>10. bal[from] - fraction \in Nat
         /\ balanceOf' = [bal EXCEPT ![from] = bal[from] - fraction]
    BY <1>5
  <2>11. /\ balanceOf' \in [Holders -> Nat]
         /\ SumFunction(balanceOf') = SumFunction(bal) + (bal[from] - fraction) - bal[from]
    BY <1>3, <2>10, SumUpdate
  <2>12. SumFunction(balanceOf') = SumFunction(bal) + totalAsset'.base - b
    BY <1>1, <1>3, <2>7, <2>11
  <2>13. ybAsset' \in Nat /\ totalAsset'.elastic <= ybAsset'
    BY <1>1, <1>3, <1>5, <2>3, <2>7
  <2> QED
    BY <2>8, <2>9, <2>11, <2>12, <2>13 DEF PoolEffect
<1> QED
  BY <1>4, <1>5 DEF RemoveAssetCore

(* A repayment moves units of asset from the debt to the pool.             *)
LEMMA SettledPool ==
    ASSUME NEW ta, NEW tb, SoundPool(ta, tb), NEW amount \in Nat, NEW p \in Nat,
           amount <= tb.elastic, NEW owed,
           owed = [elastic |-> tb.elastic - amount, base |-> tb.base - p],
           SoundDebt(owed), NEW pool,
           pool = [ta EXCEPT !.elastic = @ + ToShare(AssetShareRatio, amount)]
    PROVE  /\ SoundPool(pool, owed)
           /\ pool.base = ta.base
           /\ pool.elastic = ta.elastic + ToShare(AssetShareRatio, amount)
           /\ ToShare(AssetShareRatio, amount) \in Nat
           /\ AllShare(pool, owed) = AllShare(ta, tb)
           /\ FullAssetAmount(pool, owed) = FullAssetAmount(ta, tb)
<1> DEFINE r == AssetShareRatio
           q == ta.elastic \div r
<1>1. /\ ta \in [elastic : Nat, base : Nat] /\ SoundDebt(tb)
      /\ ta.elastic \in Nat /\ tb.elastic \in Nat /\ r \in Nat \ {0}
  BY SingularityAssumption DEF SoundPool, SoundDebt
<1>2. amount * r \in Nat /\ tb.elastic * r \in Nat
      /\ (tb.elastic - amount) * r = tb.elastic * r - amount * r
  BY <1>1, SMT
<1>3. /\ pool.base = ta.base /\ pool.elastic = ta.elastic + amount * r
      /\ owed.elastic = tb.elastic - amount
      /\ pool \in [elastic : Nat, base : Nat]
  BY <1>1, <1>2 DEF ToShare
<1>4. AllShare(pool, owed) = AllShare(ta, tb)
  BY <1>1, <1>2, <1>3 DEF AllShare, ToShare
<1>5. (ta.elastic + amount * r) \div r = q + amount
  <2> DEFINE p2 == (ta.elastic + amount * r) \div r
  <2>1. q \in Nat /\ r * q <= ta.elastic /\ ta.elastic < r * q + r
    BY <1>1, DivFacts
  <2>2. /\ p2 \in Nat /\ r * p2 <= ta.elastic + amount * r
        /\ ta.elastic + amount * r < r * p2 + r
    <3>1. ta.elastic + amount * r \in Nat
      BY <1>1, <1>2
    <3> HIDE DEF r
    <3> QED
      BY <1>1, <3>1, DivFacts
  <2> HIDE DEF q, p2, r
  <2>3. p2 * r < (q + amount + 1) * r /\ (q + amount) * r < (p2 + 1) * r
    BY <1>1, <1>2, <2>1, <2>2, SMT
  <2>4. p2 < q + amount + 1 /\ q + amount < p2 + 1
    BY <1>1, <2>1, <2>2, <2>3, CancelProduct
  <2>5. p2 = q + amount
    BY <2>1, <2>2, <2>4
  <2> QED
    BY <2>5 DEF p2
<1>6. q \in Nat
  BY <1>1, DivFacts
<1>7. FullAssetAmount(pool, owed) = FullAssetAmount(ta, tb)
  BY <1>1, <1>3, <1>5, <1>6 DEF FullAssetAmount, ToAmount
<1> QED
  BY <1>2, <1>3, <1>4, <1>7 DEF SoundPool, ToShare

(* Fractions minted to Penrose for a fee of whole units, which the pool    *)
(* receives.                                                               *)
LEMMA MintFractions ==
    ASSUME IInv, NEW b \in Nat, NEW ff \in Nat, NEW h \in Holders,
           balanceOf' = [balanceOf EXCEPT ![h] = @ + ff],
           totalAsset'.base = b + ff
    PROVE  /\ balanceOf' \in [Holders -> Nat]
           /\ SumFunction(balanceOf') = SumFunction(balanceOf) + totalAsset'.base - b
<1>1. balanceOf[h] + ff \in Nat
  BY StateFacts
<1>2. SumFunction(balanceOf) \in Nat /\ balanceOf[h] \in Nat
  BY <1>1, StateFacts, SumBounds
<1>3. /\ balanceOf' \in [Holders -> Nat]
      /\ SumFunction(balanceOf')
            = SumFunction(balanceOf) + (balanceOf[h] + ff) - balanceOf[h]
  BY <1>1, StateFacts, SumUpdate
<1> QED
  BY <1>2, <1>3

LEMMA MintToPenrose ==
    ASSUME IInv, NEW b \in Nat, NEW ff \in Nat,
           balanceOf' = [balanceOf EXCEPT ![Penrose] = @ + ff],
           totalAsset'.base = b + ff
    PROVE  /\ balanceOf' \in [Holders -> Nat]
           /\ SumFunction(balanceOf') = SumFunction(balanceOf) + totalAsset'.base - b
<1>1. Penrose \in Holders
  BY DEF Holders
<1> QED
  BY <1>1, MintFractions

LEMMA BorrowPool ==
    ASSUME IInv, NEW ta, NEW tb, SoundPool(ta, tb), ta.elastic <= ybAsset,
           NEW u \in Borrowers, NEW amount \in Nat, BorrowCore(u, ta, tb, amount)
    PROVE  PoolEffect(ta, tb, balanceOf)
<1> DEFINE share == ToShare(AssetShareRatio, amount)
           fee == (amount * borrowOpeningFee) \div FEE_PRECISION
           owed == RebaseAddUp(tb, amount + fee)
           full == FullAssetAmount(ta, tb)
           ff == IF fee = 0 THEN 0 ELSE (fee * ta.base) \div full
           a == AllShare(ta, tb)
<1>1. /\ EnoughFractions(ta.base) /\ share <= ta.elastic /\ share <= ybAsset
      /\ totalBorrow' = owed
      /\ balanceOf' = [balanceOf EXCEPT ![Penrose] = @ + ff]
      /\ totalAsset' = [elastic |-> ta.elastic - share, base |-> ta.base + ff]
      /\ ybAsset' = ybAsset - share
  BY DEF BorrowCore
<1>2. /\ ta \in [elastic : Nat, base : Nat] /\ SoundDebt(tb)
      /\ ta.elastic \in Nat /\ ta.base \in Nat /\ tb.elastic \in Nat
      /\ ybAsset \in Nat /\ MinFraction \in Nat \ {0} /\ AssetShareRatio \in Nat \ {0}
      /\ ta.base >= MinFraction
  BY <1>1, StateFacts, SingularityAssumption DEF SoundPool, SoundDebt, EnoughFractions
<1>3. fee \in Nat
  <2>1. amount * borrowOpeningFee \in Nat
    BY SingularityAssumption, SMT
  <2> QED
    BY <2>1, PrecisionAssumption, DivFacts
<1> HIDE DEF fee
<1>4. share \in Nat /\ fee * AssetShareRatio \in Nat
      /\ (tb.elastic + (amount + fee)) * AssetShareRatio
            = tb.elastic * AssetShareRatio + share + fee * AssetShareRatio
      /\ tb.elastic * AssetShareRatio \in Nat
  BY <1>2, <1>3, SMT DEF ToShare
<1>5. owed.elastic = tb.elastic + (amount + fee) /\ SoundDebt(owed)
  BY <1>2, <1>3, AddKeepsSound DEF RebaseAddUp
<1>6. a \in Nat /\ full \in Nat
      /\ a <= AssetShareRatio * full + (AssetShareRatio - 1)
      /\ a = ta.elastic + tb.elastic * AssetShareRatio
      /\ a # 0
  BY <1>2, AllShareType DEF SoundPool, AllShare, ToShare
<1>7. ff \in Nat /\ ff * full <= fee * ta.base
  <2>1. fee * ta.base \in Nat
    BY <1>2, <1>3, SMT
  <2>2. CASE fee = 0
    BY <1>6, <2>1, <2>2, SMT
  <2>3. CASE fee # 0
    <3>1. full # 0
      <4>1. amount # 0
        <5>1. amount = 0 => fee = 0
          BY PrecisionAssumption, SingularityAssumption, SMT DEF fee
        <5> QED
          BY <2>3, <5>1
      <4>2. 1 * AssetShareRatio <= amount * AssetShareRatio
        BY <1>2, <4>1, ProductMonotone
      <4>3. AssetShareRatio <= share
        BY <1>2, <4>2 DEF ToShare
      <4> HIDE DEF share, full, a
      <4>4. AssetShareRatio <= a
        BY <1>1, <1>2, <1>4, <1>6, <4>3
      <4>5. full = 0 => AssetShareRatio * full = 0
        BY <1>2, SMT
      <4> QED
        BY <1>2, <1>6, <4>4, <4>5
    <3>2. ff = (fee * ta.base) \div full
      BY <2>3
    <3>3. ff \in Nat /\ full * ff <= fee * ta.base
      BY <1>6, <2>1, <3>1, <3>2, DivFacts
    <3> HIDE DEF ff, full
    <3> QED
      BY <1>6, <3>3, SMT
  <2> QED
    BY <2>2, <2>3
<1> HIDE DEF share, owed, full, ff, a
<1>8. /\ totalAsset'.elastic = ta.elastic - share /\ totalAsset'.base = ta.base + ff
      /\ totalAsset' \in [elastic : Nat, base : Nat]
  BY <1>1, <1>2, <1>4, <1>7
<1>9. AllShare(totalAsset', totalBorrow') = a + fee * AssetShareRatio
  <2>1. AllShare(totalAsset', totalBorrow')
          = (ta.elastic - share) + (tb.elastic + (amount + fee)) * AssetShareRatio
    BY <1>1, <1>5, <1>8 DEF AllShare, ToShare
  <2> QED
    BY <1>2, <1>4, <1>6, <2>1
<1>10. NoLoss(a, ta.base, AllShare(totalAsset', totalBorrow'), totalAsset'.base)
  <2>1. NoLoss(a, ta.base, a + fee * AssetShareRatio, ta.base + ff)
    BY <1>2, <1>3, <1>6, <1>7, FeeKeepsValue
  <2> QED
    BY <1>8, <1>9, <2>1
<1>11. SoundPool(totalAsset', totalBorrow')
  <2>1. ta.base + ff # 0 /\ ta.base + ff >= MinFraction /\ a + fee * AssetShareRatio # 0
    BY <1>2, <1>4, <1>6, <1>7
  <2> QED
    BY <1>1, <1>5, <1>8, <1>9, <2>1 DEF SoundPool
<1>12. ybAsset' \in Nat /\ totalAsset'.elastic <= ybAsset'
  BY <1>1, <1>2, <1>4, <1>8
<1> QED
  BY <1>1, <1>2, <1>7, <1>8, <1>10, <1>11, <1>12, MintToPenrose DEF PoolEffect, a

(* Repaying with tokens received for them, or with none to receive.        *)
LEMMA SettlementPool ==
    ASSUME IInv, NEW ta, NEW tb, SoundPool(ta, tb), NEW amount \in Nat, NEW p \in Nat,
           amount <= tb.elastic,
           totalBorrow' = [elastic |-> tb.elastic - amount, base |-> tb.base - p],
           SoundDebt(totalBorrow'),
           totalAsset' = [ta EXCEPT !.elastic = @ + ToShare(AssetShareRatio, amount)],
           UNCHANGED balanceOf,
           ybAsset' \in Nat, totalAsset'.elastic <= ybAsset'
    PROVE  PoolEffect(ta, tb, balanceOf)
<1>1. /\ SoundPool(totalAsset', totalBorrow') /\ totalAsset'.base = ta.base
      /\ AllShare(totalAsset', totalBorrow') = AllShare(ta, tb)
  BY SettledPool
<1>2. /\ ta.base \in Nat /\ AllShare(ta, tb) \in Nat /\ SumFunction(balanceOf) \in Nat
  BY StateFacts, AllShareType, SumBounds DEF SoundPool
<1>3. NoLoss(AllShare(ta, tb), ta.base, AllShare(ta, tb), ta.base)
  <2>1. NewFractions(ta.base, ta.base) = 0
    BY <1>2 DEF NewFractions
  <2>2. AllShare(ta, tb) * ta.base \in Nat /\ 0 * (AssetShareRatio - 1) = 0
    BY <1>2, SingularityAssumption, SMT
  <2> QED
    BY <2>1, <2>2 DEF NoLoss
<1> QED
  BY <1>1, <1>2, <1>3, StateFacts DEF PoolEffect

LEMMA ReceiveAssetBacks ==
    ASSUME IInv, NEW share \in Nat, NEW total \in Nat, NEW skim \in BOOLEAN,
           total <= ybAsset, ReceiveAsset(share, total, skim)
    PROVE  ybAsset' \in Nat /\ total + share <= ybAsset'
  BY StateFacts DEF ReceiveAsset

LEMMA RepayPool ==
    ASSUME IInv, NEW ta, NEW tb, SoundPool(ta, tb), ta.elastic <= ybAsset,
           NEW u \in Borrowers, NEW requested \in Nat, NEW skim \in BOOLEAN,
           RepayCore(u, ta, tb, requested, skim)
    PROVE  /\ PoolEffect(ta, tb, balanceOf)
           /\ NoDearer(totalBorrow', tb)
           /\ \E part \in Nat : /\ part <= userBorrowPart[u]
                                /\ userBorrowPart' = [userBorrowPart EXCEPT ![u] = part]
                                /\ totalBorrow'.base = tb.base + part - userBorrowPart[u]
           /\ totalBorrow' \in [elastic : Nat, base : Nat]
           /\ totalBorrow'.elastic <= tb.elastic /\ totalBorrow'.base <= tb.base
<1> DEFINE part == Least(requested, userBorrowPart[u])
           amount == ToElasticUp(tb, part)
           owed == RebaseSubUp(tb, part)
           share == ToShare(AssetShareRatio, amount)
<1>1. /\ NonNegative(owed) /\ ReceiveAsset(share, ta.elastic, skim)
      /\ totalBorrow' = owed
      /\ userBorrowPart' = [userBorrowPart EXCEPT ![u] = @ - part]
      /\ totalAsset' = [ta EXCEPT !.elastic = @ + share]
      /\ UNCHANGED balanceOf
  BY DEF RepayCore
<1>2. /\ userBorrowPart[u] \in Nat /\ SoundDebt(tb) /\ tb.elastic \in Nat /\ tb.base \in Nat
      /\ ta.elastic \in Nat /\ ta \in [elastic : Nat, base : Nat]
  BY StateFacts DEF SoundPool, SoundDebt
<1>3. part \in Nat /\ part <= userBorrowPart[u]
  BY <1>2 DEF Least
<1>4. part <= tb.base
  BY <1>1, <1>2, <1>3 DEF NonNegative, RebaseSubUp
<1>5. /\ amount \in Nat /\ amount <= tb.elastic
      /\ SoundDebt(owed) /\ NoDearer(owed, tb)
  BY <1>2, <1>3, <1>4, SubKeepsSound
<1>6. owed = [elastic |-> tb.elastic - amount, base |-> tb.base - part]
  BY DEF RebaseSubUp
<1> HIDE DEF part, amount, owed
<1>7. share \in Nat /\ totalAsset'.elastic = ta.elastic + share
  BY <1>1, <1>2, <1>5, SingularityAssumption, SMT DEF ToShare
<1>8. ybAsset' \in Nat /\ totalAsset'.elastic <= ybAsset'
  <2> HIDE DEF share
  <2> QED
    BY <1>1, <1>2, <1>7, ReceiveAssetBacks
<1>9. PoolEffect(ta, tb, balanceOf)
  BY <1>1, <1>3, <1>5, <1>6, <1>8, SettlementPool
<1>10. /\ totalBorrow'.elastic = tb.elastic - amount
       /\ totalBorrow'.base = tb.base - part
       /\ totalBorrow' \in [elastic : Nat, base : Nat]
  BY <1>1, <1>2, <1>3, <1>4, <1>5, <1>6
<1>11. /\ userBorrowPart[u] - part \in Nat
       /\ userBorrowPart[u] - part <= userBorrowPart[u]
       /\ userBorrowPart' = [userBorrowPart EXCEPT ![u] = userBorrowPart[u] - part]
       /\ totalBorrow'.base = tb.base + (userBorrowPart[u] - part) - userBorrowPart[u]
  BY <1>1, <1>2, <1>3, <1>10
<1>12. \E left \in Nat : /\ left <= userBorrowPart[u]
                         /\ userBorrowPart' = [userBorrowPart EXCEPT ![u] = left]
                         /\ totalBorrow'.base = tb.base + left - userBorrowPart[u]
  BY <1>11
<1>13. totalBorrow'.elastic <= tb.elastic /\ totalBorrow'.base <= tb.base
  BY <1>2, <1>3, <1>5, <1>10
<1> QED
  BY <1>1, <1>5, <1>9, <1>10, <1>12, <1>13

LEMMA NoLossMore ==
    ASSUME NEW a1 \in Nat, NEW b1 \in Nat, NEW a2 \in Nat, NEW b2 \in Nat,
           NEW more \in Nat, a2 <= more, NoLoss(a1, b1, a2, b2)
    PROVE  NoLoss(a1, b1, more, b2)
<1>1. a2 * b1 <= more * b1
  BY ProductMonotone
<1>2. /\ NewFractions(b1, b2) \in Nat /\ AssetShareRatio - 1 \in Nat
  BY SingularityAssumption DEF NewFractions
<1>3. /\ a1 * b2 \in Nat /\ a2 * b1 \in Nat /\ more * b1 \in Nat
      /\ NewFractions(b1, b2) * (AssetShareRatio - 1) \in Nat
  BY <1>2, SMT
<1> QED
  BY <1>1, <1>3 DEF NoLoss

(* A deposit buys at most the fractions it is worth.                       *)
LEMMA DepositPool ==
    ASSUME IInv, AccruedAsset.elastic <= ybAsset,
           NEW to \in Holders, NEW share \in Nat, NEW skim \in BOOLEAN,
           EnoughFractions(AccruedAsset.base + FractionFor(share)),
           totalBorrow' = AccruedBorrow,
           totalAsset' = [elastic |-> totalAsset.elastic + share,
                          base    |-> AccruedAsset.base + FractionFor(share)],
           balanceOf' = [balanceOf EXCEPT ![to] = @ + FractionFor(share)],
           ReceiveAsset(share, totalAsset.elastic, skim)
    PROVE  PoolEffect(AccruedAsset, AccruedBorrow, balanceOf)
<1> DEFINE a == AllShare(AccruedAsset, AccruedBorrow)
           b == AccruedAsset.base
           f == FractionFor(share)
<1>1. /\ AccruedAsset \in [elastic : Nat, base : Nat] /\ SoundDebt(AccruedBorrow)
      /\ totalAsset.elastic \in Nat /\ b \in Nat /\ AccruedBorrow.elastic \in Nat
      /\ AccruedAsset.elastic = totalAsset.elastic
      /\ MinFraction \in Nat \ {0} /\ AssetShareRatio \in Nat \ {0}
      /\ b = 0 <=> a = 0
  BY StateFacts, ChargedPool, SingularityAssumption DEF SoundPool, SoundDebt
<1>2. a \in Nat
  BY <1>1, AllShareType
<1>3. /\ f \in Nat /\ a * f <= share * b
      /\ a = 0 => f = share
  <2>1. CASE a = 0
    <3>1. f = share
      BY <2>1 DEF FractionFor
    <3>2. a * f = 0 /\ share * b \in Nat
      BY <1>1, <2>1, <3>1, SMT
    <3> QED
      BY <3>1, <3>2
  <2>2. CASE a # 0
    <3>1. f = (share * b) \div a
      BY <2>2 DEF FractionFor
    <3>2. share * b \in Nat
      BY <1>1, SMT
    <3> QED
      BY <1>2, <2>2, <3>1, <3>2, DivFacts
  <2> QED
    BY <2>1, <2>2
<1>4. AccruedBorrow.elastic * AssetShareRatio \in Nat
      /\ a = totalAsset.elastic + AccruedBorrow.elastic * AssetShareRatio
  BY <1>1, SMT DEF AllShare, ToShare
<1> HIDE DEF a, b, f
<1>5. /\ totalAsset'.elastic = totalAsset.elastic + share /\ totalAsset'.base = b + f
      /\ totalAsset' \in [elastic : Nat, base : Nat]
      /\ b + f >= MinFraction
  BY <1>1, <1>3 DEF f, b, EnoughFractions
<1>6. AllShare(totalAsset', totalBorrow') = a + share
  BY <1>1, <1>4, <1>5 DEF AllShare, ToShare
<1>7. NoLoss(a, b, a + share, b + f)
  <2>1. /\ a * (b + f) = a * b + a * f /\ (a + share) * b = a * b + share * b
        /\ a * b \in Nat /\ a * f \in Nat /\ share * b \in Nat
    BY <1>1, <1>2, <1>3, SMT
  <2>2. NewFractions(b, b + f) * (AssetShareRatio - 1) \in Nat
    <3>1. NewFractions(b, b + f) \in Nat /\ AssetShareRatio - 1 \in Nat
      BY <1>1, <1>3 DEF NewFractions
    <3> QED
      BY <3>1, SMT
  <2> QED
    BY <1>3, <2>1, <2>2 DEF NoLoss
<1>8. SoundPool(totalAsset', totalBorrow')
  <2>1. b + f # 0 /\ a + share # 0
    BY <1>1, <1>2, <1>3, <1>5
  <2> QED
    BY <1>1, <1>5, <1>6, <2>1 DEF SoundPool
<1>9. ybAsset' \in Nat /\ totalAsset'.elastic <= ybAsset'
  BY <1>1, <1>5, ReceiveAssetBacks
<1>10. balanceOf' = [balanceOf EXCEPT ![to] = @ + f]
  BY DEF f
<1>11. /\ balanceOf' \in [Holders -> Nat]
       /\ SumFunction(balanceOf') = SumFunction(balanceOf) + totalAsset'.base - b
  BY <1>1, <1>3, <1>5, <1>10, MintFractions
<1>13. NoLoss(a, b, AllShare(totalAsset', totalBorrow'), totalAsset'.base)
  BY <1>5, <1>6, <1>7
<1> QED
  BY <1>8, <1>9, <1>11, <1>13 DEF PoolEffect, a, b

(* A liquidation repays, and leaves its fee in the pool.                   *)
LEMMA LiquidationPool ==
    ASSUME IInv, NEW ta, NEW tb, SoundPool(ta, tb), ta.elastic <= ybAsset, tb.base # 0,
           NEW amount \in Nat, NEW p \in Nat, amount <= tb.elastic, NEW fee \in Nat,
           NEW owed, owed = [elastic |-> tb.elastic - amount, base |-> tb.base - p],
           SoundDebt(owed), totalBorrow' = owed,
           NEW pool,
           pool = [ta EXCEPT !.elastic = @ + ToShare(AssetShareRatio, amount)],
           NEW ff, ff = LiquidationFeeFraction(fee, pool, owed),
           totalAsset' = [elastic |-> pool.elastic + fee, base |-> pool.base + ff],
           balanceOf' = [balanceOf EXCEPT ![Penrose] = @ + ff],
           ybAsset' = ybAsset + ToShare(AssetShareRatio, amount) + fee
    PROVE  PoolEffect(ta, tb, balanceOf)
<1> DEFINE a == AllShare(ta, tb)
           full == FullAssetAmount(ta, tb)
           units == ToAmount(AssetShareRatio, fee)
<1>1. /\ SoundPool(pool, owed) /\ pool.base = ta.base
      /\ pool.elastic = ta.elastic + ToShare(AssetShareRatio, amount)
      /\ ToShare(AssetShareRatio, amount) \in Nat
      /\ AllShare(pool, owed) = a /\ FullAssetAmount(pool, owed) = full
  BY SettledPool
<1>2. /\ ta \in [elastic : Nat, base : Nat] /\ SoundDebt(tb)
      /\ ta.elastic \in Nat /\ ta.base \in Nat /\ tb.elastic \in Nat \ {0}
      /\ owed.elastic \in Nat /\ ybAsset \in Nat
      /\ MinFraction \in Nat \ {0} /\ AssetShareRatio \in Nat \ {0}
  BY StateFacts, SingularityAssumption DEF SoundPool, SoundDebt
<1>3. /\ a \in Nat /\ full \in Nat /\ a <= AssetShareRatio * full + (AssetShareRatio - 1)
  BY <1>2, AllShareType
<1>4. full \in Nat \ {0}
  <2>1. ToAmount(AssetShareRatio, ta.elastic) \in Nat
    BY <1>2, DivFacts DEF ToAmount
  <2> QED
    BY <1>2, <2>1 DEF FullAssetAmount
<1>5. a # 0 /\ ta.base # 0 /\ ta.base >= MinFraction
  <2>1. tb.elastic * AssetShareRatio \in Nat \ {0}
    BY <1>2, SMT
  <2> QED
    BY <1>2, <2>1 DEF SoundPool, AllShare, ToShare
<1>6. units \in Nat /\ units * AssetShareRatio <= fee
  BY <1>2, DivFacts, SMT DEF ToAmount
<1> HIDE DEF a, full, units
<1>7. ff \in Nat /\ ff * full <= units * ta.base
  <2>1. units * ta.base \in Nat
    BY <1>2, <1>6, SMT
  <2>2. CASE fee = 0
    <3>1. ff = 0 /\ 0 * full = 0
      BY <1>3, <2>2, SMT DEF LiquidationFeeFraction
    <3> QED
      BY <2>1, <3>1
  <2>3. CASE fee # 0
    <3>1. ff = (units * ta.base) \div full
      BY <1>1, <2>3 DEF LiquidationFeeFraction, units
    <3>2. ff \in Nat /\ full * ff <= units * ta.base
      BY <1>4, <2>1, <3>1, DivFacts
    <3>3. full * ff = ff * full
      BY <1>3, <3>2, SMT
    <3> QED
      BY <3>2, <3>3
  <2> QED
    BY <2>2, <2>3
<1>8. NoLoss(a, ta.base, a + fee, ta.base + ff)
  <2>1. NoLoss(a, ta.base, a + units * AssetShareRatio, ta.base + ff)
    BY <1>2, <1>3, <1>6, <1>7, FeeKeepsValue
  <2>2. units * AssetShareRatio \in Nat
    BY <1>2, <1>6, SMT
  <2>3. a + units * AssetShareRatio \in Nat /\ a + fee \in Nat /\ ta.base + ff \in Nat
        /\ a + units * AssetShareRatio <= a + fee
    BY <1>2, <1>3, <1>6, <1>7, <2>2
  <2> QED
    BY <1>2, <1>3, <2>1, <2>3, NoLossMore
<1>9. /\ totalAsset'.elastic = pool.elastic + fee /\ totalAsset'.base = ta.base + ff
      /\ totalAsset' \in [elastic : Nat, base : Nat]
  BY <1>1, <1>2, <1>7
<1>10. AllShare(totalAsset', totalBorrow') = a + fee
  <2>1. a = pool.elastic + owed.elastic * AssetShareRatio
    BY <1>1 DEF AllShare, ToShare
  <2>2. AllShare(totalAsset', totalBorrow')
          = (pool.elastic + fee) + owed.elastic * AssetShareRatio
    BY <1>9 DEF AllShare, ToShare
  <2>3. owed.elastic * AssetShareRatio \in Nat /\ pool.elastic \in Nat
    BY <1>1, <1>2, SMT
  <2> QED
    BY <2>1, <2>2, <2>3
<1>11. SoundPool(totalAsset', totalBorrow')
  <2>1. ta.base + ff # 0 /\ ta.base + ff >= MinFraction /\ a + fee # 0
    BY <1>2, <1>3, <1>5, <1>7
  <2> QED
    BY <1>9, <1>10, <2>1 DEF SoundPool
<1>12. ybAsset' \in Nat /\ totalAsset'.elastic <= ybAsset'
  BY <1>1, <1>2, <1>9
<1>13. NoLoss(a, ta.base, AllShare(totalAsset', totalBorrow'), totalAsset'.base)
  BY <1>8, <1>9, <1>10
<1> QED
  BY <1>2, <1>7, <1>9, <1>11, <1>12, <1>13, MintToPenrose DEF PoolEffect, a

-----------------------------------------------------------------------------
(* Positions: a step leaves them all alone, or moves that of one borrower  *)
(* and the debt with it, and then it takes no collateral and adds no debt, *)
(* or checks that the position is solvent, or closes it, or the position   *)
(* was insolvent when the step began.                                      *)

NoPositionMoves ==
    /\ UNCHANGED <<userBorrowPart, userCollateralShare, totalCollateralShare>>
    /\ totalBorrow'.base = totalBorrow.base

PositionMoves(u, part, coll) ==
    /\ userBorrowPart' = [userBorrowPart EXCEPT ![u] = part]
    /\ userCollateralShare' = [userCollateralShare EXCEPT ![u] = coll]
    /\ totalCollateralShare' = totalCollateralShare + coll - userCollateralShare[u]
    /\ totalBorrow'.base = totalBorrow.base + part - userBorrowPart[u]
    /\ \/ part <= userBorrowPart[u] /\ coll >= userCollateralShare[u]
       \/ SolventAfter(u)
       \/ part = 0
       \/ ~Solvent(collateralizationRate, u, AccruedBorrow, exchangeRate')

PositionEffect ==
    \/ NoPositionMoves
    \/ \E u \in Borrowers, part, coll \in Nat : PositionMoves(u, part, coll)

LEMMA PositionsKept ==
    ASSUME IInv, PositionEffect
    PROVE  /\ userBorrowPart' \in [Borrowers -> Nat]
           /\ userCollateralShare' \in [Borrowers -> Nat]
           /\ totalCollateralShare' \in Nat
           /\ SumFunction(userBorrowPart') = totalBorrow'.base
           /\ SumFunction(userCollateralShare') = totalCollateralShare'
<1>1. /\ SumFunction(userBorrowPart) = totalBorrow.base
      /\ SumFunction(userCollateralShare) = totalCollateralShare
  BY DEF IInv, HoldingsAddUp
<1>2. CASE NoPositionMoves
  BY <1>1, <1>2, StateFacts DEF NoPositionMoves
<1>3. ASSUME NEW u \in Borrowers, NEW part \in Nat, NEW coll \in Nat,
             PositionMoves(u, part, coll)
      PROVE  /\ userBorrowPart' \in [Borrowers -> Nat]
             /\ userCollateralShare' \in [Borrowers -> Nat]
             /\ totalCollateralShare' \in Nat
             /\ SumFunction(userBorrowPart') = totalBorrow'.base
             /\ SumFunction(userCollateralShare') = totalCollateralShare'
  <2>1. /\ userBorrowPart' \in [Borrowers -> Nat]
        /\ userCollateralShare' \in [Borrowers -> Nat]
    BY <1>3, StateFacts DEF PositionMoves
  <2>2. /\ SumFunction(userBorrowPart')
             = SumFunction(userBorrowPart) + part - userBorrowPart[u]
        /\ SumFunction(userCollateralShare')
             = SumFunction(userCollateralShare) + coll - userCollateralShare[u]
    BY <1>3, StateFacts, AccountsAssumption, SumUpdate DEF PositionMoves
  <2>3. /\ SumFunction(userBorrowPart') = totalBorrow'.base
        /\ SumFunction(userCollateralShare') = totalCollateralShare'
    BY <1>1, <1>3, <2>2 DEF PositionMoves
  <2>4. SumFunction(userCollateralShare') \in Nat
    BY <2>1, AccountsAssumption, SumBounds
  <2> QED
    BY <2>1, <2>3, <2>4
<1> QED
  BY <1>2, <1>3 DEF PositionEffect

LEMMA SameValue ==
    ASSUME NEW S, NEW f \in [S -> Nat], NEW u \in S
    PROVE  f = [f EXCEPT ![u] = f[u]]
  OBVIOUS

LEMMA CollateralMoves ==
    ASSUME IInv, NEW u \in Borrowers, NEW coll \in Nat,
           UNCHANGED userBorrowPart, totalBorrow'.base = totalBorrow.base,
           userCollateralShare' = [userCollateralShare EXCEPT ![u] = coll],
           totalCollateralShare' = totalCollateralShare + coll - userCollateralShare[u],
           coll >= userCollateralShare[u] \/ SolventAfter(u)
    PROVE  PositionEffect
<1> DEFINE part == userBorrowPart[u]
<1>1. part \in Nat /\ userBorrowPart' = [userBorrowPart EXCEPT ![u] = part]
  BY StateFacts, SameValue
<1>2. totalBorrow'.base = totalBorrow.base + part - userBorrowPart[u] /\ part <= userBorrowPart[u]
  BY <1>1, StateFacts
<1> HIDE DEF part
<1>3. PositionMoves(u, part, coll)
  BY <1>1, <1>2 DEF PositionMoves
<1> QED
  BY <1>1, <1>3 DEF PositionEffect

LEMMA DebtMoves ==
    ASSUME IInv, NEW u \in Borrowers, NEW part \in Nat,
           UNCHANGED <<userCollateralShare, totalCollateralShare>>,
           userBorrowPart' = [userBorrowPart EXCEPT ![u] = part],
           totalBorrow'.base = totalBorrow.base + part - userBorrowPart[u],
           part <= userBorrowPart[u] \/ SolventAfter(u)
    PROVE  PositionEffect
<1> DEFINE coll == userCollateralShare[u]
<1>1. coll \in Nat /\ userCollateralShare' = [userCollateralShare EXCEPT ![u] = coll]
      /\ coll >= userCollateralShare[u]
      /\ totalCollateralShare' = totalCollateralShare + coll - userCollateralShare[u]
  BY StateFacts, SameValue
<1> HIDE DEF coll
<1>2. PositionMoves(u, part, coll)
  BY <1>1 DEF PositionMoves
<1> QED
  BY <1>1, <1>2 DEF PositionEffect

-----------------------------------------------------------------------------
(* What holds of every step.                                               *)

(* FractionsNeverLoseValue, of one step.                                   *)
Charged == lastAccrued' # lastAccrued /\ pauseOptions \subseteq pauseOptions'
Earned == IF Charged THEN ToShare(AssetShareRatio, Interest - InterestFee) ELSE 0
BaseBefore == IF Charged THEN AccruedAsset.base ELSE totalAsset.base
KeepsValue ==
    (AllShare(totalAsset, totalBorrow) + Earned) * totalAsset'.base
       <= AllShare(totalAsset', totalBorrow') * totalAsset.base
            + (BaseBefore - totalAsset.base + NewFractions(BaseBefore, totalAsset'.base))
                * (AssetShareRatio - 1)

StepEffect ==
    /\ IInv'
    /\ NoDearer(totalBorrow', AccruedBorrow)
    /\ PositionEffect
    /\ KeepsValue

LEMMA UnchargedValue ==
    ASSUME IInv, ~Charged, totalAsset' \in [elastic : Nat, base : Nat],
           NoLoss(AllShare(totalAsset, totalBorrow), totalAsset.base,
                  AllShare(totalAsset', totalBorrow'), totalAsset'.base)
    PROVE  KeepsValue
<1>1. /\ totalAsset.base \in Nat /\ totalAsset'.base \in Nat
      /\ AllShare(totalAsset, totalBorrow) \in Nat
  BY StateFacts, AllShareType DEF SoundPool
<1>2. NewFractions(totalAsset.base, totalAsset'.base) \in Nat
  BY <1>1 DEF NewFractions
<1>3. /\ AllShare(totalAsset, totalBorrow) + 0 = AllShare(totalAsset, totalBorrow)
      /\ totalAsset.base - totalAsset.base + NewFractions(totalAsset.base, totalAsset'.base)
            = NewFractions(totalAsset.base, totalAsset'.base)
  BY <1>1, <1>2
<1> QED
  BY <1>3 DEF KeepsValue, Earned, BaseBefore, NoLoss

LEMMA ChargedValue ==
    ASSUME IInv, lastAccrued' = now, pauseOptions \subseteq pauseOptions',
           SoundPool(totalAsset', totalBorrow'),
           NoLoss(AllShare(AccruedAsset, AccruedBorrow), AccruedAsset.base,
                  AllShare(totalAsset', totalBorrow'), totalAsset'.base)
    PROVE  KeepsValue
<1>1. CASE ~Charged
  <2>1. lastAccrued' = lastAccrued
    BY <1>1 DEF Charged
  <2>2. NothingDue
    <3>1. now \in Nat /\ now = lastAccrued
      BY <2>1, SingularityAssumption DEF IInv, TypeOK
    <3> QED
      BY <3>1 DEF NothingDue, Elapsed
  <2>3. AccruedAsset = totalAsset /\ AccruedBorrow = totalBorrow
    <3>1. /\ totalAsset.base + 0 = totalAsset.base /\ totalBorrow.elastic + 0 = totalBorrow.elastic
          /\ totalAsset = [elastic |-> totalAsset.elastic, base |-> totalAsset.base]
          /\ totalBorrow = [elastic |-> totalBorrow.elastic, base |-> totalBorrow.base]
      BY StateFacts DEF IInv, TypeOK
    <3>2. Interest = 0 /\ InterestFeeFraction = 0
      BY <2>2, InterestFacts, ChargedPool
    <3> QED
      BY <3>1, <3>2 DEF AccruedAsset, AccruedBorrow
  <2> QED
    BY <1>1, <2>3, UnchargedValue DEF SoundPool
<1>2. CASE Charged
  <2> DEFINE x == AllShare(totalAsset, totalBorrow)
                     + ToShare(AssetShareRatio, Interest - InterestFee)
             b0 == totalAsset.base
             a1 == AllShare(AccruedAsset, AccruedBorrow)
             ff == InterestFeeFraction
             a2 == AllShare(totalAsset', totalBorrow')
             b2 == totalAsset'.base
  <2>1. /\ b0 \in Nat /\ ff \in Nat /\ b2 \in Nat /\ AccruedAsset.base = b0 + ff
        /\ a1 \in Nat /\ a2 \in Nat
    BY StateFacts, ChargedPool, AllShareType DEF SoundPool
  <2>2. x \in Nat
    <3>1. /\ Interest - InterestFee \in Nat /\ AssetShareRatio \in Nat
          /\ AllShare(totalAsset, totalBorrow) \in Nat
      BY StateFacts, InterestFacts, AllShareType, SingularityAssumption DEF SoundPool
    <3>2. (Interest - InterestFee) * AssetShareRatio \in Nat
      BY <3>1, SMT
    <3> QED
      BY <3>1, <3>2 DEF ToShare
  <2>3. b0 = 0 => x = 0
    <3>1. SUFFICES ASSUME b0 = 0 PROVE x = 0
      OBVIOUS
    <3>2. AllShare(totalAsset, totalBorrow) = 0
      BY <3>1, StateFacts DEF SoundPool
    <3>3. totalBorrow.elastic = 0
      <4>1. totalBorrow.elastic \in Nat /\ AssetShareRatio \in Nat \ {0}
            /\ totalAsset.elastic \in Nat
        BY StateFacts, SingularityAssumption
      <4>2. totalBorrow.elastic * AssetShareRatio \in Nat
        BY <4>1, SMT
      <4>3. totalBorrow.elastic * AssetShareRatio = 0
        BY <3>2, <4>1, <4>2 DEF AllShare, ToShare
      <4> QED
        BY <4>1, <4>3, SMT
    <3>4. NothingDue
      BY <3>3, StateFacts DEF SoundDebt, NothingDue
    <3>5. Interest - InterestFee = 0
      BY <3>4, InterestFacts
    <3>6. 0 * AssetShareRatio = 0
      BY SingularityAssumption, SMT
    <3> QED
      BY <3>2, <3>5, <3>6 DEF ToShare
  <2>4. NoLoss(x, b0, a1, b0 + ff) /\ NoLoss(a1, b0 + ff, a2, b2)
    BY <2>1, ChargedPool
  <2> HIDE DEF x, b0, a1, ff, a2, b2
  <2>5. x * (b0 + ff) <= a1 * b0 + ff * (AssetShareRatio - 1)
    <3>1. NewFractions(b0, b0 + ff) = ff
      BY <2>1 DEF NewFractions
    <3> QED
      BY <2>4, <3>1 DEF NoLoss
  <2>6. x * b2 <= a2 * b0 + (ff + NewFractions(b0 + ff, b2)) * (AssetShareRatio - 1)
    BY <2>1, <2>2, <2>3, <2>4, <2>5, NoLossTwice
  <2>7. BaseBefore = b0 + ff /\ BaseBefore - b0 = ff
    BY <1>2, <2>1 DEF BaseBefore
  <2> QED
    BY <1>2, <2>6, <2>7 DEF KeepsValue, Earned, x, b0, a2, b2
<1> QED
  BY <1>1, <1>2

(* A step that charges the interest and then works on the charged pool.    *)
LEMMA ChargedStep ==
    ASSUME IInv, Charging, UNCHANGED now, exchangeRate' \in Rates,
           ybCollateral' \in Nat, feesEarnedFraction' \in Nat,
           pauseOptions \subseteq pauseOptions', pauseOptions' \subseteq PauseType,
           NEW bal \in [Holders -> Nat],
           SumFunction(bal) + feesEarnedFraction' = AccruedAsset.base,
           PoolEffect(AccruedAsset, AccruedBorrow, bal),
           totalBorrow' \in [elastic : 0..MaxUint128, base : 0..MaxUint128],
           NoDearer(totalBorrow', AccruedBorrow), PositionEffect
    PROVE  StepEffect
<1>1. /\ totalAsset' \in [elastic : Nat, base : Nat] /\ SoundDebt(totalBorrow')
  BY DEF PoolEffect, SoundPool
<1>3. /\ userBorrowPart' \in [Borrowers -> Nat]
      /\ userCollateralShare' \in [Borrowers -> Nat]
      /\ totalCollateralShare' \in Nat
      /\ SumFunction(userBorrowPart') = totalBorrow'.base
      /\ SumFunction(userCollateralShare') = totalCollateralShare'
  BY PositionsKept
<1>4. TypeOK'
  BY <1>1, <1>3, ChargingTyped DEF TypeOK, RateBounded, PoolEffect
<1>5. PoolShape' /\ AssetBacked'
  BY DEF PoolEffect, SoundPool, PoolShape, AssetBacked
<1>6. SumFunction(balanceOf') + feesEarnedFraction' = totalAsset'.base
  <2>1. SumFunction(bal) \in Nat /\ AccruedAsset.base \in Nat /\ totalAsset'.base \in Nat
    BY <1>1, StateFacts, ChargedPool, SumBounds DEF SoundPool
  <2>2. SumFunction(balanceOf')
           = SumFunction(bal) + totalAsset'.base - AccruedAsset.base
    BY DEF PoolEffect
  <2> QED
    BY <2>1, <2>2
<1>7. HoldingsAddUp'
  BY <1>3, <1>6 DEF HoldingsAddUp
<1>8. KeepsValue
  BY ChargedValue DEF PoolEffect, Charging
<1> QED
  BY <1>1, <1>4, <1>5, <1>7, <1>8 DEF StepEffect, IInv

(* The handlers that call _accrue.                                         *)
LEMMA HandlerStep ==
    ASSUME IInv, ChargeInterest, UNCHANGED now, exchangeRate' \in Rates,
           ybCollateral' \in Nat,
           pauseOptions \subseteq pauseOptions', pauseOptions' \subseteq PauseType,
           PoolEffect(AccruedAsset, AccruedBorrow, balanceOf),
           totalBorrow' \in [elastic : 0..MaxUint128, base : 0..MaxUint128],
           NoDearer(totalBorrow', AccruedBorrow), PositionEffect
    PROVE  StepEffect
<1>1. Charging /\ feesEarnedFraction' = feesEarnedFraction + InterestFeeFraction
  BY DEF ChargeInterest, Charging
<1>2. feesEarnedFraction' \in Nat
  BY <1>1, StateFacts, ChargedPool
<1>3. SumFunction(balanceOf) + feesEarnedFraction' = AccruedAsset.base
  <2>1. /\ SumFunction(balanceOf) + feesEarnedFraction = totalAsset.base
        /\ SumFunction(balanceOf) \in Nat /\ feesEarnedFraction \in Nat
        /\ InterestFeeFraction \in Nat
        /\ AccruedAsset.base = totalAsset.base + InterestFeeFraction
    BY StateFacts, ChargedPool, SumBounds DEF IInv, HoldingsAddUp
  <2> QED
    BY <1>1, <2>1
<1> QED
  BY <1>1, <1>2, <1>3, StateFacts, ChargedStep

(* What is the same in every step of the market at work.                   *)
LEMMA AccruedFacts ==
    ASSUME IInv, ChargeInterest
    PROVE  /\ SoundPool(AccruedAsset, AccruedBorrow)
           /\ AccruedAsset.elastic <= ybAsset
           /\ SoundDebt(AccruedBorrow)
           /\ AccruedBorrow \in [elastic : 0..MaxUint128, base : 0..MaxUint128]
           /\ AccruedBorrow.base = totalBorrow.base
           /\ NoDearer(AccruedBorrow, AccruedBorrow)
           /\ exchangeRate \in Rates /\ pauseOptions \subseteq PauseType
<1>1. AccruedBorrow.elastic \in 0..MaxUint128
  BY InterestFacts, SingularityAssumption DEF SoundDebt, ChargeInterest
<1>2. AccruedBorrow \in [elastic : 0..MaxUint128, base : 0..MaxUint128]
  BY <1>1, StateFacts, InterestFacts DEF AccruedBorrow
<1> QED
  BY <1>2, StateFacts, ChargedPool, InterestFacts, SingularityAssumption DEF IInv, TypeOK

(* Steps that charge the interest and leave the pool alone.                *)
LEMMA OnlyCharges ==
    ASSUME IInv, ChargeInterest, totalBorrow' = AccruedBorrow,
           totalAsset' = AccruedAsset, UNCHANGED <<now, balanceOf, ybAsset>>,
           exchangeRate' \in Rates, ybCollateral' \in Nat,
           pauseOptions \subseteq pauseOptions', pauseOptions' \subseteq PauseType,
           PositionEffect
    PROVE  StepEffect
<1>1. PoolEffect(AccruedAsset, AccruedBorrow, balanceOf)
  BY AccruedFacts, SamePool
<1>2. /\ totalBorrow' \in [elastic : 0..MaxUint128, base : 0..MaxUint128]
      /\ NoDearer(totalBorrow', AccruedBorrow)
  BY AccruedFacts
<1> QED
  BY <1>1, <1>2, HandlerStep

(* Steps that charge nothing and leave the debt alone.                     *)
LEMMA QuietStep ==
    ASSUME IInv, ~Charged, UNCHANGED <<totalBorrow, feesEarnedFraction>>,
           now' \in 0..MaxTime, lastAccrued' \in 0..now', UNCHANGED interestPerSecond,
           exchangeRate' \in Rates, ybCollateral' \in Nat, pauseOptions' \subseteq PauseType,
           PoolEffect(totalAsset, totalBorrow, balanceOf), PositionEffect
    PROVE  StepEffect
<1>1. totalAsset' \in [elastic : Nat, base : Nat] /\ SoundDebt(totalBorrow')
  BY DEF PoolEffect, SoundPool
<1>2. /\ userBorrowPart' \in [Borrowers -> Nat]
      /\ userCollateralShare' \in [Borrowers -> Nat]
      /\ totalCollateralShare' \in Nat
      /\ SumFunction(userBorrowPart') = totalBorrow'.base
      /\ SumFunction(userCollateralShare') = totalCollateralShare'
  BY PositionsKept
<1>3. TypeOK'
  BY <1>1, <1>2 DEF IInv, TypeOK, PoolEffect
<1>4. PoolShape' /\ AssetBacked'
  BY DEF PoolEffect, SoundPool, PoolShape, AssetBacked
<1>5. SumFunction(balanceOf') + feesEarnedFraction' = totalAsset'.base
  <2>1. SumFunction(balanceOf) \in Nat /\ totalAsset.base \in Nat /\ totalAsset'.base \in Nat
    BY <1>1, StateFacts, SumBounds
  <2>2. /\ SumFunction(balanceOf')
             = SumFunction(balanceOf) + totalAsset'.base - totalAsset.base
        /\ SumFunction(balanceOf) + feesEarnedFraction = totalAsset.base
        /\ feesEarnedFraction \in Nat
    BY StateFacts DEF PoolEffect, IInv, HoldingsAddUp
  <2> QED
    BY <2>1, <2>2
<1>6. HoldingsAddUp'
  BY <1>2, <1>5 DEF HoldingsAddUp
<1>7. KeepsValue
  BY <1>1, UnchargedValue DEF PoolEffect
<1>8. NoDearer(totalBorrow', AccruedBorrow)
  BY InterestFacts
<1> QED
  BY <1>1, <1>3, <1>4, <1>6, <1>7, <1>8 DEF StepEffect, IInv

-----------------------------------------------------------------------------
(* The lenders' operations.                                                *)

LEMMA AccrueEffect ==
    ASSUME IInv, Accrue
    PROVE  StepEffect
<1>1. PositionEffect
  BY AccruedFacts DEF Accrue, collateralVars, PositionEffect, NoPositionMoves
<1>2. exchangeRate' \in Rates /\ ybCollateral' \in Nat
  BY AccruedFacts, StateFacts DEF Accrue, collateralVars
<1> QED
  BY <1>1, <1>2, AccruedFacts, OnlyCharges DEF Accrue

LEMMA AddAssetEffect ==
    ASSUME IInv, NEW to \in Holders, NEW share \in Nat, NEW skim \in BOOLEAN,
           AddAsset(to, share, skim)
    PROVE  StepEffect
<1>1. /\ ChargeInterest /\ totalBorrow' = AccruedBorrow
      /\ UNCHANGED <<now, exchangeRate, userBorrowPart, collateralVars, pauseOptions>>
  BY DEF AddAsset
<1>2. PositionEffect
  BY <1>1, AccruedFacts DEF collateralVars, PositionEffect, NoPositionMoves
<1>3. exchangeRate' \in Rates /\ ybCollateral' \in Nat
      /\ pauseOptions \subseteq pauseOptions' /\ pauseOptions' \subseteq PauseType
  BY <1>1, AccruedFacts, StateFacts DEF collateralVars
<1>4. CASE totalAsset' = AccruedAsset /\ UNCHANGED <<balanceOf, ybAsset>>
  BY <1>1, <1>2, <1>3, <1>4, OnlyCharges
<1>5. CASE /\ EnoughFractions(AccruedAsset.base + FractionFor(share))
           /\ totalAsset' = [elastic |-> totalAsset.elastic + share,
                             base    |-> AccruedAsset.base + FractionFor(share)]
           /\ balanceOf' = [balanceOf EXCEPT ![to] = @ + FractionFor(share)]
           /\ ReceiveAsset(share, totalAsset.elastic, skim)
  <2>1. AccruedAsset.elastic <= ybAsset
    BY <1>1, AccruedFacts
  <2>2. PoolEffect(AccruedAsset, AccruedBorrow, balanceOf)
    BY <1>1, <1>5, <2>1, DepositPool
  <2>3. /\ totalBorrow' \in [elastic : 0..MaxUint128, base : 0..MaxUint128]
        /\ NoDearer(totalBorrow', AccruedBorrow)
    BY <1>1, AccruedFacts
  <2> QED
    BY <1>1, <1>2, <1>3, <2>2, <2>3, HandlerStep
<1> QED
  BY <1>4, <1>5 DEF AddAsset

LEMMA RemoveAssetEffect ==
    ASSUME IInv, NEW from \in Holders, NEW fraction \in Nat, RemoveAsset(from, fraction)
    PROVE  StepEffect
<1>1. /\ ChargeInterest /\ totalBorrow' = AccruedBorrow
      /\ RemoveAssetCore(AccruedAsset, AccruedBorrow, balanceOf, from, fraction)
      /\ UNCHANGED <<now, exchangeRate, userBorrowPart, collateralVars, pauseOptions>>
  BY DEF RemoveAsset
<1>2. PositionEffect
  BY <1>1, AccruedFacts DEF collateralVars, PositionEffect, NoPositionMoves
<1>3. exchangeRate' \in Rates /\ ybCollateral' \in Nat
      /\ pauseOptions \subseteq pauseOptions' /\ pauseOptions' \subseteq PauseType
  BY <1>1, AccruedFacts, StateFacts DEF collateralVars
<1>4. PoolEffect(AccruedAsset, AccruedBorrow, balanceOf)
  BY <1>1, AccruedFacts, StateFacts, RemoveAssetPool
<1>5. /\ totalBorrow' \in [elastic : 0..MaxUint128, base : 0..MaxUint128]
      /\ NoDearer(totalBorrow', AccruedBorrow)
  BY <1>1, AccruedFacts
<1> QED
  BY <1>1, <1>2, <1>3, <1>4, <1>5, HandlerStep

(* Steps that touch neither the pool nor the debt.                         *)
LEMMA PoolUntouched ==
    ASSUME IInv, UNCHANGED <<totalAsset, totalBorrow>>,
           balanceOf' \in [Holders -> Nat],
           SumFunction(balanceOf') = SumFunction(balanceOf),
           ybAsset' \in Nat, ybAsset <= ybAsset'
    PROVE  PoolEffect(totalAsset, totalBorrow, balanceOf)
<1>1. AllShare(totalAsset, totalBorrow) \in Nat /\ totalAsset.base \in Nat
  BY StateFacts, AllShareType DEF SoundPool
<1>2. NoLoss(AllShare(totalAsset, totalBorrow), totalAsset.base,
             AllShare(totalAsset', totalBorrow'), totalAsset'.base)
  <2>1. NewFractions(totalAsset.base, totalAsset.base) = 0
    BY <1>1 DEF NewFractions
  <2>2. /\ AllShare(totalAsset, totalBorrow) * totalAsset.base \in Nat
        /\ 0 * (AssetShareRatio - 1) = 0
    BY <1>1, SingularityAssumption, SMT
  <2>3. NoLoss(AllShare(totalAsset, totalBorrow), totalAsset.base,
               AllShare(totalAsset, totalBorrow), totalAsset.base)
    BY <2>1, <2>2 DEF NoLoss
  <2> QED
    BY <2>3
<1>3. SumFunction(balanceOf) \in Nat
  BY StateFacts, SumBounds
<1>4. SoundPool(totalAsset', totalBorrow')
  BY StateFacts
<1> QED
  BY <1>1, <1>2, <1>3, <1>4, StateFacts DEF PoolEffect

LEMMA TransferFractionEffect ==
    ASSUME IInv, NEW from \in Holders, NEW to \in Holders, NEW amount \in Nat,
           TransferFraction(from, to, amount)
    PROVE  StepEffect
<1> DEFINE less == balanceOf[from] - amount
           more == balanceOf[to] + amount
           paid == [balanceOf EXCEPT ![from] = less]
<1>1. /\ from # to /\ amount <= balanceOf[from]
      /\ balanceOf' = [paid EXCEPT ![to] = more]
      /\ paid[to] = balanceOf[to]
      /\ UNCHANGED <<now, accrueVars, exchangeRate, totalAsset, ybAsset, debtVars,
                     collateralVars, pauseOptions>>
  BY StateFacts DEF TransferFraction
<1>2. /\ balanceOf \in [Holders -> Nat] /\ balanceOf[from] \in Nat /\ balanceOf[to] \in Nat
      /\ IsFiniteSet(Holders)
  BY StateFacts
<1>3. less \in Nat /\ more \in Nat
  BY <1>1, <1>2
<1>4. paid \in [Holders -> Nat]
  BY <1>2, <1>3
<1>5. /\ less = balanceOf[from] - amount /\ more = balanceOf[to] + amount
  OBVIOUS
<1> HIDE DEF less, more
<1>6. SumFunction(paid) = SumFunction(balanceOf) + less - balanceOf[from]
  BY <1>2, <1>3, SumUpdate
<1> HIDE DEF paid
<1>7. /\ balanceOf' \in [Holders -> Nat]
      /\ SumFunction(balanceOf') = SumFunction(paid) + more - paid[to]
  BY <1>1, <1>2, <1>3, <1>4, SumUpdate
<1>8. SumFunction(balanceOf') = SumFunction(balanceOf)
  <2>1. SumFunction(balanceOf) \in Nat
    BY <1>2, SumBounds
  <2> QED
    BY <1>1, <1>2, <1>5, <1>6, <1>7, <2>1
<1>9. PoolEffect(totalAsset, totalBorrow, balanceOf)
  BY <1>1, <1>7, <1>8, StateFacts, PoolUntouched DEF debtVars
<1>10. PositionEffect
  BY <1>1 DEF debtVars, collateralVars, PositionEffect, NoPositionMoves
<1>11. /\ ~Charged /\ UNCHANGED <<totalBorrow, feesEarnedFraction, interestPerSecond>>
       /\ now' \in 0..MaxTime /\ lastAccrued' \in 0..now' /\ exchangeRate' \in Rates
       /\ ybCollateral' \in Nat /\ pauseOptions' \subseteq PauseType
  BY <1>1 DEF Charged, accrueVars, debtVars, collateralVars, IInv, TypeOK
<1> QED
  BY <1>9, <1>10, <1>11, QuietStep

LEMMA TransferToMarketEffect ==
    ASSUME IInv, NEW assetShare \in Nat, NEW collateralShare \in Nat,
           TransferToMarket(assetShare, collateralShare)
    PROVE  StepEffect
<1>1. /\ ybAsset' = ybAsset + assetShare /\ ybCollateral' = ybCollateral + collateralShare
      /\ UNCHANGED <<now, accrueVars, exchangeRate, totalAsset, balanceOf, debtVars,
                     userCollateralShare, totalCollateralShare, pauseOptions>>
  BY DEF TransferToMarket
<1>2. ybAsset' \in Nat /\ ybAsset <= ybAsset' /\ ybCollateral' \in Nat
  BY <1>1, StateFacts
<1>3. PoolEffect(totalAsset, totalBorrow, balanceOf)
  BY <1>1, <1>2, StateFacts, PoolUntouched DEF debtVars
<1>4. PositionEffect
  BY <1>1 DEF debtVars, PositionEffect, NoPositionMoves
<1>5. /\ ~Charged /\ UNCHANGED <<totalBorrow, feesEarnedFraction, interestPerSecond>>
      /\ now' \in 0..MaxTime /\ lastAccrued' \in 0..now' /\ exchangeRate' \in Rates
      /\ pauseOptions' \subseteq PauseType
  BY <1>1 DEF Charged, accrueVars, debtVars, IInv, TypeOK
<1> QED
  BY <1>2, <1>3, <1>4, <1>5, QuietStep

(* Steps that change nothing of the pool.                                  *)
LEMMA IdleStep ==
    ASSUME IInv, UNCHANGED <<accrueVars, assetVars, debtVars>>,
           now' \in 0..MaxTime, lastAccrued' \in 0..now', exchangeRate' \in Rates,
           ybCollateral' \in Nat, UNCHANGED pauseOptions, PositionEffect
    PROVE  StepEffect
<1>1. PoolEffect(totalAsset, totalBorrow, balanceOf)
  BY StateFacts, PoolUntouched DEF assetVars, debtVars
<1>2. /\ ~Charged /\ UNCHANGED <<totalBorrow, feesEarnedFraction, interestPerSecond>>
      /\ pauseOptions' \subseteq PauseType
  BY DEF Charged, accrueVars, debtVars, IInv, TypeOK
<1> QED
  BY <1>1, <1>2, QuietStep

LEMMA ClockFacts ==
    ASSUME IInv
    PROVE  now \in 0..MaxTime /\ lastAccrued \in 0..now /\ lastAccrued \in 0..(now + 1)
  BY SingularityAssumption DEF IInv, TypeOK

LEMMA TickEffect ==
    ASSUME IInv, Tick
    PROVE  StepEffect
<1>1. now' \in 0..MaxTime /\ lastAccrued' \in 0..now'
  BY ClockFacts, SingularityAssumption DEF Tick, accrueVars
<1>2. PositionEffect
  BY DEF Tick, debtVars, collateralVars, PositionEffect, NoPositionMoves
<1>3. exchangeRate' \in Rates /\ ybCollateral' \in Nat
  BY DEF Tick, collateralVars, IInv, TypeOK
<1> QED
  BY <1>1, <1>2, <1>3, IdleStep DEF Tick

-----------------------------------------------------------------------------
(* The borrowers' operations.                                              *)

LEMMA UpdateExchangeRateEffect ==
    ASSUME IInv, NEW rate \in Rates, UpdateExchangeRate(rate)
    PROVE  StepEffect
<1>1. PositionEffect
  BY DEF UpdateExchangeRate, debtVars, collateralVars, PositionEffect, NoPositionMoves
<1>2. /\ exchangeRate' \in Rates /\ ybCollateral' \in Nat
      /\ now' \in 0..MaxTime /\ lastAccrued' \in 0..now'
  BY ClockFacts, StateFacts DEF UpdateExchangeRate, collateralVars, accrueVars
<1> QED
  BY <1>1, <1>2, IdleStep DEF UpdateExchangeRate

LEMMA AddCollateralEffect ==
    ASSUME IInv, NEW to \in Borrowers, NEW share \in Nat, NEW skim \in BOOLEAN,
           AddCollateral(to, share, skim)
    PROVE  StepEffect
<1> DEFINE coll == userCollateralShare[to] + share
<1>1. /\ userCollateralShare' = [userCollateralShare EXCEPT ![to] = coll]
      /\ totalCollateralShare' = totalCollateralShare + share
      /\ UNCHANGED <<now, accrueVars, exchangeRate, assetVars, debtVars, pauseOptions>>
  BY DEF AddCollateral
<1>2. /\ userCollateralShare[to] \in Nat /\ coll \in Nat /\ coll >= userCollateralShare[to]
      /\ totalCollateralShare' = totalCollateralShare + coll - userCollateralShare[to]
  BY <1>1, StateFacts
<1>3. ybCollateral' \in Nat
  BY StateFacts DEF AddCollateral
<1> HIDE DEF coll
<1>4. PositionEffect
  BY <1>1, <1>2, CollateralMoves DEF debtVars
<1>5. /\ exchangeRate' \in Rates /\ now' \in 0..MaxTime /\ lastAccrued' \in 0..now'
  BY <1>1, ClockFacts DEF accrueVars, IInv, TypeOK
<1> QED
  BY <1>1, <1>3, <1>4, <1>5, IdleStep

LEMMA TakenCollateral ==
    ASSUME IInv, NEW u \in Borrowers, NEW share \in Nat, RemoveCollateralCore(u, share)
    PROVE  /\ userCollateralShare[u] - share \in Nat
           /\ userCollateralShare' =
                 [userCollateralShare EXCEPT ![u] = userCollateralShare[u] - share]
           /\ totalCollateralShare' = totalCollateralShare
                 + (userCollateralShare[u] - share) - userCollateralShare[u]
           /\ ybCollateral' \in Nat
  BY StateFacts DEF RemoveCollateralCore

LEMMA RemoveCollateralEffect ==
    ASSUME IInv, NEW from \in Borrowers, NEW share \in Nat, NEW rate \in Rates,
           RemoveCollateral(from, share, rate)
    PROVE  StepEffect
<1>1. /\ exchangeRate' = rate /\ ChargeInterest
      /\ totalBorrow' = AccruedBorrow /\ totalAsset' = AccruedAsset
      /\ RemoveCollateralCore(from, share) /\ SolventAfter(from)
      /\ UNCHANGED <<now, balanceOf, ybAsset, userBorrowPart, pauseOptions>>
  BY DEF RemoveCollateral
<1>2. PositionEffect
  BY <1>1, TakenCollateral, AccruedFacts, CollateralMoves
<1> QED
  BY <1>1, <1>2, TakenCollateral, AccruedFacts, OnlyCharges

(* A loan.                                                                 *)
LEMMA Lent ==
    ASSUME IInv, ChargeInterest, NEW u \in Borrowers, NEW amount \in Nat,
           BorrowCore(u, AccruedAsset, AccruedBorrow, amount)
    PROVE  /\ PoolEffect(AccruedAsset, AccruedBorrow, balanceOf)
           /\ totalBorrow' \in [elastic : 0..MaxUint128, base : 0..MaxUint128]
           /\ NoDearer(totalBorrow', AccruedBorrow)
           /\ \E part \in Nat :
                 /\ part >= userBorrowPart[u]
                 /\ userBorrowPart' = [userBorrowPart EXCEPT ![u] = part]
                 /\ totalBorrow'.base = totalBorrow.base + part - userBorrowPart[u]
<1> DEFINE fee   == (amount * borrowOpeningFee) \div FEE_PRECISION
           total == amount + fee
           added == ToBaseUp(AccruedBorrow, total)
           part  == userBorrowPart[u] + added
<1>1. fee \in Nat
  <2>1. amount * borrowOpeningFee \in Nat
    BY SingularityAssumption, SMT
  <2> QED
    BY <2>1, PrecisionAssumption, DivFacts
<1> HIDE DEF fee
<1>2. /\ totalBorrow' = RebaseAddUp(AccruedBorrow, total)
      /\ totalBorrow'.elastic <= MaxUint128 /\ totalBorrow'.base <= MaxUint128
      /\ userBorrowPart' = [userBorrowPart EXCEPT ![u] = part]
  BY DEF BorrowCore, fee
<1>3. total \in Nat
  BY <1>1
<1> HIDE DEF total
<1>4. SoundDebt(AccruedBorrow) /\ AccruedBorrow.base = totalBorrow.base
  BY InterestFacts
<1>5. /\ added \in Nat /\ SoundDebt(RebaseAddUp(AccruedBorrow, total))
      /\ NoDearer(RebaseAddUp(AccruedBorrow, total), AccruedBorrow)
  BY <1>3, <1>4, AddKeepsSound
<1>6. totalBorrow' = [elastic |-> AccruedBorrow.elastic + total,
                      base |-> AccruedBorrow.base + added]
  BY <1>2 DEF RebaseAddUp
<1> HIDE DEF added
<1>7. totalBorrow' \in [elastic : 0..MaxUint128, base : 0..MaxUint128]
  <2>1. SoundDebt(totalBorrow')
    BY <1>2, <1>5
  <2>2. totalBorrow'.elastic \in 0..MaxUint128 /\ totalBorrow'.base \in 0..MaxUint128
    BY <1>2, <2>1, SingularityAssumption DEF SoundDebt
  <2> QED
    BY <1>6, <2>2
<1>8. /\ part \in Nat /\ part >= userBorrowPart[u]
      /\ totalBorrow'.base = totalBorrow.base + part - userBorrowPart[u]
  BY <1>4, <1>5, <1>6, StateFacts
<1> HIDE DEF part
<1>9. PoolEffect(AccruedAsset, AccruedBorrow, balanceOf)
  BY AccruedFacts, BorrowPool
<1> QED
  BY <1>2, <1>5, <1>7, <1>8, <1>9

LEMMA BorrowEffect ==
    ASSUME IInv, NEW from \in Borrowers, NEW amount \in Nat, NEW rate \in Rates,
           Borrow(from, amount, rate)
    PROVE  StepEffect
<1>1. /\ exchangeRate' \in Rates /\ ChargeInterest /\ SolventAfter(from)
      /\ UNCHANGED <<now, collateralVars, pauseOptions>> /\ ybCollateral' \in Nat
      /\ UNCHANGED <<userCollateralShare, totalCollateralShare>>
  BY StateFacts DEF Borrow, collateralVars
<1>2. CASE /\ totalBorrow' = AccruedBorrow /\ totalAsset' = AccruedAsset
           /\ UNCHANGED <<balanceOf, ybAsset, userBorrowPart>>
  <2>1. PositionEffect
    BY <1>1, <1>2, AccruedFacts DEF PositionEffect, NoPositionMoves
  <2> QED
    BY <1>1, <1>2, <2>1, AccruedFacts, OnlyCharges
<1>3. CASE BorrowCore(from, AccruedAsset, AccruedBorrow, amount)
  <2>1. /\ PoolEffect(AccruedAsset, AccruedBorrow, balanceOf)
        /\ totalBorrow' \in [elastic : 0..MaxUint128, base : 0..MaxUint128]
        /\ NoDearer(totalBorrow', AccruedBorrow)
    BY <1>1, <1>3, Lent
  <2>2. PICK part \in Nat :
           /\ part >= userBorrowPart[from]
           /\ userBorrowPart' = [userBorrowPart EXCEPT ![from] = part]
           /\ totalBorrow'.base = totalBorrow.base + part - userBorrowPart[from]
    BY <1>1, <1>3, Lent
  <2>3. PositionEffect
    BY <1>1, <2>2, DebtMoves
  <2> QED
    BY <1>1, <2>1, <2>3, AccruedFacts, HandlerStep
<1> QED
  BY <1>2, <1>3 DEF Borrow

(* A repayment.                                                            *)
LEMMA Repaid ==
    ASSUME IInv, ChargeInterest, NEW u \in Borrowers, NEW requested \in Nat,
           NEW skim \in BOOLEAN, RepayCore(u, AccruedAsset, AccruedBorrow, requested, skim)
    PROVE  /\ PoolEffect(AccruedAsset, AccruedBorrow, balanceOf)
           /\ totalBorrow' \in [elastic : 0..MaxUint128, base : 0..MaxUint128]
           /\ NoDearer(totalBorrow', AccruedBorrow)
           /\ \E part \in Nat :
                 /\ part <= userBorrowPart[u]
                 /\ userBorrowPart' = [userBorrowPart EXCEPT ![u] = part]
                 /\ totalBorrow'.base = totalBorrow.base + part - userBorrowPart[u]
<1>1. /\ SoundPool(AccruedAsset, AccruedBorrow) /\ AccruedAsset.elastic <= ybAsset
      /\ AccruedBorrow \in [elastic : 0..MaxUint128, base : 0..MaxUint128]
      /\ AccruedBorrow.base = totalBorrow.base
  BY AccruedFacts
<1>2. /\ PoolEffect(AccruedAsset, AccruedBorrow, balanceOf)
      /\ NoDearer(totalBorrow', AccruedBorrow)
      /\ \E part \in Nat :
            /\ part <= userBorrowPart[u]
            /\ userBorrowPart' = [userBorrowPart EXCEPT ![u] = part]
            /\ totalBorrow'.base = AccruedBorrow.base + part - userBorrowPart[u]
      /\ totalBorrow' \in [elastic : Nat, base : Nat]
      /\ totalBorrow'.elastic <= AccruedBorrow.elastic
      /\ totalBorrow'.base <= AccruedBorrow.base
  BY <1>1, RepayPool
<1>3. totalBorrow' \in [elastic : 0..MaxUint128, base : 0..MaxUint128]
  <2>1. totalBorrow'.elastic \in 0..MaxUint128 /\ totalBorrow'.base \in 0..MaxUint128
    BY <1>1, <1>2, SingularityAssumption
  <2> QED
    BY <1>2, <2>1
<1> QED
  BY <1>1, <1>2, <1>3

LEMMA RepayEffect ==
    ASSUME IInv, NEW to \in Borrowers, NEW requested \in Nat, NEW skim \in BOOLEAN,
           NEW rate \in OracleAnswers, Repay(to, requested, skim, rate)
    PROVE  StepEffect
<1>1. /\ ChargeInterest /\ RepayCore(to, AccruedAsset, AccruedBorrow, requested, skim)
      /\ UNCHANGED <<now, collateralVars, pauseOptions>> /\ ybCollateral' \in Nat
      /\ UNCHANGED <<userCollateralShare, totalCollateralShare>>
      /\ exchangeRate' = RateOrCached(rate)
  BY StateFacts DEF Repay, collateralVars
<1>2. exchangeRate' \in Rates
  BY <1>1, AccruedFacts DEF RateOrCached, OracleAnswers
<1>3. /\ PoolEffect(AccruedAsset, AccruedBorrow, balanceOf)
      /\ totalBorrow' \in [elastic : 0..MaxUint128, base : 0..MaxUint128]
      /\ NoDearer(totalBorrow', AccruedBorrow)
  BY <1>1, Repaid
<1>4. PICK part \in Nat :
         /\ part <= userBorrowPart[to]
         /\ userBorrowPart' = [userBorrowPart EXCEPT ![to] = part]
         /\ totalBorrow'.base = totalBorrow.base + part - userBorrowPart[to]
  BY <1>1, Repaid
<1>5. PositionEffect
  BY <1>1, <1>4, DebtMoves
<1> QED
  BY <1>1, <1>2, <1>3, <1>5, AccruedFacts, HandlerStep

LEMMA BuyCollateralEffect ==
    ASSUME IInv, NEW from \in Borrowers, NEW amount \in Nat, NEW rate \in Rates,
           NEW out \in Nat, BuyCollateral(from, amount, rate, out)
    PROVE  StepEffect
<1> DEFINE share == ToShare(ShareRatio, out)
           coll == userCollateralShare[from] + share
<1>1. /\ exchangeRate' = rate /\ ChargeInterest /\ SolventAfter(from)
      /\ BorrowCore(from, AccruedAsset, AccruedBorrow, amount)
      /\ userCollateralShare' = [userCollateralShare EXCEPT ![from] = coll]
      /\ totalCollateralShare' = totalCollateralShare + share
      /\ UNCHANGED <<now, ybCollateral, pauseOptions>>
  BY DEF BuyCollateral
<1>2. share \in Nat
  BY PrecisionAssumption, SMT DEF ToShare
<1> HIDE DEF share
<1>3. /\ coll \in Nat
      /\ totalCollateralShare' = totalCollateralShare + coll - userCollateralShare[from]
  BY <1>1, <1>2, StateFacts
<1> HIDE DEF coll
<1>4. /\ PoolEffect(AccruedAsset, AccruedBorrow, balanceOf)
      /\ totalBorrow' \in [elastic : 0..MaxUint128, base : 0..MaxUint128]
      /\ NoDearer(totalBorrow', AccruedBorrow)
  BY <1>1, Lent
<1>5. PICK part \in Nat :
         /\ part >= userBorrowPart[from]
         /\ userBorrowPart' = [userBorrowPart EXCEPT ![from] = part]
         /\ totalBorrow'.base = totalBorrow.base + part - userBorrowPart[from]
  BY <1>1, Lent
<1>6. PositionMoves(from, part, coll)
  BY <1>1, <1>3, <1>5 DEF PositionMoves
<1>7. PositionEffect
  BY <1>3, <1>6 DEF PositionEffect
<1>8. ybCollateral' \in Nat
  BY <1>1, StateFacts
<1> QED
  BY <1>1, <1>4, <1>7, <1>8, AccruedFacts, HandlerStep

LEMMA SellCollateralEffect ==
    ASSUME IInv, NEW from \in Borrowers, NEW share \in Nat, NEW rate \in Rates,
           NEW out \in Nat, SellCollateral(from, share, rate, out)
    PROVE  StepEffect
<1> DEFINE owed   == ToElasticUp(AccruedBorrow, userBorrowPart[from])
           repaid == IF owed <= out THEN userBorrowPart[from]
                     ELSE ToBaseDown(AccruedBorrow, out)
           coll   == userCollateralShare[from] - share
<1>1. /\ exchangeRate' = rate /\ ChargeInterest /\ SolventAfter(from)
      /\ RemoveCollateralCore(from, share)
      /\ RepayCore(from, AccruedAsset, AccruedBorrow, repaid, FALSE)
      /\ UNCHANGED <<now, pauseOptions>>
  BY DEF SellCollateral
<1>2. repaid \in Nat
  <2>1. /\ AccruedBorrow.base \in Nat /\ AccruedBorrow.elastic \in Nat
        /\ userBorrowPart[from] \in Nat
    BY InterestFacts, StateFacts DEF SoundDebt
  <2>2. out * AccruedBorrow.base \in Nat
    BY <2>1, SMT
  <2>3. ToBaseDown(AccruedBorrow, out) \in Nat
    BY <2>1, <2>2, DivFacts DEF ToBaseDown
  <2> QED
    BY <2>1, <2>3
<1> HIDE DEF repaid
<1>3. /\ coll \in Nat
      /\ userCollateralShare' = [userCollateralShare EXCEPT ![from] = coll]
      /\ totalCollateralShare' = totalCollateralShare + coll - userCollateralShare[from]
      /\ ybCollateral' \in Nat
  BY <1>1, TakenCollateral
<1> HIDE DEF coll
<1>4. /\ PoolEffect(AccruedAsset, AccruedBorrow, balanceOf)
      /\ totalBorrow' \in [elastic : 0..MaxUint128, base : 0..MaxUint128]
      /\ NoDearer(totalBorrow', AccruedBorrow)
  BY <1>1, <1>2, Repaid
<1>5. PICK part \in Nat :
         /\ part <= userBorrowPart[from]
         /\ userBorrowPart' = [userBorrowPart EXCEPT ![from] = part]
         /\ totalBorrow'.base = totalBorrow.base + part - userBorrowPart[from]
  BY <1>1, <1>2, Repaid
<1>6. PositionMoves(from, part, coll)
  BY <1>1, <1>3, <1>5 DEF PositionMoves
<1>7. PositionEffect
  BY <1>3, <1>6 DEF PositionEffect
<1> QED
  BY <1>1, <1>3, <1>4, <1>7, AccruedFacts, HandlerStep

-----------------------------------------------------------------------------
(* Liquidations.  The saturating subtraction of _liquidateUser does not    *)
(* saturate, as the position is part of the total.                         *)

LEMMA LiquidateEffect ==
    ASSUME IInv, NEW user \in Borrowers, NEW max \in Nat, NEW bonus \in Nat,
           NEW answer \in OracleAnswers, NEW returned \in Nat,
           Liquidate(user, max, bonus, answer, returned)
    PROVE  StepEffect
<1> DEFINE rate   == RateOrCached(answer)
           tb     == AccruedBorrow
           coll   == userCollateralShare[user]
           part   == userBorrowPart[user]
           amount == LiquidatedAmount(coll, part, tb, rate, max)
           repaid == LiquidatedPart(part, tb, amount)
           share  == LiquidatedShare(coll, rate, amount)
           owed   == [elastic |-> tb.elastic - amount, base |-> tb.base - repaid]
           sold   == ToShare(ShareRatio, ToAmount(ShareRatio, share))
           pool   == [AccruedAsset EXCEPT !.elastic =
                         @ + ToShare(AssetShareRatio, amount)]
           reward == CallerReward(coll, part, tb, rate)
           extra  == ToShare(AssetShareRatio, returned - amount)
           fee    == extra - (extra * reward) \div FEE_PRECISION
           ff     == LiquidationFeeFraction(fee, pool, owed)
<1>1. /\ ~Solvent(liquidationCollateralizationRate, user, tb, rate)
      /\ MayLiquidate(coll, part, tb, rate, max, bonus)
      /\ repaid <= part /\ NonNegative(owed) /\ sold <= ybCollateral
      /\ SwapSucceeds(share, rate, amount, returned)
      /\ exchangeRate' = rate /\ ChargeInterest
      /\ userBorrowPart' = [userBorrowPart EXCEPT ![user] = part - repaid]
      /\ userCollateralShare' = [userCollateralShare EXCEPT ![user] = coll - share]
      /\ totalCollateralShare' =
            IF totalCollateralShare > share THEN totalCollateralShare - share ELSE 0
      /\ totalBorrow' = owed
      /\ ybCollateral' = ybCollateral - sold
      /\ totalAsset' = [elastic |-> pool.elastic + fee, base |-> pool.base + ff]
      /\ balanceOf' = [balanceOf EXCEPT ![Penrose] = @ + ff]
      /\ ybAsset' = ybAsset + ToShare(AssetShareRatio, amount) + fee
      /\ UNCHANGED <<now, pauseOptions>>
  BY DEF Liquidate
<1>2. /\ coll \in Nat /\ part \in Nat /\ coll <= totalCollateralShare
      /\ totalCollateralShare \in Nat /\ ybCollateral \in Nat
  BY StateFacts, PositionWithinTotals
<1>3. rate \in Rates /\ rate \in Nat \ {0} /\ rate = exchangeRate'
  BY <1>1, AccruedFacts, SingularityAssumption DEF RateOrCached, OracleAnswers
<1>4. /\ SoundDebt(tb) /\ tb \in [elastic : 0..MaxUint128, base : 0..MaxUint128]
      /\ tb.base = totalBorrow.base /\ tb.elastic \in Nat /\ tb.base \in Nat
      /\ SoundPool(AccruedAsset, tb) /\ AccruedAsset.elastic <= ybAsset
  BY <1>1, AccruedFacts DEF SoundDebt
<1>5. ~Solvent(collateralizationRate, user, AccruedBorrow, exchangeRate')
  <2> HIDE DEF rate
  <2>1. ~IsSolvent(liquidationCollateralizationRate, coll, part, tb, rate)
    BY <1>1 DEF Solvent
  <2>2. ~IsSolvent(collateralizationRate, coll, part, tb, rate)
    BY <1>2, <1>3, <1>4, <2>1, LiquidatableIsInsolvent
  <2> QED
    BY <1>3, <2>2 DEF Solvent
<1> HIDE DEF rate
<1>6. /\ tb.base # 0 /\ amount \in Nat /\ share \in Nat /\ share <= coll
  <2> HIDE DEF tb, coll, part
  <2> QED
    BY <1>1, <1>2, <1>3, <1>4, LiquidationTakes
<1>7. reward \in 0..FEE_PRECISION
  <2> HIDE DEF tb, coll, part
  <2> QED
    BY <1>2, <1>3, <1>4, <1>6, RewardIsAFraction
<1>8. sold \in Nat
  BY <1>6, SoldAtMost
<1> HIDE DEF amount, share, reward, sold
<1>9. returned - amount \in Nat
  BY <1>1, <1>6 DEF SwapSucceeds
<1>10. fee \in Nat
  <2>1. extra \in Nat /\ FEE_PRECISION \in Nat \ {0}
    BY <1>9, SingularityAssumption, PrecisionAssumption, SMT DEF ToShare
  <2> HIDE DEF extra
  <2>2. extra * reward \in Nat /\ extra * reward <= FEE_PRECISION * extra
    BY <1>7, <2>1, SMT
  <2>3. /\ (extra * reward) \div FEE_PRECISION \in Nat
        /\ FEE_PRECISION * ((extra * reward) \div FEE_PRECISION) <= extra * reward
    BY <2>1, <2>2, DivFacts
  <2> DEFINE q == (extra * reward) \div FEE_PRECISION
  <2>4. q \in Nat /\ FEE_PRECISION * q <= FEE_PRECISION * extra
    <3>1. FEE_PRECISION * q \in Int /\ FEE_PRECISION * extra \in Int
      BY <2>1, <2>3, SMT
    <3> QED
      BY <2>2, <2>3, <3>1
  <2> HIDE DEF q
  <2>5. q <= extra
    BY <2>1, <2>4, SMT
  <2> QED
    BY <2>1, <2>4, <2>5 DEF q
<1> HIDE DEF fee, extra
<1>11. amount <= tb.elastic /\ repaid \in Int /\ repaid <= tb.base
  <2>1. repaid \in Int
    <3>1. CASE amount = ToElasticUp(tb, part)
      BY <1>2, <3>1 DEF LiquidatedPart
    <3>2. CASE amount # ToElasticUp(tb, part)
      <4>1. amount * tb.base \in Nat
        BY <1>4, <1>6, SMT
      <4>2. ToBaseDown(tb, amount) \in Nat
        BY <1>4, <1>6, <4>1, DivFacts DEF ToBaseDown
      <4> QED
        BY <3>2, <4>2 DEF LiquidatedPart
    <3> QED
      BY <3>1, <3>2
  <2> HIDE DEF repaid
  <2> QED
    BY <1>1, <1>4, <1>6, <2>1 DEF NonNegative
<1>12. repaid \in Nat /\ SoundDebt(owed) /\ NoDearer(owed, tb)
  <2>1. CASE amount = ToElasticUp(tb, part)
    <3>1. repaid = part
      BY <2>1 DEF LiquidatedPart
    <3>2. owed = RebaseSubUp(tb, part)
      BY <2>1, <3>1 DEF RebaseSubUp
    <3> QED
      BY <1>2, <1>4, <1>11, <3>1, <3>2, SubKeepsSound
  <2>2. CASE amount # ToElasticUp(tb, part)
    <3>1. repaid = ToBaseDown(tb, amount)
      BY <2>2 DEF LiquidatedPart
    <3> QED
      BY <1>4, <1>6, <1>11, <3>1, PartialKeepsSound
  <2> QED
    BY <2>1, <2>2
<1> HIDE DEF repaid
<1>13. PoolEffect(AccruedAsset, AccruedBorrow, balanceOf)
  <2> HIDE DEF owed, pool, ff
  <2>1. /\ owed = [elastic |-> tb.elastic - amount, base |-> tb.base - repaid]
        /\ pool = [AccruedAsset EXCEPT !.elastic = @ + ToShare(AssetShareRatio, amount)]
        /\ ff = LiquidationFeeFraction(fee, pool, owed)
    BY DEF owed, pool, ff
  <2>2. PoolEffect(AccruedAsset, tb, balanceOf)
    <3> HIDE DEF tb
    <3> QED
      BY <1>1, <1>4, <1>6, <1>10, <1>11, <1>12, <2>1, LiquidationPool
  <2> QED
    BY <2>2
<1>14. totalBorrow' \in [elastic : 0..MaxUint128, base : 0..MaxUint128]
  <2> HIDE DEF tb
  <2>1. /\ tb.elastic - amount \in 0..MaxUint128 /\ tb.base - repaid \in 0..MaxUint128
    BY <1>4, <1>6, <1>11, <1>12, SingularityAssumption
  <2> QED
    BY <1>1, <2>1
<1>15. PositionEffect
  <2> HIDE DEF tb, coll, part
  <2>1. part - repaid \in Nat /\ coll - share \in Nat
    BY <1>1, <1>2, <1>6, <1>12
  <2>2. /\ totalBorrow'.base = totalBorrow.base + (part - repaid) - part
        /\ totalCollateralShare' = totalCollateralShare + (coll - share) - coll
    BY <1>1, <1>2, <1>4, <1>6, <1>12
  <2>3. PositionMoves(user, part - repaid, coll - share)
    BY <1>1, <1>5, <2>2 DEF PositionMoves, part, coll
  <2> QED
    BY <2>1, <2>3 DEF PositionEffect
<1>16. ybCollateral' \in Nat
  BY <1>1, <1>2, <1>8
<1>17. NoDearer(totalBorrow', AccruedBorrow)
  BY <1>1, <1>12
<1> QED
  BY <1>1, <1>3, <1>13, <1>14, <1>15, <1>16, <1>17, AccruedFacts, HandlerStep

LEMMA LiquidateBadDebtEffect ==
    ASSUME IInv, NEW user \in Borrowers, NEW answer \in OracleAnswers,
           LiquidateBadDebt(user, answer)
    PROVE  StepEffect
<1> DEFINE tb     == AccruedBorrow
           part   == userBorrowPart[user]
           coll   == userCollateralShare[user]
           amount == ToElasticUp(tb, part)
           owed   == [elastic |-> tb.elastic - amount, base |-> tb.base - part]
           sold   == ToShare(ShareRatio, ToAmount(ShareRatio, coll))
<1>1. /\ sold <= ybCollateral /\ exchangeRate' = RateOrCached(answer) /\ ChargeInterest
      /\ totalBorrow' = owed
      /\ userBorrowPart' = [userBorrowPart EXCEPT ![user] = 0]
      /\ userCollateralShare' = [userCollateralShare EXCEPT ![user] = 0]
      /\ totalCollateralShare' = totalCollateralShare - coll
      /\ ybCollateral' = ybCollateral - sold
      /\ totalAsset' = [AccruedAsset EXCEPT !.elastic =
                           @ + ToShare(AssetShareRatio, amount)]
      /\ ybAsset' = ybAsset + ToShare(AssetShareRatio, amount)
      /\ UNCHANGED <<now, balanceOf, pauseOptions>>
  BY DEF LiquidateBadDebt
<1>2. /\ coll \in Nat /\ part \in Nat /\ part <= totalBorrow.base
      /\ totalCollateralShare \in Nat /\ ybCollateral \in Nat /\ ybAsset \in Nat
  BY StateFacts, PositionWithinTotals
<1>3. exchangeRate' \in Rates
  BY <1>1, AccruedFacts DEF RateOrCached, OracleAnswers
<1>4. /\ SoundDebt(tb) /\ tb \in [elastic : 0..MaxUint128, base : 0..MaxUint128]
      /\ tb.base = totalBorrow.base /\ tb.elastic \in Nat /\ tb.base \in Nat
      /\ SoundPool(AccruedAsset, tb) /\ AccruedAsset.elastic <= ybAsset
      /\ AccruedAsset \in [elastic : Nat, base : Nat]
  BY <1>1, AccruedFacts DEF SoundDebt, SoundPool
<1>5. PositionEffect
  <2> HIDE DEF tb, amount, sold
  <2>1. /\ totalBorrow'.base = totalBorrow.base + 0 - userBorrowPart[user]
        /\ totalCollateralShare' = totalCollateralShare + 0 - userCollateralShare[user]
    BY <1>1, <1>2, <1>4
  <2>2. PositionMoves(user, 0, 0)
    BY <1>1, <2>1 DEF PositionMoves
  <2> QED
    BY <2>2 DEF PositionEffect
<1>6. /\ amount \in Nat /\ amount <= tb.elastic
      /\ SoundDebt(owed) /\ NoDearer(owed, tb)
  <2> HIDE DEF tb, part
  <2> QED
    BY <1>2, <1>4, SubKeepsSound DEF RebaseSubUp
<1>7. sold \in Nat
  BY <1>2, SoldAtMost
<1> HIDE DEF amount, sold
<1>8. PoolEffect(AccruedAsset, AccruedBorrow, balanceOf)
  <2>1. ToShare(AssetShareRatio, amount) \in Nat
    BY <1>6, SingularityAssumption, SMT DEF ToShare
  <2>2. ybAsset' \in Nat /\ totalAsset'.elastic <= ybAsset'
    <3>1. totalAsset'.elastic = AccruedAsset.elastic + ToShare(AssetShareRatio, amount)
      BY <1>1, <1>4
    <3>2. AccruedAsset.elastic \in Nat
      BY <1>4
    <3> QED
      BY <1>1, <1>2, <1>4, <2>1, <3>1, <3>2
  <2>3. PoolEffect(AccruedAsset, tb, balanceOf)
    <3> HIDE DEF tb, part
    <3> QED
      BY <1>1, <1>2, <1>4, <1>6, <2>2, SettlementPool
  <2> QED
    BY <2>3
<1>9. totalBorrow' \in [elastic : 0..MaxUint128, base : 0..MaxUint128]
  <2> HIDE DEF tb, part
  <2>1. /\ tb.elastic - amount \in 0..MaxUint128 /\ tb.base - part \in 0..MaxUint128
    BY <1>2, <1>4, <1>6, SingularityAssumption
  <2> QED
    BY <1>1, <2>1
<1>10. ybCollateral' \in Nat
  BY <1>1, <1>2, <1>7
<1>11. NoDearer(totalBorrow', AccruedBorrow)
  BY <1>1, <1>6
<1> QED
  BY <1>1, <1>3, <1>5, <1>8, <1>9, <1>10, <1>11, AccruedFacts, HandlerStep

-----------------------------------------------------------------------------
(* The owner's operations.                                                 *)

LEMMA RefreshPenroseFeesEffect ==
    ASSUME IInv, RefreshPenroseFees
    PROVE  StepEffect
<1>1. /\ UNCHANGED <<now, exchangeRate, userBorrowPart, collateralVars, pauseOptions>>
      /\ Penrose \in Holders
  BY DEF RefreshPenroseFees, Holders
<1>2. /\ exchangeRate' \in Rates /\ ybCollateral' \in Nat
      /\ pauseOptions \subseteq pauseOptions' /\ pauseOptions' \subseteq PauseType
  BY <1>1 DEF IInv, TypeOK, collateralVars
<1>3. CASE WithdrawFees
  <2> DEFINE fees == feesEarnedFraction + InterestFeeFraction
             bal  == [balanceOf EXCEPT ![Penrose] =
                         @ + feesEarnedFraction + InterestFeeFraction]
             all  == bal[Penrose]
  <2>1. /\ AccruedBorrow.elastic <= MaxUint128
        /\ lastAccrued' = now /\ interestPerSecond' = AccruedRate
        /\ feesEarnedFraction' = 0 /\ totalBorrow' = AccruedBorrow
        /\ RemoveAssetCore(AccruedAsset, AccruedBorrow, bal, Penrose, all)
    BY <1>3 DEF WithdrawFees
  <2>2. /\ balanceOf \in [Holders -> Nat] /\ balanceOf[Penrose] \in Nat
        /\ feesEarnedFraction \in Nat /\ InterestFeeFraction \in Nat
        /\ IsFiniteSet(Holders) /\ SumFunction(balanceOf) \in Nat
    BY <1>1, StateFacts, ChargedPool, SumBounds
  <2> DEFINE v == balanceOf[Penrose] + fees
  <2>3. v \in Nat /\ balanceOf[Penrose] + feesEarnedFraction + InterestFeeFraction = v
    BY <2>2
  <2>4. bal = [balanceOf EXCEPT ![Penrose] = v]
    BY <2>3
  <2> HIDE DEF v, bal
  <2>5. bal \in [Holders -> Nat] /\ all \in Nat
    BY <1>1, <2>2, <2>3, <2>4
  <2>6. SumFunction(bal) = SumFunction(balanceOf) + v - balanceOf[Penrose]
    BY <1>1, <2>2, <2>3, <2>4, SumUpdate
  <2>7. SumFunction(bal) + feesEarnedFraction' = AccruedAsset.base
    <3>1. /\ SumFunction(balanceOf) + feesEarnedFraction = totalAsset.base
          /\ AccruedAsset.base = totalAsset.base + InterestFeeFraction
      BY ChargedPool DEF IInv, HoldingsAddUp
    <3>2. v = balanceOf[Penrose] + feesEarnedFraction + InterestFeeFraction
      BY <2>2 DEF v
    <3>3. SumFunction(bal) = SumFunction(balanceOf) + feesEarnedFraction + InterestFeeFraction
      BY <2>2, <2>6, <3>2
    <3> QED
      BY <2>1, <2>2, <3>1, <3>3
  <2>8. SoundPool(AccruedAsset, AccruedBorrow) /\ AccruedAsset.elastic <= ybAsset
    BY ChargedPool, StateFacts
  <2> HIDE DEF all
  <2>9. PoolEffect(AccruedAsset, AccruedBorrow, bal)
    BY <1>1, <2>1, <2>5, <2>8, RemoveAssetPool
  <2>10. AccruedBorrow \in [elastic : 0..MaxUint128, base : 0..MaxUint128]
    <3>1. AccruedBorrow.elastic \in 0..MaxUint128
      BY <2>1, InterestFacts, SingularityAssumption DEF SoundDebt
    <3> QED
      BY <3>1, StateFacts, InterestFacts DEF AccruedBorrow
  <2>11. Charging
    BY <2>1 DEF Charging
  <2>12. PositionEffect
    BY <1>1, <2>1, InterestFacts DEF collateralVars, PositionEffect, NoPositionMoves
  <2>13. NoDearer(totalBorrow', AccruedBorrow) /\ feesEarnedFraction' \in Nat
    BY <2>1, InterestFacts
  <2> QED
    BY <1>1, <1>2, <2>1, <2>5, <2>7, <2>9, <2>10, <2>11, <2>12, <2>13, ChargedStep
<1>4. CASE /\ RemoveAssetCore(totalAsset, totalBorrow, balanceOf, Penrose,
                              balanceOf[Penrose])
           /\ UNCHANGED <<accrueVars, totalBorrow>>
  <2>1. PoolEffect(totalAsset, totalBorrow, balanceOf)
    BY <1>1, <1>4, StateFacts, RemoveAssetPool
  <2>2. PositionEffect
    BY <1>1, <1>4 DEF collateralVars, PositionEffect, NoPositionMoves
  <2>3. /\ ~Charged /\ UNCHANGED <<totalBorrow, feesEarnedFraction, interestPerSecond>>
        /\ now' \in 0..MaxTime /\ lastAccrued' \in 0..now'
    BY <1>1, <1>4, ClockFacts DEF Charged, accrueVars
  <2> QED
    BY <1>2, <2>1, <2>2, <2>3, QuietStep
<1> QED
  BY <1>3, <1>4 DEF RefreshPenroseFees

LEMMA UpdatePauseEffect ==
    ASSUME IInv, NEW type \in Pausable, NEW val \in BOOLEAN, NEW reset \in BOOLEAN,
           UpdatePause(type, val, reset)
    PROVE  StepEffect
<1>1. /\ val # (type \in pauseOptions)
      /\ UNCHANGED <<now, exchangeRate, balanceOf, ybAsset, userBorrowPart, collateralVars>>
      /\ type \in PauseType
  BY SingularityAssumption DEF UpdatePause
<1>2. exchangeRate' \in Rates /\ ybCollateral' \in Nat /\ pauseOptions \subseteq PauseType
  BY <1>1 DEF IInv, TypeOK, collateralVars
<1>3. CASE /\ pauseOptions' = pauseOptions \cup {type}
           /\ ChargeInterest
           /\ totalBorrow' = AccruedBorrow /\ totalAsset' = AccruedAsset
  <2>1. PositionEffect
    BY <1>1, <1>3, InterestFacts DEF collateralVars, PositionEffect, NoPositionMoves
  <2> QED
    BY <1>1, <1>2, <1>3, <2>1, OnlyCharges
<1>4. CASE /\ ~val
           /\ pauseOptions' = pauseOptions \ {type}
           /\ lastAccrued' =
                IF reset /\ type \notin {"AddCollateral", "RemoveCollateral"}
                THEN now ELSE lastAccrued
           /\ UNCHANGED <<interestPerSecond, feesEarnedFraction, totalBorrow, totalAsset>>
  <2>1. type \in pauseOptions
    BY <1>1, <1>4
  <2>2. ~Charged
    BY <1>4, <2>1 DEF Charged
  <2>3. now' \in 0..MaxTime /\ lastAccrued' \in 0..now'
    <3>1. now \in 0..now
      BY ClockFacts, SingularityAssumption
    <3> QED
      BY <1>1, <1>4, <3>1, ClockFacts
  <2>4. PositionEffect
    BY <1>1, <1>4 DEF collateralVars, PositionEffect, NoPositionMoves
  <2>5. PoolEffect(totalAsset, totalBorrow, balanceOf)
    BY <1>1, <1>4, StateFacts, PoolUntouched
  <2> QED
    BY <1>1, <1>2, <1>4, <2>2, <2>3, <2>4, <2>5, QuietStep
<1> QED
  BY <1>3, <1>4 DEF UpdatePause

-----------------------------------------------------------------------------
LEMMA StepHasEffect ==
    ASSUME IInv, [Next]_vars
    PROVE  StepEffect
<1>1. CASE LenderStep
  <2>1. ASSUME NEW to \in Lenders, NEW share \in AssetShares, NEW skim \in BOOLEAN,
               AddAsset(to, share, skim)
        PROVE  StepEffect
    BY <2>1, SingularityAssumption, AddAssetEffect DEF Holders
  <2>2. ASSUME NEW from \in Lenders, NEW fraction \in Fractions, RemoveAsset(from, fraction)
        PROVE  StepEffect
    BY <2>2, SingularityAssumption, RemoveAssetEffect DEF Holders
  <2>3. ASSUME NEW from \in Lenders, NEW to \in Lenders, NEW amount \in Fractions,
               TransferFraction(from, to, amount)
        PROVE  StepEffect
    BY <2>3, SingularityAssumption, TransferFractionEffect DEF Holders
  <2>4. ASSUME NEW share \in Transfers,
               TransferToMarket(share, 0) \/ TransferToMarket(0, share)
        PROVE  StepEffect
    BY <2>4, SingularityAssumption, TransferToMarketEffect
  <2> QED
    BY <1>1, <2>1, <2>2, <2>3, <2>4, AccrueEffect DEF LenderStep
<1>2. CASE BorrowerStep
  <2>1. ASSUME NEW to \in Borrowers, NEW share \in Shares, NEW skim \in BOOLEAN,
               AddCollateral(to, share, skim)
        PROVE  StepEffect
    BY <2>1, SingularityAssumption, AddCollateralEffect
  <2>2. ASSUME NEW from \in Borrowers, NEW share \in Shares, NEW rate \in Rates,
               RemoveCollateral(from, share, rate)
        PROVE  StepEffect
    BY <2>2, SingularityAssumption, RemoveCollateralEffect
  <2>3. ASSUME NEW from \in Borrowers, NEW amount \in Amounts, NEW rate \in Rates,
               Borrow(from, amount, rate)
        PROVE  StepEffect
    BY <2>3, SingularityAssumption, BorrowEffect
  <2>4. ASSUME NEW to \in Borrowers, NEW part \in Parts, NEW skim \in BOOLEAN,
               NEW rate \in OracleAnswers, Repay(to, part, skim, rate)
        PROVE  StepEffect
    BY <2>4, SingularityAssumption, RepayEffect
  <2> QED
    BY <1>2, <2>1, <2>2, <2>3, <2>4, UpdateExchangeRateEffect DEF BorrowerStep
<1>3. CASE LeverageStep
  <2>1. ASSUME NEW from \in Borrowers, NEW amount \in Amounts, NEW out \in Amounts,
               NEW rate \in Rates, BuyCollateral(from, amount, rate, out)
        PROVE  StepEffect
    BY <2>1, SingularityAssumption, BuyCollateralEffect
  <2>2. ASSUME NEW from \in Borrowers, NEW share \in Shares, NEW rate \in Rates,
               NEW out \in Amounts, SellCollateral(from, share, rate, out)
        PROVE  StepEffect
    BY <2>2, SingularityAssumption, SellCollateralEffect
  <2> QED
    BY <1>3, <2>1, <2>2 DEF LeverageStep
<1>4. CASE LiquidationStep
  <2>1. ASSUME NEW user \in Borrowers, NEW max \in Parts, NEW bonus \in Bonuses,
               NEW rate \in OracleAnswers, NEW returned \in Amounts,
               Liquidate(user, max, bonus, rate, returned)
        PROVE  StepEffect
    BY <2>1, SingularityAssumption, LiquidateEffect
  <2> QED
    BY <1>4, <2>1, LiquidateBadDebtEffect DEF LiquidationStep
<1>5. CASE GovernanceStep
  BY <1>5, RefreshPenroseFeesEffect, UpdatePauseEffect DEF GovernanceStep
<1>6. CASE UNCHANGED vars
  <2>1. PositionEffect
    BY <1>6 DEF vars, debtVars, collateralVars, PositionEffect, NoPositionMoves
  <2>2. /\ exchangeRate' \in Rates /\ ybCollateral' \in Nat
        /\ now' \in 0..MaxTime /\ lastAccrued' \in 0..now'
    BY <1>6, ClockFacts DEF vars, accrueVars, collateralVars, IInv, TypeOK
  <2> QED
    BY <1>6, <2>1, <2>2, IdleStep DEF vars
<1> QED
  BY <1>1, <1>2, <1>3, <1>4, <1>5, <1>6, TickEffect DEF Next

LEMMA InitIsSound ==
    ASSUME Init
    PROVE  IInv
<1>1. TypeOK
  <2>1. totalBorrow \in [elastic : 0..MaxUint128, base : 0..MaxUint128]
    BY SingularityAssumption DEF Init, ZeroRebase
  <2>2. now \in 0..MaxTime /\ lastAccrued \in 0..now /\ interestPerSecond \in Nat
    BY SingularityAssumption DEF Init
  <2>3. RateBounded(interestPerSecond)
    BY SingularityAssumption DEF Init, RateBounded
  <2>4. /\ userBorrowPart \in [Borrowers -> Nat] /\ userCollateralShare \in [Borrowers -> Nat]
        /\ balanceOf \in [Holders -> Nat] /\ totalAsset \in [elastic : Nat, base : Nat]
    BY DEF Init, ZeroRebase
  <2> QED
    BY <2>1, <2>2, <2>3, <2>4 DEF Init, TypeOK, RateBounded
<1>2. SoundDebt(totalBorrow) /\ AssetBacked
  BY DEF Init, SoundDebt, AssetBacked, ZeroRebase
<1>3. PoolShape
  <2>1. 0 * AssetShareRatio = 0
    BY SingularityAssumption, SMT
  <2> QED
    BY <2>1 DEF Init, PoolShape, AllShare, ToShare, ZeroRebase
<1>4. HoldingsAddUp
  <2>1. IsFiniteSet(Holders)
    BY AccountsAssumption, FS_AddElement DEF Holders
  <2>2. SumFunction([h \in Holders |-> 0]) = 0 /\ SumFunction([u \in Borrowers |-> 0]) = 0
    BY <2>1, AccountsAssumption, SumOfZeros
  <2> QED
    BY <2>2 DEF Init, HoldingsAddUp, ZeroRebase
<1> QED
  BY <1>1, <1>2, <1>3, <1>4 DEF IInv

LEMMA IInvHolds == Spec => []IInv
<1>1. Init => IInv
  BY InitIsSound
<1>2. IInv /\ [Next]_vars => IInv'
  BY StepHasEffect DEF StepEffect
<1> QED
  BY <1>1, <1>2, PTL DEF Spec

(* No step, whoever takes it, makes a position insolvent.                  *)
LEMMA StepKeepsSolvent ==
    ASSUME IInv, [Next]_vars, NEW u \in Borrowers,
           Solvent(collateralizationRate, u, AccruedBorrow, exchangeRate')
    PROVE  Solvent(collateralizationRate, u, totalBorrow, exchangeRate)'
<1> DEFINE part == userBorrowPart[u]
           coll == userCollateralShare[u]
<1>1. IInv' /\ NoDearer(totalBorrow', AccruedBorrow) /\ SoundDebt(totalBorrow')
      /\ PositionEffect
  BY StepHasEffect DEF StepEffect, SoundDebt, IInv
<1>2. /\ part \in Nat /\ coll \in Nat /\ part' \in Nat /\ coll' \in Nat
      /\ part' <= totalBorrow'.base
  BY <1>1, StateFacts, AccountsAssumption, SumBounds DEF IInv, TypeOK, HoldingsAddUp
<1>3. exchangeRate' \in Nat \ {0} /\ collateralizationRate \in Nat
      /\ SoundDebt(AccruedBorrow)
  BY <1>1, InterestFacts, SingularityAssumption, RatesAssumption DEF IInv, TypeOK
<1>4. ASSUME coll <= coll', part' <= part
      PROVE  Solvent(collateralizationRate, u, totalBorrow, exchangeRate)'
  <2>1. IsSolvent(collateralizationRate, coll, part, AccruedBorrow, exchangeRate')
    BY DEF Solvent
  <2> HIDE DEF part, coll
  <2>2. IsSolvent(collateralizationRate, coll', part', totalBorrow', exchangeRate')
    BY <1>1, <1>2, <1>3, <1>4, <2>1, StaysSolvent
  <2> QED
    BY <2>2 DEF Solvent, part, coll
<1>5. CASE NoPositionMoves
  BY <1>2, <1>4, <1>5 DEF NoPositionMoves
<1>6. ASSUME NEW v \in Borrowers, NEW p \in Nat, NEW c \in Nat, PositionMoves(v, p, c)
      PROVE  Solvent(collateralizationRate, u, totalBorrow, exchangeRate)'
  <2>1. /\ userBorrowPart' = [userBorrowPart EXCEPT ![v] = p]
        /\ userCollateralShare' = [userCollateralShare EXCEPT ![v] = c]
        /\ userBorrowPart \in [Borrowers -> Nat] /\ userCollateralShare \in [Borrowers -> Nat]
    BY <1>6, StateFacts DEF PositionMoves
  <2>2. CASE u # v
    <3>1. part' = part /\ coll' = coll
      BY <2>1, <2>2
    <3> QED
      BY <1>2, <1>4, <3>1
  <2>3. CASE u = v
    <3>1. part' = p /\ coll' = c
      BY <2>1, <2>3
    <3>2. CASE p <= part /\ c >= coll
      BY <1>2, <1>4, <3>1, <3>2
    <3>3. CASE SolventAfter(u)
      BY <3>3 DEF SolventAfter
    <3>4. CASE p = 0
      BY <3>1, <3>4 DEF Solvent, IsSolvent
    <3> QED
      BY <1>6, <2>3, <3>2, <3>3, <3>4 DEF PositionMoves
  <2> QED
    BY <2>2, <2>3
<1> QED
  BY <1>1, <1>5, <1>6 DEF PositionEffect

-----------------------------------------------------------------------------
(* Theorems.                                                               *)

(* The state keeps its types and widths, the debt within uint128, and the  *)
(* interest rate never exceeds its bounds and where it starts, whatever    *)
(* getInterestRate rounds.                                                 *)
THEOREM SingularityTypeCorrect == Spec => []TypeOK
<1>1. IInv => TypeOK
  BY DEF IInv
<1> QED
  BY <1>1, IInvHolds, PTL

(* The pool is empty or has MinFraction fractions, and it is worth         *)
(* something exactly if someone owns it: no handler that mints or burns    *)
(* fractions divides by nothing or leaves value to the first depositor.    *)
THEOREM PoolKeepsItsShape == Spec => []PoolShape
<1>1. IInv => PoolShape
  BY DEF IInv
<1> QED
  BY <1>1, IInvHolds, PTL

(* What lenders have not lent is held for the market in YieldBox: neither  *)
(* _addTokens with skim nor a liquidation accounts for more than arrived.  *)
THEOREM AssetIsHeld == Spec => []AssetBacked
<1>1. IInv => AssetBacked
  BY DEF IInv
<1> QED
  BY <1>1, IInvHolds, PTL

(* The fractions of all holders and the fees not yet withdrawn are the     *)
(* pool's, and the positions are the market's debt and collateral.         *)
THEOREM HoldingsAlwaysAddUp == Spec => []HoldingsAddUp
<1>1. IInv => HoldingsAddUp
  BY DEF IInv
<1> QED
  BY <1>1, IInvHolds, PTL

(* No operation raises the debt a part stands for above what interest      *)
(* makes it: the roundings of Rebase.add, sub and toBase favour borrowers. *)
THEOREM SingularityPartsGrowByInterestOnly == Spec => DebtPerPartOnlyGrowsByInterest
<1> DEFINE Fair == totalBorrow'.elastic * totalBorrow.base
                     <= AccruedBorrow.elastic * totalBorrow'.base
<1>1. IInv /\ [Next]_vars => [Fair]_vars
  BY StepHasEffect, InterestFacts DEF StepEffect, NoDearer
<1> QED
  BY <1>1, IInvHolds, PTL DEF Spec, DebtPerPartOnlyGrowsByInterest

(* A lender's fraction is worth no less after any step, whoever takes it,  *)
(* and gains its share of the interest charged, but for what the fractions *)
(* minted for a fee claim of one unit of the asset (SGLLendingCommon:68).  *)
THEOREM LendersNeverLose == Spec => FractionsNeverLoseValue
<1>1. IInv /\ [Next]_vars => [KeepsValue]_vars
  BY StepHasEffect DEF StepEffect
<1>2. KeepsValue =>
        LET charged == lastAccrued' # lastAccrued /\ pauseOptions \subseteq pauseOptions'
            earned == IF charged
                      THEN ToShare(AssetShareRatio, Interest - InterestFee) ELSE 0
            base == IF charged THEN AccruedAsset.base ELSE totalAsset.base
            minted == base - totalAsset.base
                        + (IF totalAsset'.base > base THEN totalAsset'.base - base ELSE 0)
        IN  (AllShare(totalAsset, totalBorrow) + earned) * totalAsset'.base
               <= AllShare(totalAsset, totalBorrow)' * totalAsset.base
                    + minted * (AssetShareRatio - 1)
  BY DEF KeepsValue, Earned, BaseBefore, Charged, NewFractions
<1> QED
  BY <1>1, <1>2, IInvHolds, PTL DEF Spec, FractionsNeverLoseValue

(* Only time and the oracle make a position insolvent: no operation of     *)
(* SGLBorrow, SGLCollateral, SGLLeverage or SGLLiquidation does, not even  *)
(* the liquidation of someone else.                                        *)
THEOREM SingularityKeepsSolvency == Spec => SolventStaysSolvent
<1> DEFINE Keeps == \A u \in Borrowers :
              Solvent(collateralizationRate, u, AccruedBorrow, exchangeRate')
                => Solvent(collateralizationRate, u, totalBorrow, exchangeRate)'
<1>1. IInv /\ [Next]_vars => [Keeps]_vars
  BY StepKeepsSolvent
<1> QED
  BY <1>1, IInvHolds, PTL DEF Spec, SolventStaysSolvent
=============================================================================
