--------------------------- MODULE MarketTheorems ---------------------------
(***************************************************************************)
(* What the proofs about the markets share.  First, what rounding does to  *)
(* a debt that is shared in parts: a sound debt has at least one token per *)
(* part, and tokens only if it has parts; adding to it and taking from it, *)
(* with the markets' rounding, keeps it sound and never raises the tokens  *)
(* owed per part.  Then, what the sum of the users' positions is and how a *)
(* change to one of them moves it.  Last, what a liquidation takes from a  *)
(* position and what keeps a position solvent (module Market).             *)
(***************************************************************************)
EXTENDS Market, FiniteSetTheorems, TLAPS

(* A Rebase that is sound as a debt.                                       *)
SoundDebt(t) == /\ t.elastic \in Nat /\ t.base \in Nat
                /\ t.base <= t.elastic
                /\ t.base = 0 => t.elastic = 0

(* The debt per part of s is at most that of t.                            *)
NoDearer(s, t) == s.elastic * t.base <= t.elastic * s.base

-----------------------------------------------------------------------------
(* Division rounded down and up.                                           *)
LEMMA DivFacts ==
    ASSUME NEW a \in Nat, NEW b \in Nat \ {0}
    PROVE  /\ a \div b \in Nat
           /\ b * (a \div b) <= a
           /\ a < b * (a \div b) + b
  BY SMT

LEMMA CeilDivFacts ==
    ASSUME NEW a \in Nat, NEW b \in Nat \ {0}
    PROVE  /\ CeilDiv(a, b) \in Nat
           /\ a <= b * CeilDiv(a, b)
           /\ b * CeilDiv(a, b) < a + b
<1>1. a + b - 1 \in Nat
  BY SMT
<1> QED
  BY <1>1, DivFacts, SMT DEF CeilDiv

LEMMA ProductMonotone ==
    ASSUME NEW a \in Nat, NEW b \in Nat, NEW c \in Nat, a <= b
    PROVE  a * c <= b * c
  BY SMT

LEMMA CancelProduct ==
    ASSUME NEW a \in Int, NEW b \in Int, NEW c \in Nat \ {0}
    PROVE  /\ a * c <= b * c => a <= b
           /\ a * c < b * c => a < b
  BY SMT

(* A quotient rounded down or up that is bounded before the rounding is    *)
(* bounded after it.                                                       *)
LEMMA CeilDivAtMost ==
    ASSUME NEW a \in Nat, NEW b \in Nat \ {0}, NEW c \in Nat, a <= c * b
    PROVE  CeilDiv(a, b) <= c
<1> DEFINE q == CeilDiv(a, b)
<1>1. q \in Nat /\ b * q < a + b
  BY CeilDivFacts
<1>2. q * b < (c + 1) * b
  BY <1>1, SMT
<1>3. q < c + 1
  BY <1>1, <1>2, CancelProduct
<1> QED
  BY <1>1, <1>3

-----------------------------------------------------------------------------
(* Borrowing x tokens (fee included), Rebase.add(x, true).                 *)
LEMMA AddKeepsSound ==
    ASSUME NEW t, SoundDebt(t), NEW x \in Nat
    PROVE  /\ ToBaseUp(t, x) \in Nat
           /\ SoundDebt(RebaseAddUp(t, x))
           /\ NoDearer(RebaseAddUp(t, x), t)
<1> DEFINE e == t.elastic
           b == t.base
           p == ToBaseUp(t, x)
<1>1. e \in Nat /\ b \in Nat /\ b <= e /\ (b = 0 => e = 0)
  BY DEF SoundDebt
<1>2. CASE e = 0
  <2>1. p = x /\ b = 0
    BY <1>1, <1>2 DEF ToBaseUp
  <2> QED
    BY <1>1, <1>2, <2>1 DEF RebaseAddUp, SoundDebt, NoDearer
<1>3. CASE e # 0
  <2>1. e \in Nat \ {0} /\ b \in Nat \ {0}
    BY <1>1, <1>3
  <2>2. x * b \in Nat /\ x * b <= x * e
    BY <1>1, SMT
  <2>3. p = CeilDiv(x * b, e)
    BY <1>3 DEF ToBaseUp
  <2>4. p \in Nat /\ x * b <= e * p
    BY <2>1, <2>2, <2>3, CeilDivFacts
  <2>5. p <= x
    BY <2>1, <2>2, <2>3, CeilDivAtMost
  <2>6. (e + x) * b <= e * (b + p)
    BY <1>1, <2>4, SMT
  <2> QED
    BY <1>1, <2>1, <2>4, <2>5, <2>6 DEF RebaseAddUp, SoundDebt, NoDearer
<1> QED
  BY <1>2, <1>3

(* Repaying p parts, Rebase.sub(p, true), and the tokens they cost.        *)
LEMMA SubKeepsSound ==
    ASSUME NEW t, SoundDebt(t), NEW p \in Nat, p <= t.base
    PROVE  /\ ToElasticUp(t, p) \in Nat
           /\ p <= ToElasticUp(t, p)
           /\ ToElasticUp(t, p) <= t.elastic
           /\ SoundDebt(RebaseSubUp(t, p))
           /\ NoDearer(RebaseSubUp(t, p), t)
<1> DEFINE e == t.elastic
           b == t.base
           a == ToElasticUp(t, p)
<1>1. e \in Nat /\ b \in Nat /\ b <= e /\ (b = 0 => e = 0) /\ p <= b
  BY DEF SoundDebt
<1>2. CASE b = 0
  <2>1. a = 0 /\ p = 0 /\ e = 0
    BY <1>1, <1>2 DEF ToElasticUp
  <2> QED
    BY <1>1, <1>2, <2>1 DEF RebaseSubUp, SoundDebt, NoDearer
<1>3. CASE b # 0
  <2>1. e \in Nat \ {0} /\ b \in Nat \ {0}
    BY <1>1, <1>3
  <2>2. p * e \in Nat /\ p * e <= e * b /\ p * b <= p * e
    BY <1>1, SMT
  <2>3. a = CeilDiv(p * e, b)
    BY <1>3 DEF ToElasticUp
  <2>4. a \in Nat /\ p * e <= b * a /\ b * a < p * e + b
    BY <2>1, <2>2, <2>3, CeilDivFacts
  <2>5. a <= e
    BY <2>1, <2>2, <2>3, CeilDivAtMost
  <2>6. p <= a
    <3>1. p * b <= a * b
      BY <1>1, <2>2, <2>4, SMT
    <3> QED
      BY <2>1, <2>4, <3>1, CancelProduct
  <2>7. b - p <= e - a
    <3>1. (b - p) * b <= (b - p) * e
      BY <1>1, SMT
    <3>2. (b - p - 1) * b < (e - a) * b
      BY <1>1, <2>4, <3>1, SMT
    <3>3. b - p - 1 < e - a
      BY <1>1, <2>1, <2>4, <3>2, CancelProduct
    <3> QED
      BY <1>1, <2>4, <3>3
  <2>8. b - p = 0 => e - a = 0
    <3>1. ASSUME p = b PROVE e <= a
      <4>1. e * b <= a * b
        BY <1>1, <2>4, <3>1, SMT
      <4> QED
        BY <2>1, <2>4, <4>1, CancelProduct
    <3> QED
      BY <1>1, <2>4, <2>5, <3>1
  <2>9. (e - a) * b <= e * (b - p)
    BY <1>1, <2>4, SMT
  <2> QED
    BY <1>1, <2>4, <2>5, <2>6, <2>7, <2>8, <2>9
    DEF RebaseSubUp, SoundDebt, NoDearer
<1> QED
  BY <1>2, <1>3

(* A liquidation that repays a tokens and clears the parts they pay for,   *)
(* rounded down.                                                           *)
LEMMA PartialKeepsSound ==
    ASSUME NEW t, SoundDebt(t), t.base # 0, NEW a \in Nat, a <= t.elastic
    PROVE  LET s == [elastic |-> t.elastic - a, base |-> t.base - ToBaseDown(t, a)]
           IN  /\ ToBaseDown(t, a) \in Nat
               /\ SoundDebt(s)
               /\ NoDearer(s, t)
<1> DEFINE e == t.elastic
           b == t.base
           q == ToBaseDown(t, a)
<1>1. e \in Nat \ {0} /\ b \in Nat \ {0} /\ b <= e
  BY DEF SoundDebt
<1>2. q = (a * b) \div e
  BY <1>1 DEF ToBaseDown
<1>3. a * b \in Nat /\ a * b <= b * e
  BY <1>1, SMT
<1>4. q \in Nat /\ e * q <= a * b /\ a * b < e * q + e
  BY <1>1, <1>2, <1>3, DivFacts
<1>5. q <= b
  <2>1. q * e <= b * e
    BY <1>1, <1>3, <1>4, SMT
  <2> QED
    BY <1>1, <1>4, <2>1, CancelProduct
<1>6. b - q <= e - a
  <2>1. a * (e - b) <= e * (e - b)
    BY <1>1, SMT
  <2>2. (a - q - 1) * e < (e - b) * e
    BY <1>1, <1>4, <2>1, SMT
  <2>3. a - q - 1 < e - b
    BY <1>1, <1>4, <2>2, CancelProduct
  <2> QED
    BY <1>1, <1>4, <2>3
<1>7. b - q = 0 => e - a = 0
  <2>1. ASSUME q = b PROVE e <= a
    <3>1. e * b <= a * b
      BY <1>1, <1>4, <2>1, SMT
    <3> QED
      BY <1>1, <3>1, CancelProduct
  <2> HIDE DEF e, b, q
  <2>2. b \in Nat /\ q \in Nat /\ e \in Nat /\ a <= e
    BY <1>1, <1>4 DEF e
  <2> QED
    BY <2>1, <2>2
<1>8. (e - a) * b <= e * (b - q)
  BY <1>1, <1>4, SMT
<1> QED
  BY <1>1, <1>4, <1>5, <1>6, <1>7, <1>8 DEF SoundDebt, NoDearer

-----------------------------------------------------------------------------
(* Sums.  SumFunction of the community modules folds a function over its   *)
(* domain, an arbitrary element at a time; what the sum is follows by      *)
(* taking, among the subsets for which it would be something else, a       *)
(* smallest one.                                                           *)
Pick(s) == CHOOSE y \in s : TRUE

(* g sums f over every subset of S, element by element.                    *)
SumsUp(g, f, S) ==
    g = [s \in SUBSET S |-> IF s = {} THEN 0 ELSE f[Pick(s)] + g[s \ {Pick(s)}]]

(* A set of subsets of a finite set that is not empty has a smallest one.  *)
LEMMA SmallestSubset ==
    ASSUME NEW S, IsFiniteSet(S), NEW D, D \subseteq SUBSET S, D # {}
    PROVE  \E T \in D : \A U \in D : U \subseteq T => U = T
<1>1. IsWellFoundedOn(StrictSubsetOrdering(S), SUBSET S)
  BY FS_StrictSubsetOrderingWellFounded, FS_FiniteSubsetsOfFinite
<1>2. PICK T \in D : \A U \in D : <<U, T>> \notin StrictSubsetOrdering(S)
  BY <1>1, WFMin
<1>3. ASSUME NEW U \in D, U \subseteq T
      PROVE  U = T
  BY <1>2, <1>3 DEF StrictSubsetOrdering
<1> QED
  BY <1>3

LEMMA PickIn ==
    ASSUME NEW s, s # {}
    PROVE  Pick(s) \in s
  BY DEF Pick

LEMMA SumsUpRestricts ==
    ASSUME NEW f, NEW S, NEW g, SumsUp(g, f, S), NEW U, U \subseteq S
    PROVE  SumsUp([s \in SUBSET U |-> g[s]], f, U)
<1> DEFINE h == [s \in SUBSET U |-> g[s]]
<1>1. ASSUME NEW s \in SUBSET U
      PROVE  h[s] = IF s = {} THEN 0 ELSE f[Pick(s)] + h[s \ {Pick(s)}]
  <2>1. s \in SUBSET S /\ s \ {Pick(s)} \in SUBSET U
    OBVIOUS
  <2>2. g[s] = IF s = {} THEN 0 ELSE f[Pick(s)] + g[s \ {Pick(s)}]
    BY <2>1 DEF SumsUp
  <2> QED
    BY <2>1, <2>2
<1> HIDE DEF h
<1>2. h = [s \in SUBSET U |-> h[s]]
  BY DEF h
<1> QED
  BY <1>1, <1>2 DEF SumsUp, h

LEMMA SumsUpUnique ==
    ASSUME NEW f, NEW S, IsFiniteSet(S), NEW g, SumsUp(g, f, S),
           NEW h, SumsUp(h, f, S)
    PROVE  g = h
<1> DEFINE D == {s \in SUBSET S : g[s] # h[s]}
<1>1. ASSUME D # {}
      PROVE  FALSE
  <2>1. PICK T \in D : \A U \in D : U \subseteq T => U = T
    <3>1. D \subseteq SUBSET S
      OBVIOUS
    <3> HIDE DEF D
    <3> QED
      BY <1>1, <3>1, SmallestSubset
  <2>2. /\ g[T] = IF T = {} THEN 0 ELSE f[Pick(T)] + g[T \ {Pick(T)}]
        /\ h[T] = IF T = {} THEN 0 ELSE f[Pick(T)] + h[T \ {Pick(T)}]
    BY <2>1 DEF SumsUp
  <2>3. T # {}
    BY <2>1, <2>2
  <2>4. T \ {Pick(T)} \in SUBSET S /\ T \ {Pick(T)} # T /\ T \ {Pick(T)} \subseteq T
    BY <2>1, <2>3, PickIn
  <2>5. T \ {Pick(T)} \notin D
    BY <2>1, <2>4
  <2>6. g[T \ {Pick(T)}] = h[T \ {Pick(T)}]
    BY <2>4, <2>5
  <2> QED
    BY <2>1, <2>2, <2>6
<1>2. g = [s \in SUBSET S |-> g[s]] /\ h = [s \in SUBSET S |-> h[s]]
  BY DEF SumsUp
<1>3. \A s \in SUBSET S : g[s] = h[s]
  BY <1>1
<1> QED
  BY <1>2, <1>3, Zenon

LEMMA SumsUpExists ==
    ASSUME NEW f, NEW S, IsFiniteSet(S)
    PROVE  \E g : SumsUp(g, f, S)
<1> DEFINE D == {U \in SUBSET S : ~ \E g : SumsUp(g, f, U)}
           The(U) == CHOOSE g : SumsUp(g, f, U)
<1>1. ASSUME D # {}
      PROVE  FALSE
  <2>1. PICK T \in D : \A U \in D : U \subseteq T => U = T
    <3>1. D \subseteq SUBSET S
      OBVIOUS
    <3> HIDE DEF D
    <3> QED
      BY <1>1, <3>1, SmallestSubset
  <2>2. ASSUME NEW U, U \subseteq T, U # T
        PROVE  SumsUp(The(U), f, U)
    <3>1. U \notin D /\ U \in SUBSET S
      BY <2>1, <2>2
    <3> QED
      BY <3>1
  <2> DEFINE Rest(s) == s \ {Pick(s)}
             G == [s \in SUBSET T |->
                      IF s = {} THEN 0 ELSE f[Pick(s)] + The(Rest(s))[Rest(s)]]
  <2>3. ASSUME NEW s \in SUBSET T, s # {}
        PROVE  G[Rest(s)] = The(Rest(s))[Rest(s)]
    <3> DEFINE r == Rest(s)
    <3>1. r \subseteq T /\ r # T /\ IsFiniteSet(r) /\ Pick(s) \in s
      BY <2>1, <2>3, PickIn, FS_Subset
    <3>2. SumsUp(The(r), f, r)
      BY <2>2, <3>1
    <3>3. The(r)[r] = IF r = {} THEN 0 ELSE f[Pick(r)] + The(r)[Rest(r)]
      <4>1. r \in SUBSET r
        OBVIOUS
      <4> HIDE DEF r
      <4> QED
        BY <3>2, <4>1 DEF SumsUp
    <3>4. CASE r = {}
      BY <3>1, <3>3, <3>4
    <3>5. CASE r # {}
      <4> DEFINE q == Rest(r)
      <4>1. Pick(r) \in r
        BY <3>5, PickIn
      <4>2. q \subseteq r /\ q \subseteq T /\ q # T /\ IsFiniteSet(q)
        BY <3>1, <4>1, FS_Subset
      <4>3. SumsUp(The(q), f, q)
        BY <2>2, <4>2
      <4>4. SumsUp([u \in SUBSET q |-> The(r)[u]], f, q)
        BY <3>2, <4>2, SumsUpRestricts
      <4>5. The(q) = [u \in SUBSET q |-> The(r)[u]]
        BY <4>2, <4>3, <4>4, SumsUpUnique
      <4>6. The(q)[q] = The(r)[q]
        <5> DEFINE F == [u \in SUBSET q |-> The(r)[u]]
        <5>1. q \in SUBSET q
          OBVIOUS
        <5>2. F[q] = The(r)[q]
          BY <5>1
        <5> QED
          BY <4>5, <5>2
      <4>7. G[r] = f[Pick(r)] + The(q)[q]
        BY <3>1, <3>5
      <4> QED
        BY <3>3, <3>5, <4>6, <4>7
    <3> QED
      BY <3>4, <3>5
  <2>4. SumsUp(G, f, T)
    <3>1. ASSUME NEW s \in SUBSET T
          PROVE  G[s] = IF s = {} THEN 0 ELSE f[Pick(s)] + G[Rest(s)]
      <4>1. CASE s = {}
        BY <4>1
      <4>2. CASE s # {}
        <5>1. G[s] = f[Pick(s)] + The(Rest(s))[Rest(s)]
          BY <4>2
        <5>2. G[Rest(s)] = The(Rest(s))[Rest(s)]
          BY <2>3, <4>2
        <5> HIDE DEF G, Rest, The
        <5> QED
          BY <4>2, <5>1, <5>2
      <4> QED
        BY <4>1, <4>2
    <3>2. G = [s \in SUBSET T |-> G[s]]
      OBVIOUS
    <3> HIDE DEF G
    <3> QED
      BY <3>1, <3>2 DEF SumsUp
  <2> QED
    BY <2>1, <2>4
<1>2. S \notin D
  BY <1>1
<1> QED
  BY <1>2

LEMMA SumStep ==
    ASSUME NEW f, NEW S, IsFiniteSet(S)
    PROVE  /\ SumFunctionOnSet(f, {}) = 0
           /\ S # {} => SumFunctionOnSet(f, S)
                          = f[Pick(S)] + SumFunctionOnSet(f, S \ {Pick(S)})
<1> DEFINE Sums(T) == CHOOSE g : SumsUp(g, f, T)
<1>1. ASSUME NEW T
      PROVE  SumFunctionOnSet(f, T) = Sums(T)[T]
  BY DEF SumFunctionOnSet, FoldFunctionOnSet, MapThenFoldSet, SumsUp, Pick
<1> HIDE DEF Sums
<1>2. ASSUME NEW T, IsFiniteSet(T)
      PROVE  SumsUp(Sums(T), f, T)
  BY <1>2, SumsUpExists DEF Sums
<1>3. SumFunctionOnSet(f, {}) = 0
  <2>1. SumsUp(Sums({}), f, {})
    BY <1>2, FS_EmptySet
  <2>2. Sums({})[{}] = 0
    BY <2>1 DEF SumsUp
  <2> QED
    BY <1>1, <2>2
<1>4. ASSUME S # {}
      PROVE  SumFunctionOnSet(f, S)
                = f[Pick(S)] + SumFunctionOnSet(f, S \ {Pick(S)})
  <2> DEFINE R == S \ {Pick(S)}
  <2>1. R \subseteq S /\ IsFiniteSet(R) /\ R \in SUBSET R
    BY FS_Subset
  <2>2. SumsUp(Sums(S), f, S) /\ SumsUp(Sums(R), f, R)
    BY <1>2, <2>1
  <2>3. SumsUp([s \in SUBSET R |-> Sums(S)[s]], f, R)
    BY <2>1, <2>2, SumsUpRestricts
  <2>4. Sums(R) = [s \in SUBSET R |-> Sums(S)[s]]
    BY <2>1, <2>2, <2>3, SumsUpUnique
  <2>5. Sums(R)[R] = Sums(S)[R]
    <3> DEFINE F == [s \in SUBSET R |-> Sums(S)[s]]
    <3>1. F[R] = Sums(S)[R]
      BY <2>1
    <3> QED
      BY <2>4, <3>1
  <2>6. Sums(S)[S] = f[Pick(S)] + Sums(S)[R]
    BY <1>4, <2>2 DEF SumsUp
  <2> QED
    BY <1>1, <2>5, <2>6
<1> QED
  BY <1>3, <1>4

LEMMA SumBounds ==
    ASSUME NEW S, IsFiniteSet(S), NEW f \in [S -> Nat]
    PROVE  /\ SumFunction(f) \in Nat
           /\ \A u \in S : f[u] <= SumFunction(f)
<1> DEFINE Good(T) == /\ SumFunctionOnSet(f, T) \in Nat
                      /\ \A u \in T : f[u] <= SumFunctionOnSet(f, T)
           D == {T \in SUBSET S : ~ Good(T)}
<1>1. ASSUME D # {}
      PROVE  FALSE
  <2>1. PICK T \in D : \A U \in D : U \subseteq T => U = T
    <3>1. D \subseteq SUBSET S
      OBVIOUS
    <3> HIDE DEF D
    <3> QED
      BY <1>1, <3>1, SmallestSubset
  <2> DEFINE x == Pick(T)
             R == T \ {x}
  <2>2. IsFiniteSet(T)
    BY <2>1, FS_Subset
  <2>3. CASE T = {}
    <3>1. SumFunctionOnSet(f, T) = 0
      BY <2>2, <2>3, SumStep
    <3> QED
      BY <2>1, <2>3, <3>1
  <2>4. CASE T # {}
    <3>1. x \in T /\ x \in S /\ f[x] \in Nat
      BY <2>1, <2>4, PickIn
    <3>2. R \in SUBSET S /\ R \subseteq T /\ R # T
      BY <2>1, <3>1
    <3>3. Good(R)
      BY <2>1, <3>2
    <3>4. SumFunctionOnSet(f, T) = f[x] + SumFunctionOnSet(f, R)
      BY <2>2, <2>4, SumStep
    <3>5. ASSUME NEW u \in T
          PROVE  f[u] <= SumFunctionOnSet(f, T)
      <4>1. f[u] \in Nat
        BY <2>1
      <4> HIDE DEF x
      <4>2. CASE u = x
        BY <3>1, <3>3, <3>4, <4>2
      <4>3. CASE u # x
        <5>1. f[u] <= SumFunctionOnSet(f, R)
          BY <3>3, <4>3
        <5> HIDE DEF R
        <5> QED
          BY <3>1, <3>3, <3>4, <4>1, <5>1
      <4> QED
        BY <4>2, <4>3
    <3>6. SumFunctionOnSet(f, T) \in Nat
      <4> HIDE DEF x, R
      <4> QED
        BY <3>1, <3>3, <3>4
    <3> QED
      BY <2>1, <3>5, <3>6
  <2> QED
    BY <2>3, <2>4
<1>2. Good(S)
  BY <1>1
<1> QED
  BY <1>2 DEF SumFunction

(* Nothing adds up to nothing.                                             *)
LEMMA SumOfZeros ==
    ASSUME NEW S, IsFiniteSet(S)
    PROVE  SumFunction([u \in S |-> 0]) = 0
<1> DEFINE f == [u \in S |-> 0]
           D == {T \in SUBSET S : SumFunctionOnSet(f, T) # 0}
<1>1. ASSUME D # {}
      PROVE  FALSE
  <2>1. PICK T \in D : \A U \in D : U \subseteq T => U = T
    <3>1. D \subseteq SUBSET S
      OBVIOUS
    <3> HIDE DEF D
    <3> QED
      BY <1>1, <3>1, SmallestSubset
  <2>2. IsFiniteSet(T) /\ T \subseteq S
    BY <2>1, FS_Subset
  <2>3. T # {} /\ SumFunctionOnSet(f, T) = f[Pick(T)] + SumFunctionOnSet(f, T \ {Pick(T)})
    BY <2>1, <2>2, SumStep
  <2>4. Pick(T) \in T /\ f[Pick(T)] = 0
    BY <2>2, <2>3, PickIn
  <2>5. SumFunctionOnSet(f, T \ {Pick(T)}) = 0
    BY <2>1, <2>2, <2>4
  <2> QED
    BY <2>1, <2>3, <2>4, <2>5
<1>2. SumFunctionOnSet(f, S) = 0 /\ DOMAIN f = S
  BY <1>1
<1> QED
  BY <1>2 DEF SumFunction

(* Changing one value changes the sum by as much.                          *)
LEMMA SumUpdate ==
    ASSUME NEW S, IsFiniteSet(S), NEW f \in [S -> Nat], NEW u \in S, NEW v \in Nat
    PROVE  SumFunction([f EXCEPT ![u] = v]) = SumFunction(f) + v - f[u]
<1> DEFINE h == [f EXCEPT ![u] = v]
           Shift(T) == IF u \in T THEN v - f[u] ELSE 0
           Good(T) == /\ SumFunctionOnSet(f, T) \in Int
                      /\ SumFunctionOnSet(h, T) = SumFunctionOnSet(f, T) + Shift(T)
           D == {T \in SUBSET S : ~ Good(T)}
<1>1. h \in [S -> Nat] /\ h[u] = v /\ \A w \in S : w # u => h[w] = f[w]
  OBVIOUS
<1> HIDE DEF h
<1>2. ASSUME D # {}
      PROVE  FALSE
  <2>1. PICK T \in D : \A U \in D : U \subseteq T => U = T
    <3>1. D \subseteq SUBSET S
      OBVIOUS
    <3> HIDE DEF D
    <3> QED
      BY <1>2, <3>1, SmallestSubset
  <2> DEFINE x == Pick(T)
             R == T \ {x}
  <2>2. IsFiniteSet(T)
    BY <2>1, FS_Subset
  <2>3. CASE T = {}
    <3>1. SumFunctionOnSet(f, T) = 0 /\ SumFunctionOnSet(h, T) = 0
      BY <2>2, <2>3, SumStep
    <3> QED
      BY <2>1, <2>3, <3>1
  <2>4. CASE T # {}
    <3>1. x \in T /\ x \in S /\ f[x] \in Nat /\ h[x] \in Nat /\ f[u] \in Nat
      BY <1>1, <2>1, <2>4, PickIn
    <3>2. R \in SUBSET S /\ R \subseteq T /\ R # T
      BY <2>1, <3>1
    <3>3. Good(R)
      BY <2>1, <3>2
    <3>4. /\ SumFunctionOnSet(f, T) = f[x] + SumFunctionOnSet(f, R)
          /\ SumFunctionOnSet(h, T) = h[x] + SumFunctionOnSet(h, R)
      BY <2>2, <2>4, SumStep
    <3> HIDE DEF x
    <3>5. CASE u = x
      <4>1. Shift(R) = 0 /\ Shift(T) = v - f[u] /\ h[x] = v
        BY <1>1, <3>1, <3>5
      <4> HIDE DEF R, Shift
      <4>2. Good(T)
        BY <3>1, <3>3, <3>4, <3>5, <4>1
      <4> QED
        BY <2>1, <4>2
    <3>6. CASE u # x
      <4>1. Shift(R) = Shift(T) /\ Shift(T) \in Int /\ h[x] = f[x]
        BY <1>1, <3>1, <3>6
      <4> HIDE DEF R, Shift
      <4>2. Good(T)
        BY <3>1, <3>3, <3>4, <4>1
      <4> QED
        BY <2>1, <4>2
    <3> QED
      BY <3>5, <3>6
  <2> QED
    BY <2>3, <2>4
<1>3. Good(S)
  BY <1>2
<1>4. f[u] \in Nat /\ DOMAIN h = S /\ DOMAIN f = S
  BY <1>1
<1> HIDE DEF D
<1>5. SumFunctionOnSet(h, S) = SumFunctionOnSet(f, S) + v - f[u]
  BY <1>3, <1>4
<1> QED
  BY <1>4, <1>5 DEF SumFunction, h

-----------------------------------------------------------------------------
(* What a liquidation takes from a position.                               *)

LEMMA CollateralValueType ==
    ASSUME NEW coll \in Nat, NEW rate \in Nat \ {0}
    PROVE  CollateralInAsset(coll, rate) \in Nat
<1> USE PrecisionAssumption
<1>1. ToAmount(ShareRatio, coll) \in Nat
  BY DivFacts DEF ToAmount
<1>2. ToAmount(ShareRatio, coll) * EXCHANGE_RATE_PRECISION \in Nat
  BY <1>1, SMT
<1> QED
  BY <1>2, DivFacts DEF CollateralInAsset

LEMMA BorrowedType ==
    ASSUME NEW part \in Nat, NEW tb, SoundDebt(tb), tb.base # 0
    PROVE  BorrowedAmount(part, tb) \in Nat /\ ToElasticUp(tb, part) \in Nat
<1>1. tb.base \in Nat \ {0} /\ tb.elastic \in Nat
  BY DEF SoundDebt
<1>2. part * tb.elastic \in Nat
  BY <1>1, SMT
<1> QED
  BY <1>1, <1>2, DivFacts, CeilDivFacts DEF BorrowedAmount, ToElasticUp

LEMMA ClosingFactorType ==
    ASSUME NEW borrowed \in Nat, NEW inAsset \in Nat,
           ClosingFactorDefined(borrowed, inAsset)
    PROVE  ClosingFactor(borrowed, inAsset) \in Nat
<1> DEFINE startsAt == LiquidationStartsAt(inAsset)
           denominator == IF ClosingDenominator > 0 THEN ClosingDenominator
                                                    ELSE - ClosingDenominator
           factor == ((borrowed - startsAt) * FEE_PRECISION) \div denominator
<1> USE PrecisionAssumption, RatesAssumption
<1>1. startsAt \in Nat
  <2>1. inAsset * liquidationCollateralizationRate \in Nat
    BY SMT
  <2> QED
    BY <2>1, DivFacts DEF LiquidationStartsAt
<1>2. ClosingDenominator \in Int
  <2>1. liquidationCollateralizationRate * (FEE_PRECISION + liquidationMultiplier) \in Nat
    BY SMT
  <2> QED
    BY <2>1, DivFacts DEF ClosingDenominator
<1>3. CASE borrowed < startsAt
  BY <1>3 DEF ClosingFactor
<1>4. CASE ~(borrowed < startsAt)
  <2>1. ClosingDenominator # 0
    BY <1>1, <1>4 DEF ClosingFactorDefined
  <2>2. denominator \in Nat \ {0}
    BY <1>2, <2>1
  <2>3. (borrowed - startsAt) * FEE_PRECISION \in Nat
    BY <1>1, <1>4, SMT
  <2>4. factor \in Nat
    BY <2>2, <2>3, DivFacts
  <2>5. ClosingFactor(borrowed, inAsset) = Least(factor, borrowed)
    BY <1>4 DEF ClosingFactor
  <2> QED
    BY <2>4, <2>5 DEF Least
<1> QED
  BY <1>3, <1>4

LEMMA LiquidationTakes ==
    ASSUME NEW coll \in Nat, NEW part \in Nat, NEW tb, SoundDebt(tb),
           NEW rate \in Nat \ {0}, NEW max \in Nat, NEW bonus \in Nat,
           MayLiquidate(coll, part, tb, rate, max, bonus)
    PROVE  LET amount == LiquidatedAmount(coll, part, tb, rate, max)
               share  == LiquidatedShare(coll, rate, amount)
           IN  /\ tb.base # 0
               /\ amount \in Nat
               /\ share \in Nat /\ share <= coll
<1> DEFINE inAsset == CollateralInAsset(coll, rate)
           borrowed == BorrowedAmount(part, tb)
           amount == LiquidatedAmount(coll, part, tb, rate, max)
           share  == LiquidatedShare(coll, rate, amount)
<1> USE PrecisionAssumption, RatesAssumption
<1>1. tb.base # 0 /\ ClosingFactorDefined(borrowed, inAsset)
  BY DEF MayLiquidate
<1>2. inAsset \in Nat /\ borrowed \in Nat /\ ToElasticUp(tb, part) \in Nat
  BY <1>1, CollateralValueType, BorrowedType
<1>3. ClosingFactor(borrowed, inAsset) \in Nat
  BY <1>1, <1>2, ClosingFactorType
<1>4. amount \in Nat
  BY <1>2, <1>3 DEF LiquidatedAmount, Liquidatable, Least
<1>5. CASE BonusCovered(coll, rate, amount)
  <2>1. amount * liquidationBonusAmount \in Nat
    BY <1>4, SMT
  <2>2. AmountWithBonus(amount) \in Nat
    BY <1>4, <2>1, DivFacts DEF AmountWithBonus
  <2>3. AmountWithBonus(amount) * rate \in Nat
    BY <2>2, SMT
  <2>4. (AmountWithBonus(amount) * rate) \div EXCHANGE_RATE_PRECISION \in Nat
    BY <2>3, DivFacts
  <2>5. share = ((AmountWithBonus(amount) * rate) \div EXCHANGE_RATE_PRECISION) * ShareRatio
    BY <1>5 DEF LiquidatedShare, ToShare
  <2>6. share \in Nat
    BY <2>4, <2>5, SMT
  <2>7. share <= coll
    BY <1>5 DEF MayLiquidate
  <2> QED
    BY <1>1, <1>4, <2>6, <2>7
<1>6. CASE ~BonusCovered(coll, rate, amount)
  BY <1>1, <1>4, <1>6 DEF LiquidatedShare
<1> QED
  BY <1>5, <1>6

(* The liquidator is never rewarded more than the whole profit.            *)
LEMMA RewardIsAFraction ==
    ASSUME NEW coll \in Nat, NEW part \in Nat, NEW tb, SoundDebt(tb), tb.base # 0,
           NEW rate \in Nat \ {0}
    PROVE  CallerReward(coll, part, tb, rate) \in 0..FEE_PRECISION
<1> DEFINE maxTVL == CollateralInAsset(coll, rate)
           startTVL == (maxTVL * collateralizationRate) \div FEE_PRECISION
           borrowed == BorrowedAmount(part, tb)
           spread == maxLiquidatorReward - minLiquidatorReward
           percentage == ((borrowed - startTVL) * FEE_PRECISION) \div (maxTVL - startTVL)
           cut == (spread * percentage) \div FEE_PRECISION
<1> USE PrecisionAssumption, RatesAssumption
<1>1. maxTVL \in Nat /\ borrowed \in Nat
  BY CollateralValueType, BorrowedType
<1>2. startTVL \in Nat
  <2>1. maxTVL * collateralizationRate \in Nat
    BY <1>1, SMT
  <2> QED
    BY <2>1, DivFacts
<1>3. CASE part = 0 \/ startTVL = 0 \/ borrowed < startTVL \/ borrowed >= maxTVL
  BY <1>1, <1>2, <1>3 DEF CallerReward
<1>4. CASE /\ part # 0 /\ startTVL # 0
           /\ ~(borrowed < startTVL) /\ ~(borrowed >= maxTVL)
  <2>1. maxTVL - startTVL \in Nat \ {0}
        /\ borrowed - startTVL \in Nat /\ borrowed - startTVL <= maxTVL - startTVL
    BY <1>1, <1>2, <1>4
  <2>2. (borrowed - startTVL) * FEE_PRECISION \in Nat
        /\ (borrowed - startTVL) * FEE_PRECISION <= FEE_PRECISION * (maxTVL - startTVL)
    BY <2>1, SMT
  <2>3. percentage \in Nat
    BY <2>1, <2>2, DivFacts
  <2>4. percentage <= FEE_PRECISION
    <3>1. percentage * (maxTVL - startTVL) <= FEE_PRECISION * (maxTVL - startTVL)
      BY <2>1, <2>2, <2>3, DivFacts, SMT
    <3> QED
      BY <2>1, <2>3, <3>1, CancelProduct
  <2>5. spread \in Nat /\ spread * percentage \in Nat
        /\ spread * percentage <= spread * FEE_PRECISION
    BY <2>3, <2>4, SMT
  <2>6. cut \in Nat /\ FEE_PRECISION * cut <= spread * percentage
    BY <2>5, DivFacts
  <2>7. cut <= spread
    <3>1. cut * FEE_PRECISION <= spread * FEE_PRECISION
      BY <2>5, <2>6, SMT
    <3> QED
      BY <2>5, <2>6, <3>1, CancelProduct
  <2>8. CallerReward(coll, part, tb, rate) = maxLiquidatorReward - cut
    BY <1>4 DEF CallerReward
  <2> QED
    BY <2>5, <2>6, <2>7, <2>8
<1> QED
  BY <1>3, <1>4

LEMMA CallerAmountAtMost ==
    ASSUME NEW profit \in Nat, NEW reward \in 0..FEE_PRECISION
    PROVE  CallerAmount(profit, reward) \in Nat /\ CallerAmount(profit, reward) <= profit
<1> USE PrecisionAssumption
<1> DEFINE all == profit * ShareRatio
           cut == (all * reward) \div FEE_PRECISION
<1>1. all \in Nat /\ all * reward \in Nat /\ all * reward <= all * FEE_PRECISION
  BY SMT
<1>2. cut \in Nat /\ cut * FEE_PRECISION <= all * reward
  BY <1>1, DivFacts, SMT
<1>3. cut * FEE_PRECISION <= all * FEE_PRECISION
  BY <1>1, <1>2, SMT
<1>4. cut <= all
  BY <1>1, <1>2, <1>3, CancelProduct
<1>5. CallerAmount(profit, reward) = CeilDiv(cut, ShareRatio)
  BY DEF CallerAmount, ToAmountUp, ToShare
<1> HIDE DEF cut
<1> QED
  BY <1>2, <1>4, <1>5, CeilDivFacts, CeilDivAtMost

(* YieldBox pays whole units: at most the shares it is given.              *)
LEMMA SoldAtMost ==
    ASSUME NEW share \in Nat
    PROVE  /\ ToShare(ShareRatio, ToAmount(ShareRatio, share)) \in Nat
           /\ ToShare(ShareRatio, ToAmount(ShareRatio, share)) <= share
<1>1. /\ share \div ShareRatio \in Nat
      /\ ShareRatio * (share \div ShareRatio) <= share
  BY PrecisionAssumption, DivFacts
<1>2. (share \div ShareRatio) * ShareRatio \in Nat
      /\ (share \div ShareRatio) * ShareRatio <= share
  BY <1>1, PrecisionAssumption, SMT
<1> QED
  BY <1>2 DEF ToShare, ToAmount

-----------------------------------------------------------------------------
(* What keeps a position solvent, and what a solvent one is safe from.     *)

LEMMA QuotientMonotone ==
    ASSUME NEW a \in Nat, NEW b \in Nat \ {0}, NEW c \in Nat, NEW d \in Nat \ {0},
           a * d <= c * b
    PROVE  a \div b <= c \div d
<1> DEFINE q == a \div b
           r == c \div d
<1>1. q \in Nat /\ b * q <= a /\ r \in Nat /\ c < d * r + d
  BY DivFacts
<1> HIDE DEF q, r
<1>2. (b * q) * d <= a * d
  BY <1>1, ProductMonotone
<1>3. c + 1 <= d * r + d
  BY <1>1, SMT
<1>4. (c + 1) * b <= (d * r + d) * b
  BY <1>1, <1>3, ProductMonotone
<1>5. q * (b * d) < (r + 1) * (b * d)
  BY <1>1, <1>2, <1>4, SMT
<1>6. b * d \in Nat \ {0}
  BY SMT
<1>7. q < r + 1
  BY <1>1, <1>5, <1>6, CancelProduct
<1> QED
  BY <1>1, <1>7 DEF q, r

(* More collateral, fewer parts and parts no dearer: as solvent as before. *)
LEMMA StaysSolvent ==
    ASSUME NEW cr \in Nat, NEW rate \in Nat \ {0},
           NEW coll \in Nat, NEW part \in Nat, NEW tb, SoundDebt(tb),
           NEW coll2 \in Nat, NEW part2 \in Nat, NEW tb2, SoundDebt(tb2),
           coll <= coll2, part2 <= part, part2 <= tb2.base, NoDearer(tb2, tb),
           IsSolvent(cr, coll, part, tb, rate)
    PROVE  IsSolvent(cr, coll2, part2, tb2, rate)
<1> DEFINE K == EXCHANGE_RATE_PRECISION \div FEE_PRECISION
           a == ToAmount(ShareRatio, coll)
           a2 == ToAmount(ShareRatio, coll2)
           owed == (part * tb.elastic * rate) \div tb.base
           owed2 == (part2 * tb2.elastic * rate) \div tb2.base
<1> USE PrecisionAssumption
<1>1. CASE part2 = 0
  BY <1>1 DEF IsSolvent
<1>2. CASE part2 # 0
  <2>1. /\ part # 0 /\ coll # 0 /\ tb.base # 0 /\ a * K * cr >= owed
        /\ tb.elastic \in Nat /\ tb.base \in Nat /\ tb2.elastic \in Nat /\ tb2.base \in Nat
    BY <1>2 DEF IsSolvent, SoundDebt
  <2>2. coll2 # 0 /\ tb2.base # 0
    BY <1>2, <2>1
  <2>3. a \in Nat /\ a2 \in Nat /\ a <= a2
    <3>1. coll * ShareRatio <= coll2 * ShareRatio
      BY ProductMonotone
    <3> QED
      BY <3>1, DivFacts, QuotientMonotone DEF ToAmount
  <2>4. a * K * cr <= a2 * K * cr
    <3>1. K \in Nat /\ K * cr \in Nat
      BY SMT
    <3>2. a * (K * cr) <= a2 * (K * cr)
      BY <2>3, <3>1, ProductMonotone
    <3> HIDE DEF K, a, a2
    <3> QED
      BY <2>3, <3>1, <3>2, SMT
  <2>5. owed2 <= owed
    <3> DEFINE e == tb.elastic
               b == tb.base
               e2 == tb2.elastic
               b2 == tb2.base
    <3>1. e \in Nat /\ b \in Nat \ {0} /\ e2 \in Nat /\ b2 \in Nat \ {0}
      BY <2>1, <2>2
    <3>2. e2 * b <= e * b2
      BY DEF NoDearer
    <3> HIDE DEF e, b, e2, b2
    <3>3. /\ part * e * rate \in Nat /\ part2 * e2 * rate \in Nat
          /\ part2 * rate \in Nat /\ part * rate \in Nat
          /\ e2 * b \in Nat /\ e * b2 \in Nat
      BY <3>1, SMT
    <3>4. part2 * rate <= part * rate
      BY ProductMonotone
    <3>5. (e2 * b) * (part2 * rate) <= (e * b2) * (part2 * rate)
      BY <3>2, <3>3, ProductMonotone
    <3>6. (part2 * rate) * (e * b2) <= (part * rate) * (e * b2)
      BY <3>3, <3>4, ProductMonotone
    <3>7. (part2 * e2 * rate) * b <= (part * e * rate) * b2
      <4>1. (part2 * e2 * rate) * b = (e2 * b) * (part2 * rate)
        BY <3>1, SMT
      <4>2. (part * e * rate) * b2 = (part * rate) * (e * b2)
        BY <3>1, SMT
      <4>3. (e * b2) * (part2 * rate) = (part2 * rate) * (e * b2)
        BY <3>3, SMT
      <4>4. /\ (e2 * b) * (part2 * rate) \in Nat /\ (part2 * rate) * (e * b2) \in Nat
            /\ (part * rate) * (e * b2) \in Nat
        BY <3>3, SMT
      <4> QED
        BY <3>5, <3>6, <4>1, <4>2, <4>3, <4>4
    <3>8. (part2 * e2 * rate) \div b2 <= (part * e * rate) \div b
      BY <3>1, <3>3, <3>7, QuotientMonotone
    <3> QED
      BY <3>8 DEF e, b, e2, b2
  <2>6. owed \in Nat /\ owed2 \in Nat /\ a * K * cr \in Nat /\ a2 * K * cr \in Nat
    <3>1. part * tb.elastic * rate \in Nat /\ part2 * tb2.elastic * rate \in Nat
      BY <2>1, SMT
    <3> HIDE DEF a, a2
    <3> QED
      BY <2>1, <2>2, <2>3, <3>1, DivFacts, SMT
  <2>7. a2 * K * cr >= owed2
    <3> HIDE DEF K, a, a2, owed, owed2
    <3> QED
      BY <2>1, <2>4, <2>5, <2>6
  <2> QED
    BY <2>2, <2>7 DEF IsSolvent
<1> QED
  BY <1>1, <1>2

(* A position that may be liquidated is above the lower rate too.          *)
LEMMA LiquidatableIsInsolvent ==
    ASSUME NEW coll \in Nat, NEW part \in Nat, NEW tb, NEW rate,
           SoundDebt(tb), rate \in Nat \ {0},
           IsSolvent(collateralizationRate, coll, part, tb, rate)
    PROVE  IsSolvent(liquidationCollateralizationRate, coll, part, tb, rate)
<1> DEFINE K == EXCHANGE_RATE_PRECISION \div FEE_PRECISION
           a == ToAmount(ShareRatio, coll)
           owed == (part * tb.elastic * rate) \div tb.base
<1> USE PrecisionAssumption, RatesAssumption
<1>1. CASE part = 0
  BY <1>1 DEF IsSolvent
<1>2. CASE part # 0
  <2>1. coll # 0 /\ tb.base # 0 /\ a * K * collateralizationRate >= owed
    BY <1>2 DEF IsSolvent
  <2>2. a \in Nat /\ K \in Nat /\ tb.elastic \in Nat /\ tb.base \in Nat \ {0}
    BY <2>1, DivFacts DEF ToAmount, SoundDebt
  <2>3. owed \in Nat
    <3>1. part * tb.elastic * rate \in Nat
      BY <2>2, SMT
    <3> QED
      BY <2>2, <3>1, DivFacts
  <2> HIDE DEF a, K, owed
  <2>4. a * K \in Nat
    BY <2>2, SMT
  <2>5. collateralizationRate * (a * K) <= liquidationCollateralizationRate * (a * K)
    BY <2>4, ProductMonotone
  <2>6. a * K * liquidationCollateralizationRate >= owed
    BY <2>1, <2>3, <2>4, <2>5, SMT
  <2> QED
    BY <2>1, <2>6 DEF IsSolvent, a, K, owed
<1> QED
  BY <1>1, <1>2

LEMMA RequiredCollateralType ==
    ASSUME NEW part \in Nat, NEW tb, NEW rate \in Nat \ {0}, SoundDebt(tb)
    PROVE  RequiredCollateral(part, tb, rate) \in Nat
<1> DEFINE amount == ToElasticDown(tb, part)
           bonus == amount + (amount * liquidationMultiplier) \div FEE_PRECISION
<1> USE PrecisionAssumption, RatesAssumption
<1>1. amount \in Nat
  <2>1. part * tb.elastic \in Nat /\ tb.base \in Nat
    BY SMT DEF SoundDebt
  <2> QED
    BY <2>1, DivFacts DEF ToElasticDown
<1> HIDE DEF amount
<1>2. bonus \in Nat
  <2>1. amount * liquidationMultiplier \in Nat
    BY <1>1, SMT
  <2> QED
    BY <1>1, <2>1, DivFacts
<1> HIDE DEF bonus
<1>3. (bonus * rate) \div EXCHANGE_RATE_PRECISION \in Nat
  <2>1. bonus * rate \in Nat
    BY <1>2, SMT
  <2> QED
    BY <2>1, DivFacts
<1>4. ((bonus * rate) \div EXCHANGE_RATE_PRECISION) * ShareRatio \in Nat
  BY <1>3, SMT
<1> QED
  BY <1>4 DEF RequiredCollateral, ToShare, bonus, amount

(* The collateral that liquidateBadDebt requires of a solvent position is  *)
(* less than it has.                                                       *)
LEMMA SolventCoversBonus ==
    ASSUME BadDebtThresholdAboveCR,
           NEW coll \in Nat, NEW part \in Nat \ {0}, NEW tb, NEW rate \in Nat \ {0},
           SoundDebt(tb), IsSolvent(collateralizationRate, coll, part, tb, rate)
    PROVE  RequiredCollateral(part, tb, rate) < coll
<1> DEFINE F == FEE_PRECISION
           E == EXCHANGE_RATE_PRECISION
           K == E \div F
           a == coll \div ShareRatio
           owed == part * tb.elastic
           amount == owed \div tb.base
           m == F + liquidationMultiplier
           fee == (amount * liquidationMultiplier) \div F
           bonus == amount + fee
           q == (bonus * rate) \div E
           value == (owed * rate) \div tb.base
<1> USE PrecisionAssumption, RatesAssumption
<1>1. /\ coll # 0 /\ tb.base \in Nat \ {0} /\ tb.elastic \in Nat \ {0}
      /\ tb.base <= tb.elastic
      /\ a * K * collateralizationRate >= value
  BY DEF IsSolvent, SoundDebt, ToAmount
<1>2. owed \in Nat /\ owed * rate \in Nat /\ tb.base <= owed * rate
  <2>1. tb.base <= tb.elastic * part
    BY <1>1, SMT
  <2>2. owed \in Nat \ {0} /\ owed <= owed * rate
    BY <1>1, SMT
  <2> QED
    BY <1>1, <2>1, <2>2, SMT
<1>3. amount \in Nat /\ tb.base * amount <= owed
  BY <1>1, <1>2, DivFacts
<1>4. value \in Nat /\ owed * rate < tb.base * value + tb.base
  BY <1>1, <1>2, DivFacts
<1>5. a \in Nat /\ coll < ShareRatio * a + ShareRatio
  BY DivFacts
<1>6. m \in Nat /\ collateralizationRate * m < F * F
  BY DEF BadDebtThresholdAboveCR
<1> HIDE DEF a, value, amount
<1>7. value > 0
  BY <1>1, <1>2, <1>4, SMT
<1>8. a > 0
  <2>1. ASSUME a = 0 PROVE FALSE
    <3>1. a * K * collateralizationRate = 0
      BY <2>1, SMT
    <3> QED
      BY <1>1, <1>4, <1>7, <3>1
  <2> QED
    BY <1>5, <2>1
<1>9. amount * rate <= value
  <2>1. (tb.base * amount) * rate <= owed * rate
    BY <1>1, <1>2, <1>3, ProductMonotone, SMT
  <2>2. (amount * rate) * tb.base < (value + 1) * tb.base
    BY <1>1, <1>2, <1>3, <1>4, <2>1, SMT
  <2>3. amount * rate \in Nat
    BY <1>3, SMT
  <2>4. amount * rate < value + 1
    BY <1>1, <1>4, <2>2, <2>3, CancelProduct
  <2> QED
    BY <1>4, <2>3, <2>4
<1>10. fee \in Nat /\ F * fee <= amount * liquidationMultiplier
  <2>1. amount * liquidationMultiplier \in Nat
    BY <1>3, SMT
  <2> QED
    BY <2>1, DivFacts
<1> HIDE DEF fee
<1>11. bonus \in Nat /\ F * bonus <= amount * m
  BY <1>3, <1>10, SMT
<1> HIDE DEF bonus, m
<1>12. q \in Nat /\ E * q <= bonus * rate
  <2>1. bonus * rate \in Nat
    BY <1>11, SMT
  <2> QED
    BY <2>1, DivFacts
<1> HIDE DEF q
<1>13. q < a
  <2>1. (F * E) * q <= (value * m)
    <3>1. F * (E * q) <= F * (bonus * rate)
      BY <1>11, <1>12, SMT
    <3>2. (F * bonus) * rate <= (amount * m) * rate
      BY <1>3, <1>6, <1>11, ProductMonotone, SMT
    <3>3. (amount * rate) * m <= value * m
      BY <1>3, <1>4, <1>6, <1>9, ProductMonotone, SMT
    <3>4. F * (bonus * rate) = (F * bonus) * rate
      BY <1>11, SMT
    <3>5. (amount * m) * rate = (amount * rate) * m
      BY <1>3, <1>6, SMT
    <3>6. F * (E * q) = (F * E) * q
      BY <1>12, SMT
    <3>7. /\ F * (E * q) \in Nat /\ (F * bonus) * rate \in Nat
          /\ (amount * rate) * m \in Nat /\ value * m \in Nat
      BY <1>3, <1>4, <1>6, <1>11, <1>12, SMT
    <3> QED
      BY <3>1, <3>2, <3>3, <3>4, <3>5, <3>6, <3>7
  <2>2. value * m <= (a * K) * (collateralizationRate * m)
    <3>1. a * K * collateralizationRate \in Nat
      BY <1>5, SMT
    <3>2. value * m <= (a * K * collateralizationRate) * m
      BY <1>1, <1>4, <1>6, <3>1, ProductMonotone
    <3>3. K \in Nat
      OBVIOUS
    <3> HIDE DEF K
    <3>4. (a * K * collateralizationRate) * m = (a * K) * (collateralizationRate * m)
      BY <1>5, <1>6, <3>3, SMT
    <3> QED
      BY <3>2, <3>4
  <2>3. (a * K) * (collateralizationRate * m) < (a * K) * (F * F)
    <3>1. a * K \in Nat \ {0} /\ collateralizationRate * m \in Nat /\ F * F \in Nat
      BY <1>5, <1>6, <1>8, SMT
    <3> HIDE DEF K, F
    <3> QED
      BY <1>6, <3>1, SMT
  <2>4. (a * K) * (F * F) = a * (F * E)
    <3>1. E = F * K /\ K \in Nat
      OBVIOUS
    <3> HIDE DEF K, F, E
    <3>2. F \in Nat
      BY DEF F
    <3> QED
      BY <1>5, <3>1, <3>2, SMT
  <2>5. q * (F * E) < a * (F * E)
    <3>1. /\ (F * E) * q = q * (F * E)
          /\ q * (F * E) \in Nat /\ value * m \in Nat /\ a * (F * E) \in Nat
          /\ (a * K) * (collateralizationRate * m) \in Nat
      BY <1>4, <1>5, <1>6, <1>12, SMT
    <3> QED
      BY <2>1, <2>2, <2>3, <2>4, <3>1
  <2>6. F * E \in Nat \ {0}
    BY SMT
  <2> HIDE DEF F, E
  <2> QED
    BY <1>5, <1>12, <2>5, <2>6, CancelProduct
<1>14. q * ShareRatio < coll
  <2>1. ShareRatio * a <= coll
    BY DivFacts DEF a
  <2>2. q * ShareRatio < a * ShareRatio
    BY <1>5, <1>12, <1>13, SMT
  <2> QED
    BY <1>5, <1>12, <2>1, <2>2, SMT
<1>15. RequiredCollateral(part, tb, rate) = q * ShareRatio
  BY <1>1 DEF RequiredCollateral, ToElasticDown, ToShare, q, bonus, fee, amount
<1> QED
  BY <1>14, <1>15
=============================================================================
