---------------------------- MODULE BoringRebase ----------------------------
(***************************************************************************)
(* The integer arithmetic every market is built on.                        *)
(*                                                                         *)
(* RebaseLibrary (boring-solidity) and the YieldBox share conversion are   *)
(* libraries outside src/; they are modelled from how the markets use      *)
(* them.  A Rebase is a pair [elastic, base]: elastic is the amount owed   *)
(* (or held) in tokens, base the number of parts it is divided into.       *)
(***************************************************************************)
EXTENDS Integers

(* Integer division rounded up; the library's `base++` and `elastic++`.    *)
CeilDiv(a, b) == (a + b - 1) \div b

Least(a, b) == IF a <= b THEN a ELSE b

(* A Rebase before the first deposit or loan.                              *)
ZeroRebase == [elastic |-> 0, base |-> 0]

(* Rebase.toBase and Rebase.toElastic, by rounding direction.              *)
ToBaseDown(t, e) ==
    IF t.elastic = 0 THEN e ELSE (e * t.base) \div t.elastic
ToBaseUp(t, e) ==
    IF t.elastic = 0 THEN e ELSE CeilDiv(e * t.base, t.elastic)
ToElasticDown(t, b) ==
    IF t.base = 0 THEN b ELSE (b * t.elastic) \div t.base
ToElasticUp(t, b) ==
    IF t.base = 0 THEN b ELSE CeilDiv(b * t.elastic, t.base)

(* Rebase.add(elastic, true) adds e tokens and the parts they stand for;   *)
(* Rebase.sub(base, true) removes b parts and the tokens they stand for.   *)
RebaseAddUp(t, e) ==
    [elastic |-> t.elastic + e, base |-> t.base + ToBaseUp(t, e)]
RebaseSubUp(t, b) ==
    [elastic |-> t.elastic - ToElasticUp(t, b), base |-> t.base - b]

(* Checked unsigned arithmetic: a subtraction that underflows reverts.     *)
NonNegative(t) == t.elastic >= 0 /\ t.base >= 0

(* A YieldBox asset without a strategy: ratio shares stand for one unit    *)
(* of the token (1e8 in YieldBox), and a fraction of a unit has no amount. *)
ToShare(ratio, amount)    == amount * ratio
ToAmountUp(ratio, share)  == CeilDiv(share, ratio)
ToAmount(ratio, share)    == share \div ratio
=============================================================================
