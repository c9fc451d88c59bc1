------------------------------ MODULE MCUnlocks ------------------------------
(* Instances of Unlocks for TLC: which products the transactions bought and  *)
(* which account their appAccountToken names.                                *)
EXTENDS Unlocks, TLC

CONSTANTS t1, t2, t3

(* A bundle bought after both upgrades.                                      *)
BundleAndUpgrades == (t1 :> Bundle) @@ (t2 :> AppleCloudUpgrade) @@ (t3 :> ByokUpgrade)

(* Handlers run the same code.                                               *)
Symmetry == Permutations(Workers)

TokensAnonymous == [t \in Txns |-> Anonymous]
=============================================================================
