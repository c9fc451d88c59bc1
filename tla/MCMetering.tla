----------------------------- MODULE MCMetering -----------------------------
(* Instances of Metering for TLC.                                           *)
EXTENDS Metering, TLC

(* Requests run the same code: permuting them changes nothing a safety      *)
(* property can see.                                                        *)
Symmetry == Permutations(Requests)
=============================================================================
