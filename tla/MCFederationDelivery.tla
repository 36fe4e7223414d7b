-------------------------- MODULE MCFederationDelivery --------------------------
(* Instances of FederationDelivery for TLC. *)
EXTENDS FederationDeliveryRefinement, TLC

CONSTANTS m1, f1, f2

FlushSymmetry == Permutations(Flushes)
================================================================================
