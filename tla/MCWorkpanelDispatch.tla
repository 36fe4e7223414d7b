-------------------------- MODULE MCWorkpanelDispatch --------------------------
(* Instances of WorkpanelDispatch for TLC. *)
EXTENDS WorkpanelDispatch

CONSTANTS d1, r1, r2, e1, e2
================================================================================
