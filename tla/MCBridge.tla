------------------------------ MODULE MCBridge ------------------------------
(* Instances of Bridge for TLC.                                            *)
EXTENDS Bridge, TLC

CONSTANTS x1, x2
TwoTransactions == {x1, x2}
=============================================================================
