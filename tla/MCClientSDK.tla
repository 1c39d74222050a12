---------------------------- MODULE MCClientSDK ----------------------------
(* Instances of ClientSDK for TLC. *)
EXTENDS ClientSDK, TLC

CONSTANTS m1, m2

Limits == {0, 2, Infinity}
=============================================================================
