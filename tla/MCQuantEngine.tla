---------------------------- MODULE MCQuantEngine ----------------------------
(* Instance of QuantEngine for TLC: the values of the set constants.        *)
EXTENDS QuantEngine

MCVols == {2, 5}
MCTargets == {2, 3}
MCOiParts == {-1, 3}
MCTimes == {1, 2}
=============================================================================
