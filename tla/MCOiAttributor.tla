--------------------------- MODULE MCOiAttributor ---------------------------
(* Instance of OiAttributor for TLC: the values of the set constants.       *)
EXTENDS OiAttributor

MCQty == {1, 2}
MCOiLevels == {0, 5}
MCTargetRefs == {10, 20}
=============================================================================
