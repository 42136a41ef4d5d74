----------------------------- MODULE MCDepthStore -----------------------------
(* DepthStore with one price level on each side.                             *)
EXTENDS DepthStore
===============================================================================
