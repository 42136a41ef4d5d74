---------------------------- MODULE MCHistoryStore ----------------------------
(* HistoryStore with a cap of three buckets, so that eight closes push the   *)
(* cursor out between two flushes, and three stops or crashes.               *)
EXTENDS HistoryStore
===============================================================================
