--------------------------- MODULE MCCatchupStream ---------------------------
(* CatchupStream with two timeframes, a cap of three buckets sent one per    *)
(* chunk, and a queue that one catch-up with its frames can fill.            *)
EXTENDS CatchupStream
=============================================================================
