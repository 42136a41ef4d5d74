---------------------------- MODULE DurableHistory ----------------------------
(***************************************************************************)
(* What the history store promises of one timeframe: the daemon works from *)
(* an engine state, takes whole snapshots of it, and makes a snapshot      *)
(* durable at once or not at all; a stop or a crash loses nothing but what *)
(* came after the last durable snapshot, and the next start continues from *)
(* exactly that snapshot.                                                  *)
(***************************************************************************)
CONSTANTS States,   \* states of an engine: its closed buckets and its forming one
          Fresh,    \* the states an engine may start in when nothing is durable
          None

VARIABLES engine,   \* the state of the running engine; None when stopped
          taken,    \* a snapshot on its way to the disk, or None
          durable   \* the durable snapshot, or None

vars == <<engine, taken, durable>>

Init == engine = None /\ taken = None /\ durable \in States \cup {None}

Start == /\ engine = None /\ taken = None
         /\ engine' \in (IF durable = None THEN Fresh ELSE {durable})
         /\ UNCHANGED <<taken, durable>>
\* the next start may find the snapshot unreadable under the present schema
Discard == /\ engine = None /\ durable # None /\ durable' = None
           /\ engine' \in Fresh /\ UNCHANGED taken
Work == engine # None /\ engine' \in States /\ UNCHANGED <<taken, durable>>
Take == engine # None /\ taken = None /\ taken' = engine /\ UNCHANGED <<engine, durable>>
Save == taken # None /\ durable' = taken /\ taken' = None /\ UNCHANGED engine
Fail == taken # None /\ taken' = None /\ UNCHANGED <<engine, durable>>
\* a stop may save the engine on its way out; a crash does not
Stop == /\ engine # None /\ engine' = None /\ taken' = None
        /\ durable' \in {durable, engine}

Next == Start \/ Discard \/ Work \/ Take \/ Save \/ Fail \/ Stop
Spec == Init /\ [][Next]_vars
===============================================================================
