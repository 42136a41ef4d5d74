----------------------------- MODULE QuantEngine -----------------------------
(***************************************************************************)
(* One constant-volume bucket engine (app/quant_engine.py), fed one trade  *)
(* at a time by _process_aggtrade and resized between trades by            *)
(* _resize_engines (app/feeds.py).  The loop of process_tick is one step   *)
(* per iteration: `tick' holds the trade being split, and no other         *)
(* operation runs before it is done, as nothing awaits in it.              *)
(*                                                                         *)
(* Volumes are whole lots.  The OI-confirmed part of a trade is a fraction *)
(* of Den parts of its volume, so the five position vectors count 1/Den of *)
(* a lot: a chunk of c lots carries c * Den of these.                      *)
(***************************************************************************)
EXTENDS Integers, Sequences

CONSTANTS
    None,          \* the value None of a start_time
    Vols,          \* trade volumes
    Targets,       \* values of target_vol that a resize may choose
    Den,           \* resolution of the OI-confirmed fraction
    OiParts,       \* delta_oi / vol, in 1/Den; a replay may exceed the volume
    Times,         \* event times of trades, in no particular order
    Cap,           \* config.CLOSED_BUCKETS_CAP
    VpinWindow,    \* config.VPIN_WINDOW
    Lookback,      \* config.VELOCITY_LOOKBACK
    MaxTraded      \* bound: total traded volume

\* A trade being split: the volume left, its OI fraction, side and event time.
Tick == [left : Nat, oi : Int, buyer : BOOLEAN, time : Nat]

ASSUME NoneAssumption == None \notin Int /\ None \notin Tick
ASSUME VolAssumption == Vols \subseteq Nat \ {0}
ASSUME TargetAssumption == Targets \subseteq Nat \ {0}
ASSUME DenAssumption == Den \in Nat \ {0} /\ OiParts \subseteq Int
ASSUME TimeAssumption == Times \subseteq Nat
ASSUME CapAssumption == Cap \in Nat \ {0} /\ VpinWindow \in Nat \ {0} /\ Lookback \in Nat \ {0}
ASSUME BoundAssumption == MaxTraded \in Nat

VARIABLES
    target_vol,         \* QuantEngine.target_vol
    active_bucket,      \* QuantEngine.active_bucket
    closed_buckets,     \* QuantEngine.closed_buckets
    total_closed,       \* QuantEngine.total_closed
    vpin_queue,         \* QuantEngine.vpin_queue
    rolling_velocity,   \* QuantEngine.rolling_velocity: volume and duration
    last_tick_time,     \* QuantEngine.last_tick_time
    tick,               \* the trade that process_tick is splitting, or None
    last_total,         \* the local of _process_aggtrade
    new_buckets         \* the buckets of the last close piggyback

(* History variables. *)
VARIABLES
    traded,             \* volume of all trades
    oiCarried,          \* signed OI of all trades, in 1/Den of a lot
    retiredVol,         \* volume of all closed buckets
    retiredOi           \* signed OI of all closed buckets, in 1/Den of a lot

engine == <<target_vol, active_bucket, closed_buckets, total_closed, vpin_queue,
            rolling_velocity, last_tick_time>>
history == <<traded, oiCarried, retiredVol, retiredOi>>
vars == <<engine, tick, last_total, new_buckets, history>>

Abs(x) == IF x < 0 THEN -x ELSE x
Least(x, y) == IF x < y THEN x ELSE y

\* What VPIN sums: the imbalance of a bucket.
Imbalance(b) == Abs(b.buy - b.sell)

\* The last n elements of a sequence, or all of it: s[-n:] and deque(maxlen=n).
LastN(s, n) == IF Len(s) =< n THEN s ELSE SubSeq(s, Len(s) - n + 1, Len(s))

\* A bucket just built: QuantBucket(target_vol, start).  `ordinal' is a history
\* field, the position of the bucket in the order of creation.
NewBucket(start, n) ==
    [ordinal |-> n, start |-> start, end |-> None, vol |-> 0, buy |-> 0, sell |-> 0,
     opL |-> 0, opS |-> 0, clL |-> 0, clS |-> 0, churn |-> 0]

\* The OI-confirmed magnitude of a trade never exceeds its volume.
OiMag(t) == Least(Abs(t.oi), Den)

\* _add_to_bucket: c lots of trade t enter bucket b.
AddChurnOnly(b, t, c) ==                                              \* mutant
    [b EXCEPT !.vol = @ + c, !.buy = IF t.buyer THEN @ + c ELSE @,
              !.sell = IF t.buyer THEN @ ELSE @ + c,
              !.churn = @ + c * Den]
AddToBucket(b, t, c) ==
    LET oi == c * OiMag(t) IN
    [b EXCEPT !.vol = @ + c,
              !.buy = IF t.buyer THEN @ + c ELSE @,
              !.sell = IF t.buyer THEN @ ELSE @ + c,
              !.opL = IF t.oi > 0 /\ t.buyer THEN @ + oi ELSE @,
              !.opS = IF t.oi > 0 /\ ~t.buyer THEN @ + oi ELSE @,
              !.clL = IF t.oi < 0 /\ ~t.buyer THEN @ + oi ELSE @,
              !.clS = IF t.oi < 0 /\ t.buyer THEN @ + oi ELSE @,
              !.churn = @ + c * (Den - OiMag(t))]

\* The net open interest a bucket attributes.
NetOi(b) == b.opL + b.opS - b.clL - b.clS

Init ==
    /\ target_vol \in Targets
    /\ active_bucket = NewBucket(None, 1)
    /\ closed_buckets = <<>> /\ total_closed = 0
    /\ vpin_queue = <<>> /\ rolling_velocity = <<>>
    /\ last_tick_time = 0
    /\ tick = None /\ last_total = 0 /\ new_buckets = <<>>
    /\ traded = 0 /\ oiCarried = 0 /\ retiredVol = 0 /\ retiredOi = 0

-----------------------------------------------------------------------------
SpaceLeft == target_vol - active_bucket.vol

\* _close_active_bucket, of bucket b: the sample of a bucket that did not take
\* time is skipped, the history is trimmed from the front, a bucket opens.
CloseBucket(b) ==
    LET start == b.start
        closed == [b EXCEPT !.end = tick.time]
        sample == [vol |-> target_vol, duration |-> tick.time - start]
    IN
    /\ closed_buckets' = LastN(Append(closed_buckets, closed), Cap)
    /\ total_closed' = total_closed + 1
    /\ rolling_velocity' = IF start # None /\ tick.time > start
                           THEN LastN(Append(rolling_velocity, sample), Lookback)
                           ELSE rolling_velocity
    /\ vpin_queue' = LastN(Append(vpin_queue, Imbalance(b)), VpinWindow)
    /\ active_bucket' = NewBucket(tick.time, b.ordinal + 1)
    /\ retiredVol' = retiredVol + b.vol
    /\ retiredOi' = retiredOi + NetOi(b)

\* process_tick is called: an unset start takes the event time of the trade.
ProcessTick(v, oi, buyer, time) ==
    /\ tick = None
    /\ traded + v =< MaxTraded
    /\ tick' = [left |-> v, oi |-> oi, buyer |-> buyer, time |-> time]
    /\ last_total' = total_closed
    /\ last_tick_time' = time
    /\ active_bucket' = [active_bucket EXCEPT !.start = IF @ = None THEN time ELSE @]
    /\ traded' = traded + v
    /\ oiCarried' = LET part == OiMag([oi |-> oi]) IN
                    oiCarried + v * (IF oi < 0 THEN -part ELSE part)
    /\ UNCHANGED <<target_vol, closed_buckets, total_closed, vpin_queue,
                   rolling_velocity, new_buckets, retiredVol, retiredOi>>

\* The active bucket is full, or a resize left it over-full: close it as it is.
CloseFull ==
    /\ tick # None /\ tick.left > 0 /\ SpaceLeft =< 0
    /\ CloseBucket(active_bucket)
    /\ UNCHANGED <<target_vol, last_tick_time, tick, last_total, new_buckets,
                   traded, oiCarried>>

\* The rest of the trade fits.
FitsStrictly == SpaceLeft > 0 /\ tick.left < SpaceLeft               \* mutant
Fits == SpaceLeft > 0 /\ tick.left =< SpaceLeft

AddRest ==
    /\ tick # None /\ tick.left > 0 /\ Fits
    /\ active_bucket' = AddToBucket(active_bucket, tick, tick.left)
    /\ tick' = [tick EXCEPT !.left = 0]
    /\ UNCHANGED <<target_vol, closed_buckets, total_closed, vpin_queue,
                   rolling_velocity, last_tick_time, last_total, new_buckets, history>>

\* The trade overflows the bucket: fill it, close it, go on with the rest.
FillAndClose ==
    /\ tick # None /\ SpaceLeft > 0 /\ tick.left > SpaceLeft
    /\ CloseBucket(AddToBucket(active_bucket, tick, SpaceLeft))
    /\ tick' = [tick EXCEPT !.left = @ - SpaceLeft]
    /\ UNCHANGED <<target_vol, last_tick_time, last_total, new_buckets,
                   traded, oiCarried>>

\* How _process_aggtrade finds the buckets the trade closed.
ClosedByLength ==                                                    \* mutant
    LastN(closed_buckets, Len(closed_buckets) - last_total)
ClosedByTick == LastN(closed_buckets, total_closed - last_total)

\* Back in _process_aggtrade: ship what the trade closed.
ShipClosed ==
    /\ tick # None /\ tick.left = 0
    /\ tick' = None
    /\ new_buckets' = ClosedByTick
    /\ UNCHANGED <<engine, last_total, history>>

\* _resize_engines, in the recompute loop: never in the middle of a trade.
Resize(t) ==
    /\ tick = None
    /\ target_vol' = t
    /\ UNCHANGED <<active_bucket, closed_buckets, total_closed, vpin_queue,
                   rolling_velocity, last_tick_time, tick, last_total, new_buckets, history>>

Split == CloseFull \/ AddRest \/ FillAndClose \/ ShipClosed

Next ==
    \/ \E v \in Vols, oi \in OiParts, buyer \in BOOLEAN, time \in Times :
          ProcessTick(v, oi, buyer, time)
    \/ CloseFull
    \/ AddRest
    \/ FillAndClose
    \/ ShipClosed
    \/ \E t \in Targets : Resize(t)

Spec == Init /\ [][Next]_vars

\* process_tick is a loop of the only thread: once begun, it runs.
FairSpec == Spec /\ WF_vars(Split)

-----------------------------------------------------------------------------
VectorSum(b) == b.opL + b.opS + b.clL + b.clS + b.churn

Bucket == [ordinal : Nat \ {0}, start : Nat \cup {None}, end : Nat \cup {None},
           vol : Nat, buy : Nat, sell : Nat,
           opL : Int, opS : Int, clL : Int, clS : Int, churn : Int]

(* Type correctness of the engine and of the trade being split.             *)
TypeOK ==
    /\ target_vol \in Nat \ {0}
    /\ active_bucket \in Bucket
    /\ closed_buckets \in Seq(Bucket) /\ Len(closed_buckets) =< Cap
    /\ total_closed \in Nat /\ last_total \in 0..total_closed
    /\ vpin_queue \in Seq(Nat) /\ Len(vpin_queue) =< VpinWindow
    /\ rolling_velocity \in Seq([vol : Nat, duration : Nat \ {0}])
    /\ Len(rolling_velocity) =< Lookback
    /\ last_tick_time \in Nat
    /\ tick \in Tick \cup {None}
    /\ new_buckets \in Seq(Bucket)
    /\ traded \in Nat /\ oiCarried \in Int /\ retiredVol \in Nat /\ retiredOi \in Int

\* The conservation law of one bucket, with the signs the split must keep.
Conserves(b) ==
    /\ VectorSum(b) = b.vol * Den
    /\ b.buy + b.sell = b.vol
    /\ b.opL >= 0 /\ b.opS >= 0 /\ b.clL >= 0 /\ b.clS >= 0 /\ b.churn >= 0
    /\ b.opL + b.clS =< b.buy * Den
    /\ b.opS + b.clL =< b.sell * Den

(* The conservation law QuantBucket states, and no vector is ever negative  *)
(* or larger than its aggressor side's volume: in the forming bucket and in *)
(* every retained one, through splits, over-full closes and resizes.        *)
BucketsConserve ==
    /\ Conserves(active_bucket)
    /\ \A i \in 1..Len(closed_buckets) : Conserves(closed_buckets[i])

\* The signed OI of c lots of trade t.
SignedOi(t, c) == IF t.oi < 0 THEN -(c * OiMag(t)) ELSE c * OiMag(t)

(* Splitting a trade over buckets loses and invents nothing: at every point *)
(* of the loop the traded volume and OI are in the closed buckets, in the   *)
(* forming one, or in the part of the trade still to be placed.             *)
SplitLosesNothing ==
    /\ traded = retiredVol + active_bucket.vol + (IF tick = None THEN 0 ELSE tick.left)
    /\ oiCarried = retiredOi + NetOi(active_bucket)
                   + (IF tick = None THEN 0 ELSE SignedOi(tick, tick.left))

(* The retained history is the end of the sequence of all buckets, with no  *)
(* hole, and the forming bucket is the next; each starts where the one      *)
(* before it ended; total_closed counts them whatever the cap trims.        *)
HistoryContiguous ==
    LET n == Len(closed_buckets) IN
    /\ active_bucket.ordinal = total_closed + 1
    /\ n = Least(total_closed, Cap)
    /\ \A i \in 1..n : closed_buckets[i].ordinal = total_closed - n + i
    /\ \A i \in 1..n : closed_buckets[i].end # None
    /\ \A i \in 1..(n - 1) : closed_buckets[i + 1].start = closed_buckets[i].end
    /\ n > 0 => active_bucket.start = closed_buckets[n].end

(* No iteration puts into a bucket more than the target in force allows,    *)
(* and none closes a bucket the target in force does not call full.         *)
FillStep ==
    /\ active_bucket'.ordinal = active_bucket.ordinal =>
          active_bucket'.vol \in {active_bucket.vol} \cup 0..target_vol
    /\ total_closed' # total_closed =>
          closed_buckets'[Len(closed_buckets')].vol >= target_vol

FillsToTarget == [][FillStep]_vars

(* The close piggyback carries the buckets this trade closed, all of them   *)
(* and no other, also once the history has reached its cap.                 *)
ShipStep ==
    tick # None /\ tick' = None =>
        {new_buckets'[i].ordinal : i \in 1..Len(new_buckets')}
            = (last_total + 1)..total_closed

ShipsWhatClosed == [][ShipStep]_vars

(* The splitting loop ends for every trade, whatever target a resize chose. *)
TickEnds == tick # None ~> tick = None

(* Splitting a trade over buckets loses nothing, makes no bucket inconsistent *)
(* and leaves a contiguous history, at every iteration of process_tick.       *)
SplittingConserves == TypeOK /\ BucketsConserve /\ SplitLosesNothing /\ HistoryContiguous
=============================================================================
