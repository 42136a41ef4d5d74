---------------------------- MODULE CandleFraming ----------------------------
(***************************************************************************)
(* The candles and footprints of one timeframe, from the exchange to one   *)
(* terminal window.                                                        *)
(*                                                                         *)
(* Klines and aggTrades arrive on two sockets that do not wait for each    *)
(* other.  A kline frames its candle and stamps OHLC; a trade adds to the  *)
(* footprint levels of the candle its own time falls in; both move         *)
(* latest_utime.  Forced orders attach to the candle latest_utime names    *)
(* and to the bucket in progress.  The 1/s heartbeat and the 150 ms live   *)
(* edge ship a candle together with a footprint, which the window files    *)
(* under the candle's time.                                                *)
(*                                                                         *)
(* A trade is one unit of volume; a candle's OHLC is the number of its     *)
(* trades the kline had seen.                                              *)
(***************************************************************************)
EXTENDS Integers, Sequences, FiniteSets

CONSTANTS
    None,           \* no value
    MaxCandle,      \* bound: candles
    MaxTrades,      \* bound: trades at the exchange
    MaxKlines,      \* bound: klines on their way
    MaxLiqs,        \* bound: forced orders
    MaxPolls,       \* bound: readings of the open interest
    MaxSubs,        \* bound: catch-ups of the window
    QueueMax        \* bound: frames on their way to the window

Candles == 1..MaxCandle
Records == [c : Candles, vol : 0..MaxTrades]
Nodes == [levels : 0..MaxTrades, lastVol : 0..MaxTrades, liqs : 0..MaxLiqs,
          oiOpen : 0..MaxPolls, oiClose : 0..MaxPolls]

ASSUME CandleFramingAssumption ==
    /\ {MaxCandle, MaxKlines, QueueMax} \subseteq Nat \ {0}
    /\ {MaxTrades, MaxLiqs, MaxPolls, MaxSubs} \subseteq Nat
    /\ None \notin Nat \cup Records \cup Nodes

VARIABLES
    now,            \* the exchange: its current candle
    traded,         \* the exchange: trades executed in each candle
    klines,         \* klines on their way: [c, vol, x]
    tape,           \* trades on their way: the candle of each
    lost,           \* trades of each candle lost with the aggTrade socket
    unframed,       \* candles that lost a kline with the kline socket
    latest,         \* latest_utime[tf]
    node,           \* footprints_db[tf]
    last,           \* last_candle[tf]
    oi,             \* pulse_state["oi"]: the number of the poll, 0 before any
    bucketLiqs,     \* forced orders in the bucket in progress, and in closed ones
    liqs, early,    \* forced orders received, and those before any candle
    queue,          \* frames on their way to the window
    candles, footprints, forming,   \* the window: PipeClientWorker's cache
    trades, subs    \* counters of the bounds

exchange == <<now, traded>>
sockets  == <<klines, tape, lost, unframed>>
core     == <<latest, node, last, oi, bucketLiqs, liqs, early>>
window   == <<candles, footprints, forming>>
bounds   == <<trades, subs>>
vars     == <<exchange, sockets, core, queue, window, bounds>>

Init ==
    /\ now = 1 /\ traded = [c \in Candles |-> 0]
    /\ klines = <<>> /\ tape = <<>> /\ lost = [c \in Candles |-> 0] /\ unframed = {}
    /\ latest = None /\ last = None /\ oi = 0
    /\ node = [c \in Candles |-> None]
    /\ bucketLiqs = [active |-> 0, closed |-> 0] /\ liqs = 0 /\ early = 0
    /\ queue = <<>>
    /\ candles = [c \in Candles |-> None] /\ footprints = [c \in Candles |-> None]
    /\ forming = None /\ trades = 0 /\ subs = 0

-----------------------------------------------------------------------------
(* The exchange.                                                           *)

Trade ==
    /\ trades < MaxTrades
    /\ trades' = trades + 1
    /\ traded' = [traded EXCEPT ![now] = @ + 1]
    /\ tape' = Append(tape, now)
    /\ UNCHANGED <<now, klines, lost, unframed, core, queue, window, subs>>

KlineOf(c, x) == [c |-> c, vol |-> traded[c], x |-> x]

(* Every second the kline of the current candle.                           *)
Heartbeat ==
    /\ Len(klines) < MaxKlines
    /\ klines' = Append(klines, KlineOf(now, FALSE))
    /\ UNCHANGED <<exchange, tape, lost, unframed, core, queue, window, bounds>>

(* A candle ends with a kline of its own, x = true.                        *)
NextCandle ==
    /\ now < MaxCandle /\ Len(klines) < MaxKlines
    /\ now' = now + 1
    /\ klines' = Append(klines, KlineOf(now, TRUE))
    /\ UNCHANGED <<traded, tape, lost, unframed, core, queue, window, bounds>>

(* The aggTrade socket is lost: aggtrade_stream connects again, and what   *)
(* was on its way never arrives.                                           *)
TapeGap ==
    /\ tape # <<>>
    /\ tape' = <<>>
    /\ lost' = [c \in Candles |->
                  lost[c] + Cardinality({k \in DOMAIN tape : tape[k] = c})]
    /\ UNCHANGED <<exchange, klines, unframed, core, queue, window, bounds>>

(* The kline socket is lost, and dynamic_stream connects again (bound:     *)
(* once).                                                                  *)
KlineGap ==
    /\ klines # <<>> /\ unframed = {}
    /\ klines' = <<>>
    /\ unframed' = unframed \cup {klines[k].c : k \in DOMAIN klines}
    /\ UNCHANGED <<exchange, tape, lost, core, queue, window, bounds>>

-----------------------------------------------------------------------------
(* The daemon.                                                             *)

NewNode == [levels |-> 0, lastVol |-> 0, liqs |-> 0, oiOpen |-> oi, oiClose |-> oi]

(* _ensure_fp_node: the single place where a node is made.                 *)
EnsureNode(c) == IF node[c] = None THEN NewNode ELSE node[c]

Tick(candle, fp) == [kind |-> "tick", candle |-> candle, fp |-> fp]
FootprintOf(nodes, c) == [of |-> c, levels |-> nodes[c].levels]

(* Mutant: the time of the forming candle is left to the trades.           *)
ProcessKline_NoLatest ==
    /\ klines # <<>> /\ Len(queue) < QueueMax
    /\ LET k == Head(klines)
       IN  /\ node' = [node EXCEPT ![k.c] =
                          [EnsureNode(k.c) EXCEPT !.lastVol = k.vol, !.oiClose = oi]]
           /\ last' = [c |-> k.c, vol |-> k.vol]
           /\ queue' = Append(queue, Tick(last', FootprintOf(node', k.c)))
           /\ latest' = IF latest = None THEN k.c ELSE latest
    /\ klines' = Tail(klines)
    /\ UNCHANGED <<exchange, tape, lost, unframed, oi, bucketLiqs, liqs, early, window, bounds>>

(* Mutant: the candle is cached only while it is open.                     *)
ProcessKline_OpenOnly ==
    /\ klines # <<>> /\ Len(queue) < QueueMax
    /\ LET k == Head(klines)
       IN  /\ latest' = k.c
           /\ node' = [node EXCEPT ![k.c] =
                          [EnsureNode(k.c) EXCEPT !.lastVol = k.vol, !.oiClose = oi]]
           /\ last' = IF k.x THEN last ELSE [c |-> k.c, vol |-> k.vol]
           /\ queue' = Append(queue, Tick([c |-> k.c, vol |-> k.vol], FootprintOf(node', k.c)))
    /\ klines' = Tail(klines)
    /\ UNCHANGED <<exchange, tape, lost, unframed, oi, bucketLiqs, liqs, early, window, bounds>>

(* dynamic_stream and _process_kline: framing, the oi_close stamp, the     *)
(* cached candle and the heartbeat with the node of the same candle.       *)
ProcessKline ==
    /\ klines # <<>> /\ Len(queue) < QueueMax
    /\ LET k == Head(klines)
       IN  /\ latest' = k.c
           /\ node' = [node EXCEPT ![k.c] =
                          [EnsureNode(k.c) EXCEPT !.lastVol = k.vol, !.oiClose = oi]]
           /\ last' = [c |-> k.c, vol |-> k.vol]
           /\ queue' = Append(queue, Tick(last', FootprintOf(node', k.c)))
    /\ klines' = Tail(klines)
    /\ UNCHANGED <<exchange, tape, lost, unframed, oi, bucketLiqs, liqs, early, window, bounds>>

(* A bucket that fills up takes its forced orders with it.                 *)
BucketAfterTrade(full) ==
    IF full THEN [active |-> 0, closed |-> bucketLiqs.closed + bucketLiqs.active]
            ELSE bucketLiqs

(* Mutant: the trade is filed under the candle in progress.                *)
CandleOpen_Latest(c) == IF latest = None THEN c ELSE latest

(* The node a trade of candle c goes to.                                   *)
CandleOpen(c) == c

(* aggtrade_stream and _process_aggtrade: the node is that of the trade's  *)
(* own time; no frame.                                                     *)
ProcessAggtrade(full) ==
    /\ tape # <<>>
    /\ LET c == CandleOpen(Head(tape))
       IN  /\ latest' = c
           /\ node' = [node EXCEPT ![c] = [EnsureNode(c) EXCEPT !.levels = @ + 1]]
    /\ bucketLiqs' = BucketAfterTrade(full)
    /\ tape' = Tail(tape)
    /\ UNCHANGED <<exchange, klines, lost, unframed, last, oi, liqs, early, queue, window, bounds>>

BucketAfterLiq == [bucketLiqs EXCEPT !.active = @ + 1]

(* liquidations_stream: the node of latest_utime, if there is one, and the *)
(* bucket in progress.                                                     *)
Liquidation ==
    /\ liqs < MaxLiqs
    /\ liqs' = liqs + 1
    /\ bucketLiqs' = BucketAfterLiq
    /\ IF latest # None
       THEN node' = [node EXCEPT ![latest].liqs = @ + 1] /\ UNCHANGED early
       ELSE early' = early + 1 /\ UNCHANGED node
    /\ UNCHANGED <<exchange, sockets, latest, last, oi, queue, window, bounds>>

(* _apply_oi.                                                              *)
ApplyOi ==
    /\ oi < MaxPolls
    /\ oi' = oi + 1
    /\ UNCHANGED <<exchange, sockets, latest, node, last, bucketLiqs, liqs, early,
                   queue, window, bounds>>

(* _broadcast_live_edge: the cached candle with the node of latest_utime.  *)
LiveEdge ==
    /\ last # None /\ Len(queue) < QueueMax
    /\ queue' = Append(queue, Tick(last, FootprintOf(node, latest)))
    /\ UNCHANGED <<exchange, sockets, core, window, bounds>>

(* catchup_start: the footprints of the moment.                            *)
Catchup ==
    /\ subs < MaxSubs /\ Len(queue) < QueueMax
    /\ subs' = subs + 1
    /\ queue' = Append(queue, [kind |-> "start",
                               fps |-> [c \in Candles |-> IF node[c] = None THEN None
                                                          ELSE FootprintOf(node, c)]])
    /\ UNCHANGED <<exchange, sockets, core, window, trades>>

-----------------------------------------------------------------------------
(* The window.                                                             *)

(* _apply of a TICK: the candle and the footprint under the candle's time. *)
ApplyTick(f) ==
    /\ candles' = [candles EXCEPT ![f.candle.c] = f.candle.vol]
    /\ footprints' = [footprints EXCEPT ![f.candle.c] = f.fp]
    /\ forming' = f.candle.c

(* _apply of a CATCHUP_START: the footprints are replaced.                 *)
ApplyStart(f) == footprints' = f.fps /\ UNCHANGED <<candles, forming>>

Apply ==
    /\ queue # <<>>
    /\ queue' = Tail(queue)
    /\ LET f == Head(queue)
       IN  IF f.kind = "tick" THEN ApplyTick(f) ELSE ApplyStart(f)
    /\ UNCHANGED <<exchange, sockets, core, bounds>>

-----------------------------------------------------------------------------
Next ==
    \/ Trade \/ Heartbeat \/ NextCandle \/ TapeGap \/ KlineGap
    \/ ProcessKline \/ \E full \in BOOLEAN : ProcessAggtrade(full)
    \/ Liquidation \/ ApplyOi \/ LiveEdge \/ Catchup
    \/ Apply

Spec == Init /\ [][Next]_vars

(* The exchange sends a kline every second, the sockets deliver, the       *)
(* daemon's live_edge_loop and the window's thread run.  Strong fairness   *)
(* where the bound on the queue, which the daemon does not wait for, may   *)
(* disable the step for a while.                                           *)
FairSpec ==
    /\ Spec
    /\ WF_vars(Heartbeat) /\ SF_vars(ProcessKline)
    /\ WF_vars(\E full \in BOOLEAN : ProcessAggtrade(full))
    /\ SF_vars(LiveEdge) /\ WF_vars(Apply)

-----------------------------------------------------------------------------
(* Every variable has its type; a candle's oi_close is never an older      *)
(* reading than its oi_open.                                               *)
TypeOK ==
    /\ now \in Candles /\ traded \in [Candles -> 0..MaxTrades]
    /\ lost \in [Candles -> 0..MaxTrades] /\ unframed \subseteq Candles /\ tape \in Seq(Candles)
    /\ klines \in Seq([c : Candles, vol : 0..MaxTrades, x : BOOLEAN])
    /\ latest \in {None} \cup Candles
    /\ node \in [Candles -> {None} \cup Nodes]
    /\ last \in {None} \cup Records
    /\ oi \in 0..MaxPolls /\ {liqs, early} \subseteq 0..MaxLiqs
    /\ bucketLiqs \in [active : 0..MaxLiqs, closed : 0..MaxLiqs]
    /\ candles \in [Candles -> {None} \cup 0..MaxTrades]
    /\ forming \in {None} \cup Candles /\ trades \in 0..MaxTrades /\ subs \in 0..MaxSubs
    /\ \A c \in Candles : node[c] # None => node[c].oiOpen <= node[c].oiClose

(* The footprint levels of a candle are exactly the trades the exchange    *)
(* executed in it, whatever order the two sockets deliver in: a trade that *)
(* arrives after the next candle was framed still goes to its own candle   *)
(* (keying by candle_open, _process_aggtrade).                             *)
LevelsAreTheTape ==
    \A c \in Candles :
        traded[c] = lost[c] + Cardinality({k \in DOMAIN tape : tape[k] = c})
                        + (IF node[c] = None THEN 0 ELSE node[c].levels)

(* The forced orders of the candles up to each one, as a running total.    *)
FramedLiqs(c) == IF node[c] = None THEN 0 ELSE node[c].liqs
RunningTotal(sum) == sum[0] = 0 /\ \A c \in Candles : sum[c] = sum[c - 1] + FramedLiqs(c)

(* A forced order is counted in exactly one bucket, and in exactly one     *)
(* candle once a candle is known, although latest_utime may move back and  *)
(* the bucket may close between two of them.                               *)
ForcedOrdersCountedOnce ==
    /\ bucketLiqs.active + bucketLiqs.closed = liqs
    /\ \E sum \in [0..MaxCandle -> 0..liqs] :
          RunningTotal(sum) /\ liqs = early + sum[MaxCandle]

(* A completed candle in the window is final: once the window frames a     *)
(* later candle, the OHLC it keeps of an earlier one is the last kline's,  *)
(* not a live-edge repeat from before the close, unless that kline was     *)
(* lost with the socket.                                                   *)
CompletedCandlesAreFinal ==
    \A c \in Candles :
        forming # None /\ c < forming /\ candles[c] # None /\ c \notin unframed
            => candles[c] = traded[c]

(* The forming candle of the window catches up with the exchange: its OHLC *)
(* and its footprint end up the daemon's, after late trades, a gap of the  *)
(* tape and frames that paired it with the footprint of another candle.    *)
FormingEdgeConverges ==
    <>[](/\ candles[now] = traded[now]
         /\ footprints[now] = FootprintOf(node, now))

(* What the two sockets deliver is counted where it belongs, once: trades  *)
(* in the levels of their candle, forced orders in one candle and bucket.  *)
TapeIsCountedOnce == TypeOK /\ LevelsAreTheTape /\ ForcedOrdersCountedOnce
=============================================================================
