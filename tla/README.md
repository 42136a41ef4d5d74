# A verification project for smc_quant

`smc_quant` is a market-data system in two processes. A **daemon** (asyncio,
one event loop, one executor) reads Binance streams, builds constant-volume
buckets with open-interest attribution for five timeframes, keeps them in
SQLite and serves them over a local TCP pipe. A **terminal** (Qt) connects
through an SSH tunnel with one worker thread that keeps a shared cache, and a
GUI thread that reads it. This directory holds TLA+ models of the parts where
order, failure and concurrency decide whether the data on screen is right, the
TLC configurations that check them on small instances, and TLAPS proofs of
what matters most for every instance.

## Inventory

| component | code | state | operations |
|---|---|---|---|
| OI attributor | `app/aggtrade.py`, the OI poll and the trade stream of `app/feeds.py` | signed pending balance, baseline, averaged volume, two discard counters | trade, poll, reconnect |
| bucket engine | `app/quant_engine.py` | active bucket, capped list of closed ones, monotonic close count, VPIN and velocity windows, target volume | tick (splits over buckets), close, resize |
| order-block analytics | `app/quant_engine.py`, `app/bucket_state.py`, `app/region_state.py`, `app/vpin_adaptive.py` | none (pure functions over buckets) | detection, mitigation, ranking, absorption, states, percentiles |
| feeds | `app/feeds.py` | footprint nodes, order book, capture buffers, per-timeframe engines | kline, trade, liquidation, depth, pulse, recompute, live edge |
| OB process pool | `app/feeds.py` | pool, failure count, latch, the close count last rescanned | ensure, warm up, recompute off-loop, fall back, latch, shut down |
| daemon | `app/daemon.py` | clients, per-client bounded queue, subscribed timeframe, heat-map subscription | accept, control line, catch-up stream, broadcast, send, disconnect, shutdown |
| history store | `app/persistence.py` | SQLite tables, per-timeframe cursor, in-flight write | bootstrap, rehydrate, periodic sync, prune, final flush |
| depth store | `app/depth_store.py` | SQLite tables of deltas, trades and anchors | drain and write, prune, reconstruct, window build |
| pipe client | `app/pipe_client.py` | cached timeframe, history, outgoing commands, loading flag | connect, receive, apply, switch timeframe, refresh, disconnect |
| wire protocol | `app/protocol.py` | none | to_line, parse_line |
| terminal window | `app/terminal.py` | draw gate, bucket signature, compute cache, selection signature, pinned threshold, announced events, heat-map mode and pending window | render tick, timeframe switch, refresh, selection drag and toggles, heat-map enter, pan, zoom and exit |
| SSH tunnel manager | `app/terminal.py` | handle of the launched process | ensure, stop |
| heat-map caches | `app/heatmap.py` | time-ordered columns, trades | reset, append, prepend, trim |
| drawing tools | `app/drawing_tools.py` | drawings in time and in index space, selection, edit dots, panel, lock | tool, click, drag, trash, panel, mode switch, load, save |
| alerts | `app/alerts.py` | armed flag; the ledger's lists (nothing feeds them) | arm, speak, toggle |
| chart and panel widgets | `app/chart_widgets.py`, `app/footprint_layers.py`, `app/cob_panel.py`, `app/hamburger.py`, `app/stats_overlay.py`, `app/hud_overlay.py` | painting state | draw |

How they interact: the feeds call the attributor and the engines on the event
loop, one trade at a time, and put frames in the clients' queues without
waiting; a catch-up is a task that yields between chunks; the stores prepare
their payload on the loop and write it in a worker thread; the recompute loop
waits for a process pool. On the other side the worker thread applies frames
under a lock that the GUI thread also takes to read snapshots and, when the
user switches timeframe, to clear the cache.

What is hard: tasks that interleave at every `await`; frames dropped when a
client is slow; two catch-ups alive at once; a REST baseline that arrives after
the user has moved on; a shutdown that meets a write in flight; a websocket
that comes back with a hole in it; caches that stop growing at their cap.

## Plan

Modules in the order they were written, the most important behaviour first:
the numbers on screen must be right before anything else matters.

1. `OiAttributor`, `QuantEngine`: the OI and volume a bucket carries. *Checked and proved.*
2. `HistoryStore` against `DurableHistory`: what a restart finds. *Checked and proved.*
3. `CatchupStream`: the buckets a terminal receives. *Checked and proved.*
4. `DepthReplay`, `DepthStore`: the recorded order book. *Checked and proved.*
5. `ObRefresh`: recompute loop, process pool, latch, the matrix's way to the window. *Checked; the pool and the order of the matrices proved.*
6. `CandleFraming`: candles, footprints and forced orders from two sockets to the window. *Checked and proved.*
7. `OrderBlocks`, `StateEngine`, `RegionState`, composed over a growing history by `Analytics`. *Checked and proved.*
8. `HeatmapView`: window requests, live columns, the stitched cache. *Checked; the axis, the feed and the settled view proved.*
9. `DrawingTools`: the toolbar, its two coordinate spaces and the shared file. *Checked and proved.*
10. `TerminalCanvas`, `TerminalSelection`, `AudioFeed`, `SshTunnel`, run together by `MCTerminal`. *Checked; the tunnels, the spoken alerts and the selection proved.*

To prove next: the canvas, once a bucket has a name of its own across timeframe
switches.

## Modules and the code

**`OiAttributor`** (`aggtrade.py` 40-177, `feeds.py` `fetch_oi_loop`,
`aggtrade_stream`). State: the attributor's six fields under their own names,
`pulse_oi` for `pulse_state["oi"]`, `polled` for the REST answer that a worker
thread holds while the loop runs on. `OnTrade` is `on_trade`, `ApplyOi` the
code after the `await` with `on_poll` (`SeedBaseline` or `InjectDelta`),
`Reconnect` is `on_reconnect` with the reading last polled, however old. The
market moves by itself. Floats are integers; the moving average rounds down.
Ghosts sum what was injected, handed out and lost.

**`QuantEngine`** (`quant_engine.py` 200-397 and the routing of
`_process_aggtrade`). One iteration of `process_tick`'s loop is one step
(`CloseFull`, `AddRest`, `FillAndClose`), `ShipClosed` cuts the piggyback by the
difference of `total_closed`, `Resize` happens between trades as no `await`
separates the iterations. `Den` parts of a lot carry the fraction of OI.

**`HistoryStore`** (`persistence.py` 195-467, `daemon.main`). `BootEmpty`,
`BootOldSchema` and `Boot` are the three ways through `rehydrate_engines`;
`Prepare` serialises on the loop, `Commit` or `RollBack` runs in the executor,
`Synced` is the continuation after the `await`, which alone moves the cursor.
`Interrupt` and `FinalFlush` are SIGINT and `close()`, `Crash` is the death of
the process. A bucket is its number. **`DurableHistory`** is the promise: whole
snapshots, durable at once or not at all, and a start from exactly the last one.

**`CatchupStream`** (`daemon.py` 58-182, `pipe_client.py` 105-377). The daemon's
catch-up tasks run first in, first out, one chunk per turn; the queue drops
frames when full; `Receive` and `ApplyHeld` are the two looks the worker takes
at the timeframe, before and under the lock; `SwitchTf`, `Connect` and the two
`Baseline` actions are `request_timeframe` called by the GUI thread and by the
worker, before and after its REST call.

**`DepthReplay`** (the readers and the prune of `depth_store.py`, no state) and
**`DepthStore`** (`public_stream`, the two captures and `depth_snapshot_loop` of
`feeds.py`; `prepare` and `_write` of `depth_store.py`). The exchange issues
diffs with their event time; each takes at least one tick to arrive, and those
that arrive while the daemon is not connected are missed. `RestAnswer` runs
once, before the first connection. `Prepare` drains, `Commit` inserts and
prunes, `RollBack` loses the payload. `seen[u]` remembers the book the daemon
held after diff `u`; `lost` collects diffs dropped by a full buffer or a
failed write.

**`ObRefresh`** (`feeds.py` 632-750, `daemon.py`, `pipe_client.py`). One worker
pool, numbered as it is created; `openPools` are those whose process has not
been reaped. `WarmStart` and `WarmEnd` are `warm_ob_pool`; `Sweep` is the part
of `recompute_loop` from a sleep to the next wait, with skip-if-unwatched and
skip-if-unchanged; `RescanReturns`, `RescanRaises` and `NoteFail` the three
ways out of `_recompute_ob_line_async`. A matrix is the number of closed buckets
it was computed from. A window subscribes, switches and receives through a
bounded queue that drops. A rescan handed to a pool that another failure shuts
down completes, as `shutdown(wait=False)` lets running work finish.

**`CandleFraming`** (`feeds.py` 130-290, 340-460, 755-778; `pipe_client.py`
`_apply`, `_enforce_cap`). `ProcessKline` is `_process_kline`, `ProcessAggtrade`
the candle and bucket side of `_process_aggtrade`, `Liquidation` the forced
order of `liquidations_stream`, `ApplyOi` what a poll writes into the forming
node, `LiveEdge` `_broadcast_live_edge`, `Catchup` a catch-up's candles,
`Apply` the window's side. Klines and trades are two queues with gaps of their own
(`KlineGap`, `TapeGap`).

**`OrderBlocks`**, **`StateEngine`**, **`RegionState`** (`quant_engine.py`
394-760, `bucket_state.py`, `region_state.py`, `vpin_adaptive.py`) are pure
operators on a sequence of buckets: the dynamic band, order blocks and their
mitigation, absorption clusters and marks; the twelve verdicts with their
scores; synthetic buckets, absorption and aggression series, zones, flips,
rolling shares and VPIN tiers. A quotient is a pair, compared across; what the
code takes from a sorted list is the `k`-th smallest by rank (`KthOf`). The
verdict is evaluated where every factor is at one end of its ramp; its score is
then an exponent of `SOFT_FLOOR` and comparisons are exact.
**`Analytics`** grows a history bucket by bucket (`BucketCloses`) and trims it at
the cap (`Kept`); its invariants relate the readings to the buckets and its
action properties relate two scans. A bucket that traded one volume at every
level has no wall, and `BandHoldsTheWall` says nothing of its band but that it
holds the POC: `calculate_dynamic_band` falls back to a fixed width, `FlatBand`.

**`HeatmapView`** (`terminal.py` 2389-2760, `daemon.py` 139-250,
`pipe_client.py`, `heatmap.py` `HeatmapCache`). `RequestVisible` is
`_hm_request_visible`, all its returns included; `Frame` is the drain of the 20
Hz tick (`apply window, then live columns`); `HandleControl`, `BuildDone`,
`BuildFails` and `LivePulse` are the daemon; `Deliver` the worker. Replies may
overtake each other. `MinData` is the second below which nothing is asked for,
`Px` the pixels of the plot, no more than it has half milliseconds
(`HEATMAP_MAX_COLS` is 1400), so that a step is never zero. Time is in half
milliseconds, so that the `int()` of a label is a rounding. `clean` remembers whether a reply was lost or overtaken, `weighed`
whether the last gesture was compared with the cache while no window was on its
way: `SettledMeansLoaded` promises the view its left edge only then (see below).

**`DrawingTools`** (`drawing_tools.py`, the mode switch of `terminal.py`). Two
windows, one file. `own` is the persisted list, `idx` the session one; the edit
dots, the panel, the selection and the lock are fields of a window. A save may
die between the truncation and the end of the write.

**`TerminalCanvas`** (`terminal.py` 2290-2388, 3700-3830, `pipe_client.py`
export). `Trade` and `Pulse` are the daemon's closes and live-edge ticks,
`Deliver` the worker's `_apply`, `Frame` the tick: export, gate, bucket
signature, compute cache, drawing. **`TerminalSelection`** (`terminal.py`
1340-1760): the selection box, its signature, the panels' toggles and the pinned
threshold. **`AudioFeed`** (`terminal.py` 2060-2130, `alerts.py` `AudioEngine`):
announced sets, seeding, arming, and the feed's rescans and connections.
**`SshTunnel`** (`terminal.py` 4080-4230): launches, handles and quits of two
terminals on one machine. **`MCTerminal`** runs the four side by side. They
share no state but the frame that calls the first three, so a behaviour picks
one part and the state spaces add instead of multiplying.

## Runs

Twelve runs, one question each. Where a run checks a property that names several
parts, it is a conjunction of invariants stated and commented one by one in the
module; this README uses the names of the parts.

| run | question | distinct states | bounds |
|---|---|---|---|
| `oi_attributor` | is the OI balance accounted for and capped | 51,618 | two OI levels, volumes 1-2, three lots between polls, total movement 10 |
| `quant_engine` | do buckets conserve, is the close shipped, does the loop end | 180,874 | cap 3, windows 2, nine lots, two targets |
| `history_store` | does the store implement its promise, is every bucket saved | 9,911 | cap 3, eight closes, three stops or crashes |
| `catch_up` | does every bucket arrive once, in order, under its timeframe | 528,265 | two timeframes, cap 3, chunks of one, queue of three, two closes, one switch, one broken connection |
| `depth_store` | is the record replayed to the book that was held | 4,790,330 | one level a side, two diffs, four ticks, two of retention, one cut, one failed write, a buffer of one |
| `ob_refresh` | does the matrix reach a window that stays, through deaths of the worker | 255,110 | two timeframes, latch at 3, queue of one, one close, two switches, two faults |
| `candle_framing` | are levels, forced orders and candles what the sockets carried | 684,116 | two candles, two trades, one kline under way, one forced order, one poll, one catch-up |
| `analytics` | do the readings agree with their buckets, with each other and from scan to scan | 5,206 histories | every history of four families of shapes up to 6, 4, 5 and 3 buckets, cap 5, windows of two buckets, bands of two ticks where flat |
| `heatmap_view` | is the heat-map's axis sorted, floored, loaded and live | 1,025,851 | two bands, two views, two pulses, a cache five pulses long, two requests, one fault, queue of two |
| `heatmap_ascending` | the cache's documented strictly ascending axis | **violated** | four requests on a narrowing range |
| `drawing_tools` | what reaches the drawings file, and do dots follow shapes | 629,316 | two windows; a rectangle, a line and a bracket; one death |
| `terminal` | is what the terminal draws, reads out and speaks current | 386,246 | cap 2, three buckets, one trip of each kind (switch, break, anchor), four tunnel launches |

The bounds make each hazard happen: a cap smaller than the closes, so lists
trim and the cursor falls off; a queue smaller than a download, so START, CHUNK
and END are all dropped in some behaviour; chunks of one bucket, so every
interleaving of a download with a close occurs; a buffer of one, so it
overflows; a retention shorter than the run, so the prune cuts between, at and
before anchors; a latch that faults of two rescans can reach; a history longer
than the cap, so that scans are compared across the trim. Every property of a
passing run is falsified by a small change of the modelled code under the same
bounds (`PROJECT.json`, "mutants"). Deadlock is not checked where the bounds let
every actor run out of work, or where the daemon may shut down (`ob_refresh`).

What the runs show beyond their names:

- *Numbers.* Of the OI that was polled, everything is pending, handed out or in
  one of the two loss counters, with its sign. A split trade loses nothing, a
  resize in the middle of an over-full bucket included.
- *Downloads.* Whatever is dropped, switched or broken, the window holds no
  bucket of another timeframe; buckets double only when two streams of one
  timeframe overlap or a frame was lost. The loading flag always clears.
- *Order blocks.* A window that stays on a timeframe gets the matrix of the last
  bucket, also after the latch has closed the pool for good; it sees an older
  matrix only while a rescan of the last switch is under way.
- *Candles.* A footprint level is the sum of the trades of its candle, a forced
  order is in one node, and a completed candle in the window does not change.
- *Readings.* A block erodes and never regrows, a mark grows until it is broken,
  the state engine is symmetric in buyers and sellers, one bucket selected is
  one bucket hovered, and the prefix-sum series are their definitions at both
  edges of the history.
- *Heat-map.* Columns are in order and not below the floor; once nothing is in
  flight the window that was asked for is there, and the view is loaded from its
  left edge on if its last gesture was weighed with nothing on its way.
- *Drawings.* A drawing that is gone from the file was erased by somebody, is
  about to be read by a window that starts, or the file was shared with a second
  window or cut by a death inside a save.
- *Terminal.* What is drawn is what the drawn signature says, and it catches up.
  A tunnel that outlives its terminal was superseded by a second launch.

**Fairness.** `QuantEngine`: weak fairness of the splitting loop, which runs to
its end on one thread. `CatchupStream`: weak fairness of the event loop's ready
tasks, of the worker's endless loop and of REST calls, which have a timeout;
trades, switches and broken connections owe nothing. `HistoryStore`: weak
fairness of the sync loop's steps, and strong fairness of `Commit`: the write is
tried every ten seconds and SQLite does not fail for ever; it may fail any
number of times before. `ObRefresh`: weak fairness of the recompute loop, the
end of the warm-up, the daemon's control lines and the delivery of frames while
the daemon is up. `CandleFraming`: weak fairness of the heartbeat, of the trade
stream's consumer and of the window; strong fairness of `ProcessKline` and
`LiveEdge`, which the model's bounded queue disables now and then and the code's
queue, many frames long, does not. `HeatmapView`: weak fairness of the 20 Hz
tick, of the control lines and of delivery, strong fairness of `BuildDone` (a
build may raise; it does not for ever). `MCTerminal`: weak fairness of the
pulse, of delivery, frames and connections, strong of `Subscribe` and `Rescanned`
for the same reason as above. `OiAttributor`, `DepthStore`, `DrawingTools` and
`Analytics` are safety only: they are called, and owe nothing by themselves.

**Assumptions that are switches.** Three constants keep a known weakness out of
a passing run, so that the rest can be checked beyond it. Setting one to `TRUE`
in the cfg makes TLC show the weakness.

- `MayOverlap = FALSE`: a user's switch and the worker's request after a
  reconnect do not overlap. Otherwise frames of the old timeframe, requested by
  the worker, can meet the new one: the baseline sets the timeframe a second
  time (`pipe_client.py` 118, against the comment at 328-329).
- `MayStopInWrite = FALSE`: a SIGINT does not meet a write in flight. Otherwise
  `close()` flushes with a cursor that the interrupted continuation has not
  moved (`persistence.py` 452, against 21-22 and 345), and rows are written twice.
- `SnapInFlight = FALSE`: no snapshot is taken while a diff is on its way. With
  `TRUE`, the diff has an older event time than the snapshot and a newer id:
  `build_window` (which walks by time) skips it, `reconstruct_at_u` (by id) does
  not, and `WindowAgreesWithReplay` fails. This, not a message lost by the
  exchange, is how a chain of diffs departs from the snapshots that follow it.

Some properties are stated for less than everything, and say so: `ExactlyOnce`
needs a history short of the cap (a close that overtakes chunks of its own
download is trimmed by position, so the cap then evicts newer buckets);
`ReplayIsExact` excepts the oldest segment of the record, where the prune has
deleted what the anchor needs (`depth_store.py` 162); `MarksOnlyGrow` holds
until the history is trimmed; `VerdictIsMirrored` leaves out a bucket that
closed at its open, which counts as green.

## Where code and comments disagree

The run `heatmap_ascending` and its entry in "findings" quote one such line.
Also met while modelling, each reproducible in the module named:

*Daemon.*
- `aggtrade.py` 109-111 states an identity of magnitudes; with a negative
  balance the losses enter with their sign (`OiAttributor`).
- `aggtrade.py` says the balance is 0 until the second poll; a reconnect before
  the first poll seeds the baseline with the initial 0.0, and the first poll
  injects the whole open interest, up to the cap. `feeds.py` says the OI of a
  trade-stream gap is not dumped on the trades after it; the baseline of a
  reconnect is the last poll's reading, so part of it is.
- `daemon.py` 165-166 expects no bucket twice; two streams of one timeframe can
  be alive at once (`CatchupStream`).
- `protocol.py` says END signals that the stream is complete; END is also sent
  after a dropped CHUNK, and the client checks neither `seq` nor `total_buckets`.
  It says in-order delivery lets the client simply extend; a close sent during a
  download is appended before the chunks still to come.
- `persistence.py` 283 replays footprints that survive the schema guard, while
  57-58 and 277 speak of a cold start (`HistoryStore`).
- `depth_store.py` 18-19 and `MASTER_FIX_PLAN.md` 957-958 promise exact
  reconstruction from every anchor; the prune at 162 cuts the oldest segment's
  diffs. 277-280 call a snapshot the exchange's book; it is the book the daemon
  held, without the diffs that came while it was not connected (`feeds.py` 507).

*Readings* (`Analytics`).
- The tier of a mark "never goes down": it does after the trim at the cap, when
  the bucket of its peak is gone from the scan.
- "Any core factor 0 forces the state to 0": the squeeze floor lifts it. "So it
  wins": a STRONG bucket at full score comes first in the dictionary.
- Buckets of one trade share their start time, so mitigation, which compares
  times, skips those that close together with the confirming one.
- The balance flip counts zeros as buyers.

*Heat-map* (`HeatmapView`).
- `hm_band` is set when a window is requested, while the cache still holds the
  band before it: "never wrong data" (`terminal.py` 2652-2655) holds only once
  the reply has come. A pan weighed in between is judged by the old columns and
  the new band, may find itself loaded and ask for nothing; the reply then covers
  the view before the pan, and nothing asks again. The same holds of a view that
  showed less than a second before now when it was weighed. Without `weighed` in
  `SettledMeansLoaded`, `heatmap_view` shows both.
- Live columns that arrive ahead of a window are applied after it; only the
  latest window of a tick is kept, and a second request overwrites the pending
  one's treatment; replies out of order end on the first band.
- After a reconnect nothing is subscribed until the user pans or zooms; a pulse
  longer than the column step leaves the live edge behind.

*Drawings* (`DrawingTools`).
- No drawing a user makes in index space is persisted, against
  `drawing_tools.py` 5-7. The payload holds only the current symbol, and a save
  truncates in place. With two windows the last writer wins, and an erased
  drawing comes back.
- The trash tool returns before the panel is hidden, and works while locked; a
  cancelled tool leaves the toolbar's highlight on "select".

*Canvas and selection* (`TerminalCanvas`, `TerminalSelection`).
- The guard against a stale duplicate (`terminal.py` 2303-2312) matches only an
  exactly full bucket; the bucket that has just closed is normally drawn twice
  until the next tick. At the cap the front's fingerprint can collide, so
  "never a stale reuse" (3719-3722) has an exception. "Clean empty canvas"
  (about 2384) is not reached after a timeframe switch.
- The live fingerprint leaves liquidations out, so a readout is not
  "bit-for-bit identical" (1356-1362) when only those change; a long selection
  away from the live edge keeps its signature when the cap shifts the indices.

*Audio and tunnel* (`AudioFeed`, `SshTunnel`).
- "History backlog is never read out": an event retired before the anchor is,
  when a slow rescan arrives after a catch-up's START; a switch there and back
  can speak an event twice; what formed while the feed was frozen is read out
  after a refresh; the first event ever on an empty timeframe is swallowed.
- "So we never leak a tunnel" (`terminal.py` 4195): a second launch while the
  first is not up yet overwrites the handle that `stop()` would kill. A terminal
  that quits takes the tunnel from under another one; a dead tunnel is relaunched
  only by the refresh button.

## Proofs

Eight modules prove, for every value of the constants that satisfies the named
assumptions, the properties listed under "theorems". All follow one scheme: an
inductive invariant, a lemma that the initial states have it, one lemma per
action (or per action and part), and one theorem per property. Where volumes
and targets are positive and the cap and windows at least one, `BooksHold` and
`SplittingHolds` are about exactly what the runs `oi_attributor` and
`quant_engine` check; the same holds of `TapeHolds`, `CompletedHolds`,
`BackwardHolds`, `ShipHolds`, `BacklogHolds` and of the four theorems about the
drawings.

- *OiAttributor* (in `DaemonTaskProofs`). `OiIInv` is the conjunction of the
  type invariant, the signed accounting, the counters' bound and the cap. The
  cap must be part of it: a trade's share is bounded by the balance, and
  `BleedTowardZero` follows from the bounds of a share (`ShareBounds`) once the
  types are known. The cap being a natural number rests on `CapNat` and
  `FoldNat` (products and integer division).
- *QuantEngine.* `SplitLosesNothing` speaks of the forming bucket, so it is
  inductive only with `BucketsConserve` (its vectors add up to its volume) and
  with the types; `HistoryContiguous` rests on `CappedAppend` and
  `HistorySlides`, what appending to a capped list does to a sequence numbered
  without holes. `ChunkSplit` and `SignedOiAdds` are the arithmetic of cutting a
  trade in two. The invariant is preserved through `CloseProperties`, shared by
  the two actions that close a bucket. `FillsToTarget` (no iteration takes
  more than the target allows, or closes a bucket that is not full) is proved
  and not run again. `ShipHolds` (the piggyback of a trade is the buckets it
  closed) needs to know what the loop has closed since its trade began, and
  assumes `TradesFit`: a trade is no larger than `Cap` targets, beyond which it
  would close more buckets than the list holds.
- *HistoryStore.* The rows on disk and the closed buckets are runs of consecutive
  numbers (`RunJoined`, `RunSuffix`, `RunRetained`, `RunAppended`). A pair of rows
  and a forming bucket is a `Snapshot`; the engine `Follows` the disk when it is
  what those rows become by closing buckets and pruning. The heart is
  `PreparedIsEngine`: the buckets after the cursor (or all of them, replacing the
  table, once the cap has pushed the cursor out), appended and pruned, are the
  engine. A queued payload must be `Sound` (the disk it will leave is a snapshot
  the engine has since gone on from), because buckets close while it waits.
  `StoreHolds` and `StoreIsDurable` follow: each action is one step of
  `DurableHistory` or none. They assume that no stop meets a write under way
  (with one the promise is broken, see above) and that `MaxBuckets` does not cut a
  first history short.
- *CatchupStream.* `CacheIInv`: every frame and task carries buckets of its own
  timeframe only (`OwnFrame`, `OwnTask`), the thread that waits for a baseline
  waits for the timeframe shown, and the last request on its way, wherever it is
  (not yet sent, on the wire, handled), is for the timeframe shown. The second
  part fails when the two threads overlap, so `CacheHolds` assumes
  `~MayOverlap`; `TypesHold` does not. `HistoryHolds` adds the *line* of a
  timeframe: everything on its way to the history in the order in which it will
  be applied, by position (the history at -1, the held frame at 0, the queue, and
  at the tip what the task has not sent). A position is `Late` when no START
  follows it: what is there will be in the history in the end. On every line a
  bucket is twice only with a START between, unless the timeframe is marred
  (`NotMarred`). A line that is `Steady` (the last request handled and begun, no
  frame dropped, no twin) satisfies `Download`: its late part has no bucket twice
  (`Apart`), all the daemon keeps (`Covers`: up to the cap, or when nothing closed
  during the download), in order and without gaps when nothing did (`Ordered`,
  `Gapless`), with END still to come or the history cut (`Ends`). Every action
  does one of five things to the line: positions shift, perhaps leaving the
  history behind (`Moves`, `MovesAll`), a frame merges into the history
  (`Merges`), one frame is sent (`Sends`), a catch-up begins (`Begins`), or the
  connection takes all of it. Once settled, the line is the history alone.
  `HistoryHolds` assumes `~MayOverlap` too, and uses that `None` is no frame
  (`NoneIsNoFrame`).
- *DepthStore.* A chain of lemmas from what a snapshot holds (`SnapshotsHold`:
  what the market's diffs up to its id say of the levels it lists) to the replay
  of the diffs between an anchor and a target, in the buffers, in a write's
  payload or in the tables (`RecordHolds`), to the prune, which takes no anchor
  from under a diff of the retained hours (`RetainedHolds`), and to the walk by
  time, which re-anchors where the walk by id does not (`WindowHolds`). Ghosts
  name the only diffs that may be missing: dropped by a buffer or a failed write,
  or sent while the daemon was away. The last three assume `~SnapInFlight`; with
  it TLC shows each of them violated, as described above.
- *CandleFraming.* `TapeHolds`: a footprint holds the trades of its candle that
  the socket has delivered, the others are counted in the queue (`PlacesGrow`,
  `PlacesShrink`) or in a gap, and a forced order is in one node. That a completed
  candle in the window is final (`CompletedHolds`) needs `LineIInv`: from the
  exchange over the klines, the daemon's last record and the frames to the window,
  no record goes back, and the final one of a completed candle is on its way or
  has arrived, unless a frame of it was lost.
- *ObRefresh* (in `DaemonTaskProofs`). `NoWorkerLeak` is inductive only with what a waiting rescan knows
  of the pool (`PoolOK`: it is the one in use, or none is). The latch needs an
  accounting (`FailsOK`): failures counted, plus one for a dead worker not yet
  reported, never exceed the faults, plus one for the warm-up, which may report a
  death the rescan reports too. `PoolHolds` assumes a limit of at least three, the
  code's value: at two, one death would latch the fallback. `BackwardHolds`: the
  matrices on their way to the window, in the queue's order, then in the loop,
  are not older than the one it has, unless a rescan started for a switch.
- *Analytics* (`AnalyticsProofs`: what the rescan computes). The inductive
  invariant is small, `ScanIInv`: the history is well formed, in the order of its
  start times, numbered without a gap, and the last `Cap` of what was closed. The
  work is in what the scans compute from it. A fold of the library over a finite
  set or over indices is unfolded once: a function that satisfies the recursion
  exists and is unique, by induction on the size of the subset, stated of a set
  of subsets (`Inductive`) so that no rule with an operator parameter is needed;
  over indices it is a `Walk`, with an invariant and a relation between two walks.
  `LevelsHold`: the band's search keeps its edges outside the wall it has crossed;
  mitigation moves only the near edge, to the deepest body since the confirmation,
  until a close goes through; a mark's extent is that of the clusters it merged.
  `ScansHold` compares the scan of a history with that of the history one bucket
  on. Up to the trim the second walk goes on from where the first stopped
  (`BlocksOnlyErode`, `MarksOnlyGrow`); across the trim the sums of a window and
  the order of a scan must not depend on the numbering, which two sections of
  their own show. `FlipHolds` is about two scans of a balance flip, by the
  bounds of the two sides' shares. `VerdictsHold`: the mirror image of a bucket has
  the opposite measures and the same factors (a sum over levels is renamed by the
  change of sign), so the scored states of the two match in pairs and the first of
  the best is the same; a decided state comes before every scored one; a selection
  of one bucket sums over one index; a weighted mean lies between the least and the
  greatest of its terms. The first two speak of the exact family only, where every
  factor is whole. They need of a bucket (`IsBucket`) that it opened and closed
  within its range and has a level, and that `poc` is its heaviest level: the first
  in the order of prices where two are equal, while the code takes the one traded
  first, so the model decides such a tie one way. `SeriesHold`: a prefix sum exists, is
  unique and equals the sum over its stretch, so the difference of two is the sum of
  a window (`SumsFromDiffer`), and the series are equal to their definitions, not
  only equal as quotients; the median of the absorbing buckets is reached by one of
  them, around which there is a maximal run (`RunAround`); a percentile lies between
  two neighbours in rank (`PercentileIs`), below which there are as many samples as
  its rank says. `Gcd` exists by Euclid's step and divides both (`GcdDivides`), so
  reducing a quotient does not change it.
- *The terminal* (`TerminalProofs`). *Tunnels*, `HandleOrSuperseded`: a live
  process is the one its terminal's handle names, or that terminal launched again
  later. What survives its terminal is then superseded, as the handle's process
  was killed. *Alerts*: an event that stood at the anchor is in the announced set
  of every rescan that can still be read out. *Drawings*, `DrawingIInv`: each
  window is sound by itself (`Good`: its two lists are apart, its dots sit on the
  shape but for the one under the mouse, which sits on it in the coordinates it
  writes, and off the canvas there is nothing to edit), and one that never shared
  the file agrees with it (`LoneFits`); while it starts, what the file holds is
  in its list or still to be built. The geometry (`DragSits`) goes through every
  role of every shape. *Selection*, `SelectionIInv`: the bucket list is numbered
  without holes and full but for its last bucket, one number separates what the
  timeframe switch left from what came after it, and the readout was computed
  from a list with the signature remembered for it. An equal signature then means
  an equal volume of the box, or one of the exceptions the property names.
  *Heat-map, the axis*, `HeatIInv`: the cache's columns lie in order between the floor and
  the clock, and so do the windows and the live columns wherever they are on
  their way. `FloorHolds`: unless a reply was lost or overtaken, every window on
  its way starts at the floor or later, and so does the cache, but while a reset
  is on its way. `StopIsSent`: the last line a closed heat-map has for the daemon
  is the stop, or the daemon has handled it. A window's step and a column's time
  are quotients, so the proof begins with lemmas about `\div`; what a frame's
  fold over the live columns (`AppendAll`) keeps is an induction over the set of
  lengths for which it holds (`AllNaturals`). *Heat-map, the settled view*,
  `SettledIInv`: an open heat-map none of whose replies was lost or overtaken
  either rests, showing what it was last asked for (`Shown`), or waits for one
  window, which is in one place on the way from the client's line to the frame
  (`OnItsWay`). Resting says where the cache begins: no later than the left edge
  and two pixels, or than three steps after what the cache's end cut off
  (`StartsBy`), its columns following each other closely (`InSteps`, without which
  trimming could open a gap at the front). A prepended window meets the cache
  because it was asked for up to its first column; that it is no coarser than
  three of the cache's steps is the quarter within which `_hm_request_visible`
  takes two steps for equal. All of these theorems are
  about the part's own specification. `MCTerminal` runs the steps of tunnels,
  alerts and selection beside the other components of the window, which share no
  variable with them; `AxisHolds` and `SettledHolds` are about what
  `heatmap_view` runs.

Only model-checked: liveness, which is out of the prover's reach;
`DocStrictlyAscending`, which is false; and the
invariants of `TerminalCanvas`, because the model tells buckets of one timeframe
apart by their number and starts again from the same numbers when the user comes
back to a timeframe: within its one trip of each kind this is harmless, beyond it
an invariant would speak of the model's names and not of the code.

## Not modelled

`PROJECT.json` lists every component with its status. Left out for good: Qt
painting and layout, configuration, packaging, scripts; the encoding of packets
beyond their order; floating-point rounding.

Left out of the modelled parts:

- analytics: ranking of blocks, the exhaustion measures, envelopes, anything
  between the two ends of a ramp;
- daemon: several clients (they share no state), the trade tape and its bubbles
  (`TradeRouter`, `TradeBubbleCache`), the order of the shutdown;
- stores: several timeframes in one transaction, a restart on an existing
  `depth.db`, the binning into price rows;
- heat-map: cell values, the fine BBO trace, `raw_at`;
- terminal: hover, overlay toggles, the order-book ladder, autofit. Two were
  looked at and are not worth a model: `m10_dom` toggled in a metric mode shows
  stale walls although the docstring (650-660) calls it a no-op, and "metric
  modes are hover-only" (798) is not so;
- alerts: `AlertsLedger.feed` has no caller.

Assumed: a rescan handed to a pool that another failure shuts down completes
(`shutdown(wait=False)` lets running work finish); a kill of the tunnel's process
works; the release of an edit dot that a mode switch removes in mid-drag is
delivered. A daemon's crash that loses unsaved buckets is in `HistoryStore`, not
in the terminal's modules.
