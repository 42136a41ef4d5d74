---------------------------- MODULE HeatmapView ----------------------------
(***************************************************************************)
(* The depth heat-map of one terminal window: the user pans and zooms, a   *)
(* debounce asks the daemon for what the view lacks, the daemon builds     *)
(* windows off its loop while it pushes one live column a pulse, and the   *)
(* 20 Hz frame stitches both into HeatmapCache.                            *)
(*                                                                         *)
(* A request carries no identity and nothing matches a reply with it: one  *)
(* word, hm_pending, says what the next window is for.  The daemon builds  *)
(* windows concurrently, so replies may overtake each other; a dropped     *)
(* line, a failed build or a reconnect loses one.                          *)
(*                                                                         *)
(* Time is in half milliseconds: whole milliseconds are even, and int()    *)
(* rounds a column's label down to one.  A column is its label and the     *)
(* price band it was binned in.                                            *)
(***************************************************************************)
EXTENDS Integers, Sequences, FiniteSets, SequencesExt, FiniteSetsExt

CONSTANTS
    Absent,         \* no value
    Bands,          \* price bands the user can look at
    Home,           \* the one around the price
    Bins,           \* Bins[b]: the price bins band b is cut into
    Pulse,          \* time between two live columns
    Px,             \* width of the plot in pixels
    MinCols,        \* least columns a request asks for (50 in the code)
    MinData,        \* least time a request asks for (one second in the code)
    MaxSpan,        \* max_span_ms of the cache
    Starts,         \* Scan Start Times the user picks
    Spans,          \* [lo, hi]: the times the user can pan or zoom to
    QueueMax,       \* frames the daemon keeps for a client
    FirstNow, MaxNow,       \* bound: time
    MaxRequests,    \* bound: windows asked for and times the mode is opened
    MaxFaults       \* bound: lines, builds and connections lost

ASSUME HeatmapViewAssumption ==
    /\ Absent \notin Bands \cup {"reset", "prepend"} /\ Home \in Bands
    /\ Absent \notin [kind : {"window"}, id : Nat, t0 : Nat, t1 : Nat, n : Nat, band : Bands]
    /\ Bins \in [Bands -> Nat \ {0}]
    /\ {Pulse, Px, MinCols, MinData, MaxSpan, QueueMax} \subseteq Nat \ {0}
    /\ Px <= MinData           \* HEATMAP_MAX_COLS is 1400
    /\ {FirstNow, MaxNow, MaxRequests, MaxFaults} \subseteq Nat /\ FirstNow <= MaxNow
    /\ \A v \in Spans : v.lo < v.hi
    /\ \A t \in Starts \cup {v.lo : v \in Spans} \cup {v.hi : v \in Spans} \cup {FirstNow, Pulse} :
          t \in Nat /\ t % 2 = 0
    /\ \A t \in Starts : t < FirstNow

VARIABLES
    now,                        \* the wall clock
    open, view, follow, debouncing, \* scanner_mode, vb.viewRange(), hm_follow, _hm_debounce
    floor, hmBand, pending,     \* hm_floor_ms, hm_band, hm_pending
    cache,                      \* hm_cache: [step, band, cols]
    outgoing,                   \* PipeClientWorker._outgoing and the socket
    delivered, livecols,        \* _hm_window and _hm_cols, the delivery buffers
    sub, jobs, queue,           \* the daemon: client.heatmap, windows in build, client.queue
    requests, faults,           \* counters of the bounds
    clean,                      \* no reply was lost or overtaken since the last lone reset
    weighed                     \* the last gesture was, against all that had been asked for

ui       == <<open, view, follow, debouncing, floor, weighed>>
stitch   == <<hmBand, pending, cache>>
client   == <<outgoing, delivered, livecols>>
daemon   == <<sub, jobs, queue>>
heatVars == <<now, ui, stitch, client, daemon, requests, faults, clean>>

Millis(t)    == t - (t % 2)
Larger(a, b) == IF a < b THEN b ELSE a
Lesser(a, b) == IF a < b THEN a ELSE b

EmptyCache == [step |-> 0, band |-> Absent, cols |-> <<>>]

Stop == [kind |-> "stop"]
Window(t0, t1, n, b) == [kind |-> "window", id |-> requests, t0 |-> t0, t1 |-> t1, n |-> n, band |-> b]

\* Windows asked for and not yet stitched in.
Unanswered ==
    jobs \cup {m \in ToSet(outgoing) \cup ToSet(queue) : m.kind = "window"}
         \cup (IF delivered = Absent THEN {} ELSE {delivered})

HeatInit ==
    /\ now = FirstNow
    /\ open = FALSE /\ follow = FALSE /\ debouncing = FALSE /\ floor = 0
    /\ view = [lo |-> 0, hi |-> FirstNow, band |-> Home]
    /\ hmBand = Absent /\ pending = Absent /\ cache = EmptyCache
    /\ outgoing = <<>> /\ delivered = Absent /\ livecols = <<>>
    /\ sub = Absent /\ jobs = {} /\ queue = <<>>
    /\ requests = 0 /\ faults = 0 /\ clean = TRUE /\ weighed = TRUE

-----------------------------------------------------------------------------
(* HeatmapCache *)

WindowCols(w) ==
    [i \in 1..w.n |-> [ts |-> w.t0 + (i * (w.t1 - w.t0)) \div w.n, band |-> w.band]]

Trim(cols) ==
    LET cutoff == cols[Len(cols)].ts - MaxSpan
        kept   == {i \in DOMAIN cols : i = Len(cols) \/ cols[i].ts >= cutoff}
    IN  SubSeq(cols, Min(kept), Len(cols))

CacheReset(w) == [step |-> (w.t1 - w.t0) \div w.n, band |-> w.band, cols |-> Trim(WindowCols(w))]

\* mutant of AppendLive: a new column keeps its own time, whatever the last was
AppendLive_OwnTime(c, col) ==
    IF c.cols = <<>> \/ Bins[col.band] # Bins[c.band] THEN c
    ELSE [c EXCEPT !.cols = Trim(Append(@, col))]

\* A column of another bin count is dropped; one within the step of the last
\* column overwrites it; one past it is labelled one step after the last.
AppendLive(c, col) ==
    LET last == c.cols[Len(c.cols)].ts
    IN  IF c.cols = <<>> \/ Bins[col.band] # Bins[c.band] THEN c
        ELSE IF col.ts >= last + c.step
        THEN [c EXCEPT !.cols = Trim(Append(@, [ts |-> last + c.step, band |-> col.band]))]
        ELSE [c EXCEPT !.cols[Len(c.cols)] = [ts |-> last, band |-> col.band]]

\* The columns before the first there is; a window's are in order.
PrependOlder(c, w) ==
    LET older == {i \in 1..w.n : WindowCols(w)[i].ts < c.cols[1].ts}
    IN  IF Bins[w.band] # Bins[c.band] \/ older = {} THEN c
        ELSE [c EXCEPT !.cols = SubSeq(WindowCols(w), 1, Max(older)) \o @]

-----------------------------------------------------------------------------
(* The user and the debounce *)

Ask(reset) ==
    /\ requests < MaxRequests
    /\ requests' = requests + 1
    /\ pending' = IF reset THEN "reset" ELSE "prepend"
    /\ clean' = ((clean \/ reset) /\ Unanswered = {})

\* The left edge of what may be loaded.
LeftEdge == Larger(view.lo, floor)

NeedStep == (view.hi - LeftEdge) \div Px

Columns(t0, t1) == Larger(MinCols, (t1 - t0) \div NeedStep)

\* _hm_enter(): opening the mode, and every change of the Scan Start Time
\* while it is open.  Without a price it stops before asking for anything.
Enter(start, priced) ==
    /\ cache' = EmptyCache /\ follow' = TRUE /\ open' = TRUE
    /\ IF priced
       THEN /\ Ask(TRUE)
            /\ floor' = start /\ hmBand' = Home
            /\ view' = [lo |-> start, hi |-> now, band |-> Home]
            /\ outgoing' = Append(outgoing, Window(start, now, Px, Home))
       ELSE /\ pending' = "reset"
            /\ requests < MaxRequests /\ requests' = requests + 1
            /\ clean' = (clean /\ Unanswered = {})
            /\ UNCHANGED <<floor, hmBand, view, outgoing>>
    /\ UNCHANGED <<now, debouncing, weighed, delivered, livecols, daemon, faults>>

\* _hm_exit(): the delivery buffers are emptied with the stop line.
Exit ==
    /\ open
    /\ open' = FALSE
    /\ outgoing' = Append(outgoing, Stop)
    /\ delivered' = Absent /\ livecols' = <<>>
    /\ cache' = EmptyCache /\ hmBand' = Absent /\ pending' = Absent
    /\ clean' = (clean /\ delivered = Absent)
    /\ UNCHANGED <<now, view, follow, debouncing, floor, weighed, daemon, requests, faults>>

\* A drag of the plot, or a zoom, which goes on following when it leaves the
\* live edge in place.
Pan(v, b) ==
    /\ open /\ ~debouncing
    /\ view' = [lo |-> v.lo, hi |-> v.hi, band |-> b]
    /\ debouncing' = TRUE
    /\ follow' \in IF v.hi - v.lo = view.hi - view.lo THEN {FALSE} ELSE BOOLEAN
    /\ UNCHANGED <<now, open, floor, weighed, stitch, client, daemon, requests, faults, clean>>

\* A double click: the view follows the clock again.
Refollow ==
    /\ open /\ ~follow
    /\ follow' = TRUE
    /\ UNCHANGED <<now, open, view, debouncing, floor, weighed, stitch, client, daemon, requests, faults, clean>>

\* mutant of BandOk: any band that is loaded
BandOk_Any == hmBand # Absent

\* The view shows the band that is loaded.
BandOk == hmBand = view.band

\* _hm_request_visible(), 130 ms after the last gesture.
RequestVisible ==
    LET lo     == LeftEdge
        hi     == Lesser(view.hi, now)
        first  == cache.cols[1].ts
        fits   == /\ BandOk /\ cache.cols # <<>>
                  /\ 4 * Larger(cache.step - NeedStep, NeedStep - cache.step) < NeedStep
                  /\ hi <= cache.cols[Len(cache.cols)].ts
        loaded == fits /\ first <= lo
    IN  /\ debouncing
        /\ debouncing' = FALSE
        /\ weighed' = (hi - lo >= MinData /\ (loaded => Unanswered = {}))
        /\ IF ~open \/ hi - lo < MinData \/ loaded
           THEN UNCHANGED <<stitch, client, requests, clean>>
           ELSE IF fits
           THEN LET w == Window(lo, Millis(first), Columns(lo, first), hmBand)
                IN  /\ Ask(FALSE)
                    /\ outgoing' = Append(outgoing, w)
                    /\ UNCHANGED <<hmBand, cache, delivered, livecols>>
           ELSE LET w == Window(lo, hi, Columns(lo, hi), view.band)
                IN  /\ Ask(TRUE)
                    /\ hmBand' = view.band
                    /\ outgoing' = Append(outgoing, w)
                    /\ UNCHANGED <<cache, delivered, livecols>>
        /\ UNCHANGED <<now, open, view, follow, floor, daemon, faults>>

\* Every column there is, one after the other; a singleton, so that TLC binds
\* it to its value.
AppendAll(c, cols) ==
    LET after[k \in 0..Len(cols)] ==
            IF k = 0 THEN {c} ELSE {AppendLive(x, cols[k]) : x \in after[k - 1]}
    IN  after[Len(cols)]

\* _scan_depth_heatmap(): the delivered window first, then every live column
\* there is, whichever came first on the wire.
Frame ==
    LET prepend == pending = "prepend" /\ cache.cols # <<>>
        stitched == IF delivered = Absent THEN cache
                    ELSE IF prepend THEN PrependOlder(cache, delivered)
                    ELSE CacheReset(delivered)
    IN  /\ open
        /\ \E c \in AppendAll(stitched, livecols) : cache' = c
        /\ hmBand' = IF delivered = Absent \/ prepend THEN hmBand ELSE delivered.band
        /\ pending' = IF delivered = Absent THEN pending ELSE Absent
        /\ delivered' = Absent /\ livecols' = <<>>
        /\ view' = IF follow /\ cache'.cols # <<>> THEN [view EXCEPT !.lo = now - (view.hi - view.lo), !.hi = now] ELSE view
        /\ UNCHANGED <<now, open, follow, debouncing, floor, weighed, outgoing, daemon, requests, faults, clean>>

-----------------------------------------------------------------------------
(* The daemon *)

\* _enqueue(): a frame for a full queue is dropped.
Send(frame) ==
    IF Len(queue) < QueueMax
    THEN queue' = Append(queue, frame) /\ UNCHANGED <<faults, clean>>
    ELSE /\ faults < MaxFaults
         /\ faults' = faults + 1 /\ clean' = FALSE
         /\ UNCHANGED queue

\* mutant of HandleControl: a band already subscribed to is not built again
HandleControl_Known ==
    /\ outgoing # <<>>
    /\ outgoing' = Tail(outgoing)
    /\ IF Head(outgoing).kind = "stop"
       THEN sub' = Absent /\ UNCHANGED jobs
       ELSE /\ sub' = Head(outgoing).band
            /\ jobs' = IF sub = sub' THEN jobs ELSE jobs \cup {Head(outgoing)}
    /\ UNCHANGED <<now, ui, stitch, delivered, livecols, queue, requests, faults, clean>>

\* _handle_control(): a window request also subscribes to the live columns.
HandleControl ==
    /\ outgoing # <<>>
    /\ outgoing' = Tail(outgoing)
    /\ IF Head(outgoing).kind = "stop"
       THEN sub' = Absent /\ UNCHANGED jobs
       ELSE /\ sub' = Head(outgoing).band
            /\ jobs' = jobs \cup {Head(outgoing)}
    /\ UNCHANGED <<now, ui, stitch, delivered, livecols, queue, requests, faults, clean>>

\* _send_depth_window() back from the executor, in any order.
BuildDone(w) ==
    /\ Send(w)
    /\ jobs' = jobs \ {w}
    /\ UNCHANGED <<now, ui, stitch, client, sub, requests>>

BuildFails(w) ==
    /\ faults < MaxFaults
    /\ faults' = faults + 1 /\ clean' = FALSE
    /\ jobs' = jobs \ {w}
    /\ UNCHANGED <<now, ui, stitch, client, sub, queue, requests>>

\* depth_live_loop()
LivePulse ==
    /\ now + Pulse <= MaxNow
    /\ now' = now + Pulse
    /\ IF sub = Absent THEN UNCHANGED <<queue, faults, clean>>
       ELSE Send([kind |-> "column", ts |-> now', band |-> sub])
    /\ UNCHANGED <<ui, stitch, client, sub, jobs, requests>>

-----------------------------------------------------------------------------
(* The connection *)

\* PipeClientWorker._apply(): only the last window is kept for the frame.
Deliver ==
    /\ queue # <<>>
    /\ queue' = Tail(queue)
    /\ IF Head(queue).kind = "window"
       THEN delivered' = Head(queue) /\ UNCHANGED livecols
       ELSE /\ livecols' = Append(livecols, [ts |-> Head(queue).ts, band |-> Head(queue).band])
            /\ UNCHANGED delivered
    /\ UNCHANGED <<now, ui, stitch, outgoing, sub, jobs, requests, faults, clean>>

\* The socket breaks: what the daemon had for this client goes with it, lines
\* that were being flushed are gone, and the daemon knows the new connection
\* as a client without a heat-map.
Reconnect ==
    /\ faults < MaxFaults
    /\ faults' = faults + 1 /\ clean' = FALSE
    /\ \E k \in 0..Len(outgoing) : outgoing' = SubSeq(outgoing, k + 1, Len(outgoing))
    /\ sub' = Absent /\ jobs' = {} /\ queue' = <<>>
    /\ UNCHANGED <<now, ui, stitch, delivered, livecols, requests>>

HeatNext ==
    \/ \E start \in Starts, priced \in BOOLEAN : Enter(start, priced)
    \/ Exit
    \/ \E v \in Spans, b \in Bands : Pan(v, b)
    \/ Refollow
    \/ RequestVisible
    \/ Frame
    \/ HandleControl
    \/ \E w \in jobs : BuildDone(w) \/ BuildFails(w)
    \/ LivePulse
    \/ Deliver
    \/ Reconnect

HeatSpec == HeatInit /\ [][HeatNext]_heatVars

\* The timer, the frame clock, the daemon's loop, its executor and the
\* client's thread all keep running.
Fairness ==
    /\ WF_heatVars(Frame)
    /\ WF_heatVars(HandleControl)
    /\ SF_heatVars(\E w \in jobs : BuildDone(w))
    /\ WF_heatVars(Deliver)

FairSpec == HeatSpec /\ Fairness

-----------------------------------------------------------------------------
(* Properties *)

Labels  == 0..(2 * MaxNow)
Replies == [kind : {"window"}, id : 0..MaxRequests, t0 : Labels, t1 : Labels,
            n : Nat \ {0}, band : Bands]

\* The state has its shape; a window is never asked for backwards.
HeatTypeOK ==
    /\ now \in FirstNow..MaxNow
    /\ {open, follow, debouncing, clean, weighed} \subseteq BOOLEAN
    /\ view.band \in Bands /\ {sub, hmBand, cache.band} \subseteq Bands \cup {Absent}
    /\ pending \in {Absent, "reset", "prepend"}
    /\ \A col \in ToSet(cache.cols) : col.ts \in Labels /\ col.band \in Bands
    /\ jobs \subseteq Replies /\ \A w \in Unanswered : w.t0 <= w.t1
    /\ Len(queue) <= QueueMax

\* Whatever order windows, live columns, pans and reconnects come in, the
\* cache's time axis never runs backwards: visible() and span() read it as sorted.
AxisOrdered ==
    \A i, j \in DOMAIN cache.cols : i < j => cache.cols[i].ts <= cache.cols[j].ts

\* Once the daemon has handled every line, a window that left the heat-map
\* costs it no more live columns.
NoPushAfterExit == ~open /\ outgoing = <<>> => sub = Absent

Quiet == open /\ Unanswered = {} /\ ~debouncing /\ pending = Absent

\* When requests are answered one at a time and nothing is lost, an idle view
\* is drawn in the band the daemon keeps live.  If it stopped following, and its
\* last gesture was weighed with nothing on its way, it shows that band and is
\* loaded from its left edge on, or from where the cache ends, but for what
\* dividing the time into whole columns costs.
SettledMeansLoaded ==
    Quiet /\ clean /\ cache.cols # <<>> =>
        /\ hmBand = cache.band /\ sub = hmBand
        /\ ~follow /\ weighed =>
              /\ cache.band = view.band
              /\ cache.cols[1].ts <= Larger(LeftEdge + 2 * NeedStep,
                                            cache.cols[Len(cache.cols)].ts - MaxSpan + 3 * cache.step + 1)

\* Nothing from before the Scan Start Time is loaded.
FloorRespected ==
    clean /\ pending = Absent => \A col \in ToSet(cache.cols) : col.ts >= floor

\* A window asked for is stitched in, unless the heat-map is closed, a reply
\* is lost or the requests overlap.
WindowArrives ==
    pending # Absent /\ Unanswered # {} ~> pending = Absent \/ ~open \/ ~clean

\* What the cache says of itself: its columns are "strictly ascending ts".
DocStrictlyAscending ==
    \A i, j \in DOMAIN cache.cols : i < j => cache.cols[i].ts < cache.cols[j].ts

\* The stitched cache is a sorted axis that starts at the floor, and the daemon
\* pushes columns only to a window that shows them.
AxisAndFeedAreSound == HeatTypeOK /\ AxisOrdered /\ FloorRespected /\ NoPushAfterExit
=============================================================================
