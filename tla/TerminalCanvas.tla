--------------------------- MODULE TerminalCanvas ---------------------------
(***************************************************************************)
(* What the terminal draws of the bucket stream.  The daemon ships a closed *)
(* bucket the moment a trade closes it and the forming one only with the    *)
(* next live-edge pulse; the worker thread applies both to its cache; the   *)
(* 20 Hz frame exports the cache copy-on-write and draws it behind three    *)
(* more caches: the draw gate, the bucket pipeline's signature and the      *)
(* per-bucket compute cache.  None of the caches is told what changed: each *)
(* one compares a fingerprint of what it sees.                              *)
(*                                                                         *)
(* A bucket is its timeframe, its number, the time of the trade that opened *)
(* it and its volume.  A row of the drawing is the buckets it was computed  *)
(* from.  The scanner mode is Mode 10 throughout.                           *)
(***************************************************************************)
EXTENDS Integers, Sequences, SequencesExt

CONSTANTS
    Cap,            \* CLOSED_BUCKETS_CAP
    Targets,        \* Targets[tf]: the bucket volume of a timeframe
    FirstTf,        \* the timeframe the window opens with
    Trades,         \* volumes of a trade
    Trail,          \* length of the trailing windows a row looks back on
    Grain,          \* volumes the one-decimal rounding of the signature merges
    Others,         \* [n, t]: the other timeframe's engine holds n buckets opened at t
    Anchors,        \* Scan Start Times (Zero Points) the user picks
    ChunkLen,       \* buckets in a catch-up chunk
    WireCap,        \* bound: packets on their way
    MaxBuckets,     \* bound: buckets the daemon closes, one of them after a switch
    MaxTime,        \* bound: the time of a trade
    MaxBreaks       \* bound: connections lost and timeframe switches

Tfs == DOMAIN Targets

ASSUME TerminalCanvasAssumption ==
    /\ FirstTf \in Tfs
    /\ {Cap, Trail, Grain, ChunkLen} \subseteq Nat \ {0}
    /\ \A tf \in Tfs : Targets[tf] \in Nat \ {0}
    /\ \A v \in Trades : v \in 1..Targets[FirstTf]
    /\ Anchors \subseteq Nat /\ 0 \in Anchors
    /\ \A o \in Others : o.n \in 0..Cap /\ o.n < MaxBuckets /\ o.t \in 0..MaxTime

VARIABLES
    hist, forming,          \* the daemon's closed_buckets and active_bucket
    dropped,                \* the daemon's history was at its cap and lost its oldest bucket
    wire,                   \* packets sent and not applied yet, in order
    tf, closed, active,     \* the worker's cache
    dirty, export,          \* _cb_exp_ver # _cb_ver; _cb_exp
    anchor,                 \* menu.scan_start_unix()
    drawSig, buildSig, built, \* _last_scanner_sig, _scanner_bucket_sig, _scanner_bucket_cache
    cc,                     \* _m10_cc
    drawn,                  \* the buckets on the canvas and the rows drawn for them
    breaks                  \* counter of the bound

daemonSide == <<hist, forming, dropped>>
cache      == <<tf, closed, active>>
frameState == <<dirty, export, drawSig, buildSig, built, cc, drawn>>
canvasVars == <<daemonSide, wire, cache, frameState, anchor, breaks>>

Absent    == [tf |-> FirstTf, id |-> 0, start |-> 0, vol |-> 0]
NoSig     == <<>>
NoCompute == [front |-> <<>>, anchor |-> 0, rows |-> <<>>, fold |-> <<>>]
Blank     == [list |-> <<>>, rows |-> <<>>]

Newest(s, n)  == IF Len(s) > n THEN SubSeq(s, Len(s) - n + 1, Len(s)) ELSE s
Packet(kind, f, bs, edge) == [kind |-> kind, tf |-> f, buckets |-> bs, active |-> edge]

\* Header, the history in chunks, footer with the forming bucket.
CatchUp(f, bs, edge) ==
    LET n == (Len(bs) + ChunkLen - 1) \div ChunkLen
        chunk(i) == SubSeq(bs, (i - 1) * ChunkLen + 1,
                           IF i * ChunkLen < Len(bs) THEN i * ChunkLen ELSE Len(bs))
    IN  <<Packet("start", f, <<>>, Absent)>>
        \o [i \in 1..n |-> Packet("chunk", f, chunk(i), Absent)]
        \o <<Packet("end", f, <<>>, edge)>>

CanvasInit ==
    /\ hist = <<>> /\ dropped = FALSE
    /\ forming = [tf |-> FirstTf, id |-> 1, start |-> 0, vol |-> 0]
    /\ wire = CatchUp(FirstTf, <<>>, forming)
    /\ tf = FirstTf /\ closed = <<>> /\ active = Absent
    /\ dirty = TRUE /\ export = <<>>
    /\ anchor = 0
    /\ drawSig = NoSig /\ buildSig = NoSig /\ built = <<>>
    /\ cc = NoCompute /\ drawn = Blank
    /\ breaks = 0

-----------------------------------------------------------------------------
(* The daemon *)

\* A trade fills the forming bucket; what does not fit closes it, opens the
\* next one at the trade's time and ships the closed one at once.
Trade(v, t) ==
    LET target == Targets[forming.tf]
        full   == [forming EXCEPT !.vol = target]
    IN  /\ Len(wire) < WireCap
        /\ IF forming.vol + v <= target
           THEN /\ t = forming.start
                /\ forming' = [forming EXCEPT !.vol = @ + v]
                /\ UNCHANGED <<hist, dropped, wire>>
           ELSE /\ forming.id <= MaxBuckets
                /\ hist' = Newest(Append(hist, full), Cap)
                /\ dropped' = (dropped \/ Len(hist) = Cap)
                /\ forming' = [forming EXCEPT !.id = @ + 1, !.start = t,
                                              !.vol = forming.vol + v - target]
                /\ wire' = Append(wire, Packet("close", forming.tf, <<full>>, Absent))
        /\ UNCHANGED <<cache, frameState, anchor, breaks>>

\* live_edge_loop: the forming bucket as it is now.
Pulse ==
    /\ Len(wire) < WireCap
    /\ wire' = Append(wire, Packet("tick", forming.tf, <<>>, forming))
    /\ UNCHANGED <<daemonSide, cache, frameState, anchor, breaks>>

\* The socket drops, with what was on its way; the worker dials again and the
\* daemon streams the whole history.
Reconnect ==
    /\ breaks < MaxBreaks /\ breaks' = breaks + 1
    /\ wire' = CatchUp(forming.tf, hist, forming)
    /\ UNCHANGED <<daemonSide, cache, frameState, anchor>>

-----------------------------------------------------------------------------
(* The worker thread *)

\* mutant of Deliver: a chunk is appended without a new version
Deliver_ChunkUnversioned ==
    /\ wire # <<>>
    /\ wire' = SubSeq(wire, 2, Len(wire))
    /\ LET pkt == wire[1]
       IN  IF pkt.tf # tf THEN UNCHANGED <<closed, active, dirty>>
           ELSE /\ closed' = CASE pkt.kind = "start" -> <<>>
                               [] pkt.kind \in {"chunk", "close"} -> closed \o pkt.buckets
                               [] OTHER -> closed
                /\ active' = IF pkt.kind \in {"end", "tick"} THEN pkt.active ELSE active
                /\ dirty' = (dirty \/ pkt.kind = "start")
    /\ UNCHANGED <<daemonSide, tf, export, drawSig, buildSig, built, cc, drawn,
                   anchor, breaks>>

\* One packet of the subscribed timeframe; any other is dropped.
Deliver ==
    /\ wire # <<>>
    /\ wire' = SubSeq(wire, 2, Len(wire))
    /\ LET pkt  == wire[1]
           size == Len(closed) + Len(pkt.buckets)
       IN  IF pkt.tf # tf THEN UNCHANGED <<closed, active, dirty>>
           ELSE /\ closed' = CASE pkt.kind = "start" -> <<>>
                               [] pkt.kind = "chunk" -> closed \o pkt.buckets
                               [] pkt.kind = "tick"  -> closed
                               [] OTHER -> Newest(closed \o pkt.buckets, Cap)
                /\ active' = IF pkt.kind \in {"end", "tick"} THEN pkt.active ELSE active
                /\ dirty' = (\/ dirty
                             \/ pkt.kind \in {"start", "chunk", "close"}
                             \/ pkt.kind = "end" /\ size > Cap)
    /\ UNCHANGED <<daemonSide, tf, export, drawSig, buildSig, built, cc, drawn,
                   anchor, breaks>>

-----------------------------------------------------------------------------
(* The bucket pipeline *)

\* The closed buckets and the forming one, unless it looks like the last of
\* them: same opening time and same volume.
Combined(s) ==
    LET last == s.closed[Len(s.closed)]
        stale == /\ s.closed # <<>>
                 /\ s.active.start = last.start
                 /\ s.active.vol = last.vol
    IN  IF s.active.vol > 0 /\ ~stale THEN Append(s.closed, s.active) ELSE s.closed

Since(list, a) == SelectSeq(list, LAMBDA b : b.start >= a)

\* _bucket_row: bucket i with the velocities and the buckets of its trailing
\* windows and the running baseline before it.
Row(list, i, vels, fold) ==
    LET first == IF i > Trail THEN i - Trail + 1 ELSE 1
    IN  [own |-> list[i], vels |-> SubSeq(vels, first, i),
         window |-> SubSeq(list, first, i), baseline |-> Append(fold, list[i])]

Fingerprint(list) == <<list[1].start, list[1].vol>>

\* mutant of ComputeFrom: the live edge is kept with the closed buckets
ComputeFrom_KeepsEdge(kept, list, a) ==
    LET reuse == kept.front = Fingerprint(list) /\ kept.anchor = a /\ Len(kept.rows) <= Len(list)
        old  == IF reuse THEN kept.rows ELSE <<>>
        vels == [i \in 1..Len(list) |-> IF i <= Len(old) THEN old[i].own ELSE list[i]]
        rows == [i \in 1..Len(list) |->
                    IF i <= Len(old) THEN old[i]
                    ELSE Row(list, i, vels, SubSeq(vels, 1, i - 1))]
    IN  [front |-> Fingerprint(list), anchor |-> a, rows |-> rows, fold |-> vels]

\* _compute_bucket_arrays, its kept part: the rows of all but the last bucket,
\* those computed before reused when front, anchor and length allow.
ComputeFrom(kept, list, a) ==
    LET reuse == kept.front = Fingerprint(list) /\ kept.anchor = a /\ Len(kept.rows) < Len(list)
        old  == IF reuse THEN kept.rows ELSE <<>>
        seen == IF reuse THEN kept.fold ELSE <<>>
        vels == seen \o SubSeq(list, Len(old) + 1, Len(list) - 1)
        rows == [i \in 1..(Len(list) - 1) |->
                    IF i <= Len(old) THEN old[i]
                    ELSE Row(list, i, vels, SubSeq(vels, 1, i - 1))]
    IN  [front |-> Fingerprint(list), anchor |-> a, rows |-> rows, fold |-> vels]

\* ... and the live edge, computed anew on top of it.
Arrays(kept, list) ==
    kept.rows \o
    (IF Len(kept.rows) = Len(list) THEN <<>>
     ELSE <<Row(list, Len(list), Append(kept.fold, list[Len(list)]), kept.fold)>>)

-----------------------------------------------------------------------------
(* The 20 Hz frame *)

\* mutant of DrawSig: the gate looks at the live volume alone
DrawSig_VolumeOnly(s, a) == <<0, s.active.vol, a>>

DrawSig(s, a)  == <<Len(s.closed), s.active.vol, a>>
BuildSig(s, a) == <<Len(Combined(s)), s.active.vol \div Grain, a>>

\* _on_timer and _draw_scanner, from anchor a and the signatures the caller
\* leaves.  A lifecycle change of the absorption marks opens the gate too.
FrameFrom(a, dsig, bsig, shown, marksMoved) ==
    \E s \in {[closed |-> IF dirty THEN closed ELSE export, active |-> active]} :
        /\ export' = s.closed /\ dirty' = FALSE /\ anchor' = a
        /\ drawSig' = DrawSig(s, a)
        /\ IF dsig = DrawSig(s, a) /\ ~marksMoved
           THEN buildSig' = bsig /\ drawn' = shown /\ UNCHANGED <<built, cc>>
           ELSE \E list \in {IF bsig = BuildSig(s, a) THEN built ELSE Since(Combined(s), a)} :
                /\ buildSig' = BuildSig(s, a) /\ built' = list
                /\ IF list = <<>> THEN drawn' = shown /\ UNCHANGED cc
                   ELSE \E kept \in {ComputeFrom(cc, list, a)} :
                        cc' = kept /\ drawn' = [list |-> list, rows |-> Arrays(kept, list)]

Frame ==
    /\ \E m \in BOOLEAN : FrameFrom(anchor, drawSig, buildSig, drawn, m)
    /\ UNCHANGED <<daemonSide, wire, cache, breaks>>

\* Scan Start moved in the menu: teardown, then a frame.
ScanTimeChanged(a) ==
    /\ \E m \in BOOLEAN : FrameFrom(a, NoSig, NoSig, Blank, m)
    /\ UNCHANGED <<daemonSide, wire, cache, breaks>>

\* Ctrl + wheel: the edit moves at once, the redraw waits for the debounce.
Nudge(a) ==
    /\ anchor' = a
    /\ UNCHANGED <<daemonSide, wire, cache, frameState, breaks>>

\* _change_tf and request_timeframe; the daemon answers with the catch-up of
\* the other engine, which holds n buckets.
SwitchTf(f, n, t) ==
    /\ f # tf
    /\ breaks < MaxBreaks /\ breaks' = breaks + 1
    /\ tf' = f /\ closed' = <<>> /\ active' = Absent /\ dirty' = TRUE
    /\ drawSig' = NoSig /\ buildSig' = NoSig /\ cc' = NoCompute
    /\ hist' = [i \in 1..n |-> [tf |-> f, id |-> MaxBuckets - n + i - 1, start |-> t,
                                vol |-> Targets[f]]]
    /\ forming' = [tf |-> f, id |-> MaxBuckets, start |-> t, vol |-> 1]
    /\ dropped' = FALSE
    /\ wire' = wire \o CatchUp(f, hist', forming')
    /\ UNCHANGED <<export, built, drawn, anchor>>

CanvasNext ==
    \/ \E v \in Trades, t \in forming.start..MaxTime : Trade(v, t)
    \/ Pulse
    \/ Reconnect
    \/ Deliver
    \/ Frame
    \/ \E a \in Anchors : ScanTimeChanged(a) \/ Nudge(a)
    \/ \E f \in Tfs, o \in Others : SwitchTf(f, o.n, o.t)

-----------------------------------------------------------------------------
(* Properties *)

IsBucket(b) == /\ b.tf \in Tfs /\ b.id \in 0..(MaxBuckets + 1)
               /\ b.start \in Nat /\ b.vol \in 0..Targets[b.tf]

\* Every bucket in a list, packet or drawing is one; the signatures and the
\* caches have the shape their code gives them.
CanvasTypeOK ==
    /\ \A b \in ToSet(hist) \cup ToSet(closed) \cup ToSet(export) \cup ToSet(built)
                \cup ToSet(drawn.list) \cup {forming, active} : IsBucket(b)
    /\ Len(hist) <= Cap /\ tf \in Tfs /\ dirty \in BOOLEAN /\ anchor \in Anchors
    /\ \A p \in ToSet(wire) : /\ p.kind \in {"start", "chunk", "end", "close", "tick"}
                              /\ p.tf \in Tfs
                              /\ IsBucket(p.active) /\ \A b \in ToSet(p.buckets) : IsBucket(b)
    /\ drawSig = NoSig \/ Len(drawSig) = 3
    /\ Len(drawn.rows) = Len(drawn.list)
    /\ breaks \in 0..MaxBreaks

\* The rows on the canvas are those a computation from nothing gives, through
\* frames in the middle of a catch-up, reconnects, anchor moves and switches;
\* they are stale only when the cap dropped a front bucket and the next one
\* opened at the same time with the same volume.  (_compute_bucket_arrays says
\* "never a stale reuse".)
StaleRowsNeedACollision ==
    LET n == Len(drawn.list)
        fresh == [i \in 1..n |-> Row(drawn.list, i, drawn.list, SubSeq(drawn.list, 1, i - 1))]
    IN  drawn.rows # fresh =>
          /\ drawn.rows[1].own # drawn.list[1]
          /\ Fingerprint(<<drawn.rows[1].own>>) = Fingerprint(drawn.list)

\* The forming bucket is exactly full: the next trade closes it as it is.
Brimful(b) == b.vol = Targets[b.tf]

\* After a frame every closed bucket at or after the Zero Point is on the
\* canvas, whatever the gate skipped and the pipeline's signature reused; only
\* a history at its cap, or a forming bucket filled to the brim and not closed
\* yet, can hide one.
NothingClosedIsHidden ==
    [][ /\ drawSig' # drawSig \/ export' # export
        /\ drawSig' # NoSig
        /\ ~dropped
        /\ ~Brimful(active')
        => ToSet(Since(export', anchor')) \subseteq ToSet(drawn'.list) ]_canvasVars

\* The canvas never shows two timeframes at once, and the old one is gone with
\* the first frame that has a bucket of the new one at or after the Zero Point.
\* (Until then _draw_scanner leaves it, not the "clean empty canvas" it names.)
OldTimeframeLeavesAtOnce ==
    [][ /\ \A b, c \in ToSet(drawn'.list) : b.tf = c.tf
        /\ (/\ drawSig' # NoSig /\ drawSig' # drawSig /\ ~Brimful(active')
            /\ Since(export', anchor') # <<>>)
              => \A b \in ToSet(drawn'.list) : b.tf = tf' ]_canvasVars

\* Once the market rests and the user leaves the Zero Point alone, the canvas
\* comes to show every bucket the daemon closed since the Zero Point, however
\* the catch-up, the pulses and the frames interleaved, unless the history
\* dropped its oldest or the last bucket is exactly full.
CanvasCatchesUp ==
    <>[][UNCHANGED anchor]_canvasVars =>
        <>[](\/ dropped \/ Brimful(forming)
             \/ ToSet(Since(hist, anchor)) \subseteq ToSet(drawn.list))

\* The caches behind the drawing have their shape and reuse only rows that hold.
CachesAreSound == CanvasTypeOK /\ StaleRowsNeedACollision

\* A frame that draws shows what closed, and nothing of another timeframe.
FrameIsCurrent == NothingClosedIsHidden /\ OldTimeframeLeavesAtOnce
=============================================================================
