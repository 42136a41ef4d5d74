------------------------- MODULE TerminalSelection -------------------------
(***************************************************************************)
(* The Magic Selection of Mode 10: a box over bucket indices and the heavy  *)
(* readout computed from the buckets inside it.  The readout is refreshed   *)
(* on every frame, on every toggle, slider drag and edit of the box, and    *)
(* skipped when a signature of its inputs is unchanged.                     *)
(*                                                                         *)
(* A bucket is its number, its volume and the forced volume in it.  A       *)
(* readout is the inputs it was computed from, so that two readouts are     *)
(* equal exactly when they show the same.                                   *)
(***************************************************************************)
EXTENDS Integers, Sequences, SequencesExt

CONSTANTS
    SelCap,         \* CLOSED_BUCKETS_CAP
    SelTargets,     \* SelTargets[tf]: the bucket volume of a timeframe
    SelBoxes,       \* the index boxes <<lo, hi>> the user draws, from 0
    SelAnchors,     \* Scan Start Times, as the number of the first bucket shown
    Lookback,       \* buckets before the box that the trailing windows reach
    VpinWindow,     \* VPIN_ADAPT_WINDOW
    Drawable,       \* least number of buckets a panel is drawn for
    SelPanels,      \* the panels with a key of their own ('1' to '7')
    SelMaxId,       \* bound: buckets opened
    SelMaxForced    \* bound: liquidations per bucket

ASSUME TerminalSelectionAssumption ==
    /\ {SelCap, Lookback, VpinWindow, Drawable, SelMaxId} \subseteq Nat \ {0}
    /\ 1 \in DOMAIN SelTargets
    /\ \A tf \in DOMAIN SelTargets : SelTargets[tf] \in Nat \ {0}
    /\ \A b \in SelBoxes : b[1] \in Nat /\ b[2] \in Nat
    /\ SelAnchors \subseteq Nat /\ 0 \in SelAnchors
    /\ SelMaxForced \in Nat

VARIABLES
    selTf,          \* the window's timeframe
    bars, edge,     \* the worker's closed buckets and live edge
    snap,           \* _last_snap: [closed, live, tv]
    selAnchor,      \* menu.scan_start_unix()
    listSig, list,  \* _scanner_bucket_sig, _scanner_bucket_cache
    onCanvas,       \* scanner_mode = "bucket_canvas"
    box, boxObj,    \* the selection's corners; the identity of the selection
    panels, boxOn,  \* show_abs_strip .. show_phase; show_sel_stats
    slider,         \* [by, obj]: who set the zone threshold, for which selection
    sliderOf,       \* _zone_sel_id, _eff_sel_id
    selSig,         \* _sel_sig
    readout,        \* what the overlays show
    statsBox        \* the stats box and its sliders are on the screen

feedSide == <<selTf, bars, edge>>
viewSide == <<selAnchor, onCanvas, box, boxObj, panels, boxOn>>
selectionVars == <<feedSide, snap, listSig, list, viewSide,
                   slider, sliderOf, selSig, readout, statsBox>>

NoBox     == <<>>
NoReadout == <<>>
NoKey     == <<>>
Empty(id) == [id |-> id, vol |-> 0, forced |-> 0]

AtMost(s, n) == IF Len(s) > n THEN SubSeq(s, Len(s) - n + 1, Len(s)) ELSE s
LeastOf(a, b) == IF a < b THEN a ELSE b
MostOf(a, b)  == IF a < b THEN b ELSE a

----------------------------------------------------------------------------
(* _build_scanner_buckets: the closed buckets and the live edge from the    *)
(* Zero Point on, rebuilt when their number, the live volume or the Zero     *)
(* Point changed.  Buckets are in the order of their numbers: those before   *)
(* the Zero Point come first.                                               *)
Joined(s)      == IF s.live.vol > 0 THEN Append(s.closed, s.live) ELSE s.closed
ListKey(s, a)  == <<Len(Joined(s)), s.live.vol, a>>
Early(s, a)    == {i \in DOMAIN Joined(s) : Joined(s)[i].id < a}
FromZero(s, a) == SubSeq(Joined(s), Cardinality(Early(s, a)) + 1, Len(Joined(s)))

(* int(ceil(x0)) and int(floor(x1)) clipped to the buckets there are.        *)
SpanOf(l, b) == <<b[1], LeastOf(b[2], Len(l) - 1)>>
Inside(l, b) == SpanOf(l, b)[2] >= SpanOf(l, b)[1]
Held(l, b)   == SpanOf(l, b)[2] - SpanOf(l, b)[1] + 1

\* the adaptive VPIN tier ranks the box among windows of its length
Ranked(l, b)      == Held(l, b) <= LeastOf(VpinWindow, Len(l))
TouchesLive(l, b) == SpanOf(l, b)[2] >= Len(l) - 1

\* mutant of Signature: only the size of the list stands for the live edge
Signature_NoLiveEdge(l, b, thr, tv) ==
    <<b, Len(l), SpanOf(l, b), TouchesLive(l, b), 0, panels', boxOn', thr, tv>>

Signature(l, b, thr, tv) ==
    <<b, Len(l), SpanOf(l, b), TouchesLive(l, b),
      IF TouchesLive(l, b) \/ Ranked(l, b) THEN l[Len(l)].vol ELSE 0,
      panels', boxOn', thr, tv>>

(* The buckets the aggregate, the state, the sparklines, the flip and the    *)
(* zones read: those of the box and the trailing windows before them.        *)
SpanRead(l, b) == SubSeq(l, MostOf(1, SpanOf(l, b)[1] + 1 - Lookback), SpanOf(l, b)[2] + 1)

(* The panels are drawn from the box alone, when it holds enough buckets.    *)
PanelsShown(l, b, ps) == IF Held(l, b) >= Drawable THEN ps ELSE {}

Computed(l, b, ps, thr, tv) ==
    [front  |-> l[1].id,
     span   |-> SpanRead(l, b),
     tail   |-> IF Ranked(l, b) THEN AtMost(l, VpinWindow) ELSE <<>>,
     panels |-> PanelsShown(l, b, ps), thr |-> thr, tv |-> tv]

(* A fresh selection re-seeds the zone thresholds; a drag pins them.         *)
Seeded(thr, obj) == IF obj # sliderOf THEN [by |-> "auto", obj |-> obj] ELSE thr

(* Hidden: no selection, another mode, no bucket past the Zero Point or none *)
(* inside the box.                                                           *)
HideReadout(thr) ==
    /\ readout' = NoReadout /\ selSig' = NoKey /\ statsBox' = FALSE
    /\ slider' = thr /\ UNCHANGED sliderOf

(* _reposition_sel_box alone: the overlays of an earlier frame are kept.     *)
KeepReadout(thr) ==
    /\ statsBox' = boxOn'
    /\ slider' = thr /\ UNCHANGED <<sliderOf, selSig, readout>>

DrawReadout(l, b, thr, sig) ==
    /\ selSig' = sig
    /\ slider' = Seeded(thr, boxObj') /\ sliderOf' = boxObj'
    /\ readout' = Computed(l, b, panels', slider', snap'.tv)
    /\ statsBox' = boxOn'

Rebuild(key) ==
    /\ listSig' = key
    /\ list' = IF key = listSig THEN list ELSE FromZero(snap', selAnchor')

(* _refresh_selection_stats, the last call of whatever changed its inputs.   *)
(* The drawing of the frame, and the hover readout, asked for the bucket list *)
(* before it.                                                               *)
Refresh(thr) ==
    /\ Rebuild(ListKey(snap', selAnchor'))
    /\ IF box' = NoBox \/ ~onCanvas' \/ list' = <<>> THEN HideReadout(thr)
       ELSE IF ~Inside(list', box') THEN HideReadout(thr)
       ELSE \E sig \in {Signature(list', box', thr, snap'.tv)} :
               IF sig = selSig THEN KeepReadout(thr)
               ELSE DrawReadout(list', box', thr, sig)

SelectionInit ==
    /\ selTf = 1 /\ bars = <<>> /\ edge = Empty(1)
    /\ snap = [closed |-> <<>>, live |-> Empty(1), tv |-> SelTargets[1]]
    /\ selAnchor = 0 /\ listSig = NoKey /\ list = <<>> /\ onCanvas = TRUE
    /\ box = NoBox /\ boxObj = 0 /\ panels = SelPanels /\ boxOn = TRUE
    /\ slider = [by |-> "auto", obj |-> 0] /\ sliderOf = 0
    /\ selSig = NoKey /\ readout = NoReadout /\ statsBox = FALSE

----------------------------------------------------------------------------
unseen == <<snap, listSig, list, viewSide, slider, sliderOf, selSig, readout, statsBox>>

(* A trade reaches the worker's cache; the one that fills the bucket opens   *)
(* the next.                                                                *)
FeedTrade ==
    /\ IF edge.vol + 1 < SelTargets[selTf]
       THEN edge' = [edge EXCEPT !.vol = @ + 1] /\ UNCHANGED bars
       ELSE /\ edge.id < SelMaxId
            /\ bars' = AtMost(Append(bars, [edge EXCEPT !.vol = @ + 1]), SelCap)
            /\ edge' = Empty(edge.id + 1)
    /\ UNCHANGED <<selTf, unseen>>

(* A liquidation is booked on the forming bucket without trading in it.      *)
FeedForced ==
    /\ edge.vol > 0 /\ edge.forced < SelMaxForced
    /\ edge' = [edge EXCEPT !.forced = @ + 1]
    /\ UNCHANGED <<selTf, bars, unseen>>

(* The other timeframe's history replaces the cache between two frames.      *)
FeedSwitch ==
    /\ selTf = 1 /\ 2 \in DOMAIN SelTargets
    /\ selTf' = 2
    /\ \E n \in 0..LeastOf(SelCap, SelMaxId - 1 - edge.id) :
          /\ bars' = [i \in 1..n |-> [id |-> edge.id + i, vol |-> SelTargets[2], forced |-> 0]]
          /\ edge' = Empty(edge.id + n + 1)
    /\ listSig' = NoKey
    /\ UNCHANGED <<snap, list, viewSide, slider, sliderOf, selSig, readout, statsBox>>

SelFrame ==
    /\ snap' = [closed |-> bars, live |-> edge, tv |-> SelTargets[selTf]]
    /\ UNCHANGED <<feedSide, viewSide>> /\ Refresh(slider)

(* The press of a new box erases the old one, the release draws it; a corner *)
(* is dragged on the same box.  A new box is told from the last one by its    *)
(* address, which may be the freed one's.                                    *)
DrawBox ==
    /\ onCanvas /\ box = NoBox /\ \E b \in SelBoxes : box' = b
    /\ boxObj' \in {1, 2}
    /\ UNCHANGED <<feedSide, snap, selAnchor, onCanvas, panels, boxOn>> /\ Refresh(slider)

ResizeBox ==
    /\ onCanvas /\ box # NoBox /\ \E b \in SelBoxes \ {box} : box' = b
    /\ UNCHANGED <<feedSide, snap, selAnchor, onCanvas, boxObj, panels, boxOn>> /\ Refresh(slider)

EraseBox ==
    /\ onCanvas /\ box # NoBox /\ box' = NoBox /\ boxObj' = 0
    /\ UNCHANGED <<feedSide, snap, selAnchor, onCanvas, panels, boxOn>> /\ Refresh(slider)

TogglePanel(p) ==
    /\ panels' = IF p \in panels THEN panels \ {p} ELSE panels \cup {p}
    /\ UNCHANGED <<feedSide, snap, selAnchor, onCanvas, box, boxObj, boxOn>> /\ Refresh(slider)

(* 'h': hiding only hides, showing refreshes.                                *)
ToggleBox ==
    /\ boxOn' = ~boxOn
    /\ UNCHANGED <<feedSide, snap, selAnchor, onCanvas, box, boxObj, panels>>
    /\ IF boxOn' THEN Refresh(slider)
       ELSE /\ statsBox' = FALSE
            /\ UNCHANGED <<listSig, list, slider, sliderOf, selSig, readout>>

DragThreshold ==
    /\ statsBox /\ slider.by = "auto"
    /\ UNCHANGED <<feedSide, snap, viewSide>>
    /\ Refresh([slider EXCEPT !.by = "user"])

(* Another mode drops the box; the canvas starts without one.  Either way    *)
(* the call ends in a frame.                                                *)
SwitchMode ==
    /\ onCanvas' = ~onCanvas /\ box' = NoBox /\ boxObj' = 0
    /\ snap' = [closed |-> bars, live |-> edge, tv |-> SelTargets[selTf]]
    /\ listSig' = ListKey(snap', selAnchor) /\ list' = FromZero(snap', selAnchor)
    /\ UNCHANGED <<feedSide, selAnchor, panels, boxOn>> /\ HideReadout(slider)

(* A new Scan Start Time: the list is rebuilt and a frame drawn at once.     *)
MoveZeroPoint ==
    /\ \E a \in SelAnchors \ {selAnchor} : selAnchor' = a
    /\ snap' = [closed |-> bars, live |-> edge, tv |-> SelTargets[selTf]]
    /\ UNCHANGED <<feedSide, onCanvas, box, boxObj, panels, boxOn>> /\ Refresh(slider)

SelectionNext ==
    \/ FeedTrade \/ FeedForced \/ FeedSwitch
    \/ SelFrame \/ DrawBox \/ ResizeBox \/ EraseBox
    \/ (\E p \in SelPanels : TogglePanel(p)) \/ ToggleBox \/ DragThreshold
    \/ SwitchMode \/ MoveZeroPoint

----------------------------------------------------------------------------
SelectionTypeOK ==
    /\ selTf \in DOMAIN SelTargets /\ Len(bars) <= SelCap /\ edge.id \in 1..SelMaxId
    /\ box \in SelBoxes \cup {NoBox} /\ panels \subseteq SelPanels
    /\ slider.by \in {"auto", "user"}
    /\ (readout = NoReadout) = (selSig = NoKey)
    /\ statsBox => boxOn /\ readout # NoReadout

(* What a readout shows, the forced volumes left out.                        *)
WithoutForced(s) == [i \in DOMAIN s |-> [id |-> s[i].id, vol |-> s[i].vol]]

SameButForced(r, q) ==
    /\ WithoutForced(r.span) = WithoutForced(q.span)
    /\ WithoutForced(r.tail) = WithoutForced(q.tail)

(* "Two frames with an equal signature produce bit-for-bit identical          *)
(* overlays" (terminal.py:1356-1362).  What the code does guarantee after a   *)
(* frame: the overlays are those the bucket list gives for the box, but for   *)
(* liquidations since the last trade; or the first bucket of the list moved   *)
(* on while its length stood still, and with it every index of the box: the   *)
(* history is at its cap, or the Zero Point moved as far as buckets came.     *)
ReadoutIsOfTheBox ==
    [][SelFrame /\ readout' # NoReadout =>
          /\ readout'.tv = snap'.tv
          /\ readout'.panels = PanelsShown(list', box', panels')
          /\ \/ list'[1].id # readout'.front
             \/ SameButForced(readout', Computed(list', box', panels', readout'.thr, snap'.tv))
      ]_selectionVars

(* A drag of the threshold holds until another box is drawn: neither new      *)
(* buckets, nor a resize, nor a trip through a hidden readout resets it       *)
(* (terminal.py:1537-1545).                                                  *)
DragPinsTheThreshold ==
    [][slider = [by |-> "user", obj |-> boxObj'] => slider' = slider]_selectionVars

(* What is read out belongs to the box: the figures, and the threshold they   *)
(* were computed with.                                                        *)
SelectionReadsItsBox == []SelectionTypeOK /\ ReadoutIsOfTheBox /\ DragPinsTheThreshold
============================================================================
