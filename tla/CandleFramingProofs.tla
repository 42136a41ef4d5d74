------------------------- MODULE CandleFramingProofs -------------------------
(***************************************************************************)
(* Proofs about the framing of candles: what the two sockets deliver is    *)
(* counted where it belongs, once, and a completed candle in the window is *)
(* final - for any number of candles, trades, klines and frames on their   *)
(* way.                                                                    *)
(***************************************************************************)
EXTENDS CandleFraming, FiniteSetTheorems, TLAPS

(* What travels to the window.                                             *)
Klines == [c : Candles, vol : 0..MaxTrades, x : BOOLEAN]
Footprints == [of : Candles, levels : 0..MaxTrades]
TickFrames == [kind : {"tick"}, candle : Records, fp : Footprints]
StartFrames == [kind : {"start"}, fps : [Candles -> {None} \cup Footprints]]
Frames == TickFrames \cup StartFrames

(* The frames, and what a framed candle leaves behind.                     *)
FrameTypes ==
    /\ queue \in Seq(Frames)
    /\ last # None => latest # None
    /\ latest # None => node[latest] # None

(* The bounds on the counts hang together.                                 *)
CountsAgree ==
    /\ \A c \in Candles : traded[c] =< trades
    /\ \A c \in Candles : node[c] # None => node[c].oiClose =< oi
    /\ early =< liqs

(* The later of two records of a candle, or that of a later candle.        *)
NotAfter(a, b) == a.c < b.c \/ (a.c = b.c /\ a.vol =< b.vol)

(* What the window keeps of a candle.                                      *)
Kept(c) == [c |-> c, vol |-> candles[c]]

(* The records on their way are in order, from the window back to the      *)
(* exchange.                                                               *)
WindowIsBehind ==
    /\ forming # None => candles[forming] # None
    /\ \A c \in Candles : candles[c] # None =>
          /\ last # None /\ NotAfter(Kept(c), last)
          /\ \A i \in DOMAIN queue :
                queue[i].kind = "tick" => NotAfter(Kept(c), queue[i].candle)
QueueIsInOrder ==
    /\ \A i \in DOMAIN queue : queue[i].kind = "tick" =>
          last # None /\ NotAfter(queue[i].candle, last)
    /\ \A i, j \in DOMAIN queue : i < j /\ queue[i].kind = "tick" /\ queue[j].kind = "tick" =>
          NotAfter(queue[i].candle, queue[j].candle)
KlinesAreInOrder ==
    /\ last # None => last.c =< now /\ last.vol =< traded[last.c]
    /\ \A i \in DOMAIN klines : klines[i].c =< now /\ klines[i].vol =< traded[klines[i].c]
    /\ last # None => \A i \in DOMAIN klines : NotAfter(last, klines[i])
    /\ \A i, j \in DOMAIN klines : i < j => NotAfter(klines[i], klines[j])

(* None tells of trades that were not executed.                            *)
NothingInvented ==
    \A i \in DOMAIN queue :
        queue[i].kind = "tick" => queue[i].candle.vol =< traded[queue[i].candle.c]

(* The final record of a completed candle is on its way or has arrived.    *)
FinalIsComing ==
    \A c \in Candles : c < now /\ c \notin unframed =>
        \/ candles[c] = traded[c]
        \/ \E i \in DOMAIN queue : queue[i].kind = "tick" /\ queue[i].candle.c = c
                                   /\ queue[i].candle.vol = traded[c]
        \/ \E i \in DOMAIN klines : klines[i].c = c /\ klines[i].vol = traded[c]

LineIInv ==
    WindowIsBehind /\ QueueIsInOrder /\ KlinesAreInOrder /\ NothingInvented /\ FinalIsComing
Types == TypeOK /\ FrameTypes /\ CountsAgree

IInv == Types /\ LevelsAreTheTape /\ ForcedOrdersCountedOnce /\ LineIInv
-----------------------------------------------------------------------------
(* Sequences and what is counted in them.                                  *)

LEMMA AppendParts ==
  ASSUME NEW S, NEW s \in Seq(S), NEW x \in S
  PROVE  /\ Append(s, x) \in Seq(S)
         /\ \A i \in DOMAIN Append(s, x) :
                \/ i \in DOMAIN s /\ i < Len(s) + 1 /\ Append(s, x)[i] = s[i]
                \/ i = Len(s) + 1 /\ Append(s, x)[i] = x
         /\ \A i \in DOMAIN s : i \in DOMAIN Append(s, x) /\ Append(s, x)[i] = s[i]
         /\ Len(s) + 1 \in DOMAIN Append(s, x) /\ Append(s, x)[Len(s) + 1] = x
OBVIOUS

LEMMA TailParts ==
  ASSUME NEW S, NEW s \in Seq(S), s # <<>>
  PROVE  /\ Tail(s) \in Seq(S) /\ Head(s) = s[1] /\ 1 \in DOMAIN s /\ Head(s) \in S
         /\ \A i \in DOMAIN Tail(s) :
                i \in Nat /\ i > 0 /\ i + 1 \in DOMAIN s /\ Tail(s)[i] = s[i + 1]
         /\ \A i \in DOMAIN s : i = 1 \/ (i - 1 \in DOMAIN Tail(s) /\ Tail(s)[i - 1] = s[i])
OBVIOUS

Places(s, c) == {k \in DOMAIN s : s[k] = c}

LEMMA PlacesAreFinite ==
  ASSUME NEW s \in Seq(Candles), NEW c
  PROVE  IsFiniteSet(Places(s, c)) /\ Cardinality(Places(s, c)) \in Nat
<1>1. DOMAIN s = 1..Len(s) /\ Len(s) \in Nat
  OBVIOUS
<1>2. IsFiniteSet(1..Len(s))
  BY <1>1, FS_Interval
<1>3. IsFiniteSet(Places(s, c))
  BY <1>1, <1>2, FS_Subset DEF Places
<1>4. QED BY <1>3, FS_CardinalityType

(* A trade sent is one more of its candle on the tape.                     *)
LEMMA PlacesGrow ==
  ASSUME NEW s \in Seq(Candles), NEW x \in Candles, NEW c
  PROVE  Cardinality(Places(Append(s, x), c))
             = Cardinality(Places(s, c)) + (IF x = c THEN 1 ELSE 0)
<1>1. Len(s) \in Nat /\ DOMAIN s = 1..Len(s) /\ Len(s) + 1 \notin DOMAIN s
  OBVIOUS
<1>2. CASE x = c
  <2>1. Places(Append(s, x), c) = Places(s, c) \cup {Len(s) + 1}
    BY <1>2, AppendParts DEF Places
  <2>2. Len(s) + 1 \notin Places(s, c)
    BY <1>1 DEF Places
  <2>3. QED BY <1>2, <2>1, <2>2, PlacesAreFinite, FS_AddElement
<1>3. CASE x # c
  <2>1. Places(Append(s, x), c) = Places(s, c)
    BY <1>3, AppendParts DEF Places
  <2>2. QED BY <1>3, <2>1, PlacesAreFinite
<1>4. QED BY <1>2, <1>3

(* A trade taken is one fewer.                                             *)
LEMMA PlacesShrink ==
  ASSUME NEW s \in Seq(Candles), s # <<>>, NEW c
  PROVE  Cardinality(Places(s, c))
             = Cardinality(Places(Tail(s), c)) + (IF Head(s) = c THEN 1 ELSE 0)
<1> DEFINE rest == Places(s, c) \ {1}
           f == [k \in rest |-> k - 1]
<1>1. Len(s) \in Nat /\ DOMAIN s = 1..Len(s) /\ Head(s) = s[1] /\ 1 \in DOMAIN s
  BY TailParts
<1>2. Tail(s) \in Seq(Candles)
  BY TailParts
<1>3. IsFiniteSet(rest) /\ IsFiniteSet(Places(Tail(s), c))
  BY <1>2, PlacesAreFinite, FS_RemoveElement
<1>4. Cardinality(rest) = Cardinality(Places(Tail(s), c))
  <2>1. f \in [rest -> Places(Tail(s), c)]
    <3> SUFFICES ASSUME NEW k \in rest PROVE k - 1 \in Places(Tail(s), c)
      OBVIOUS
    <3>1. k \in DOMAIN s /\ k # 1 /\ s[k] = c
      BY DEF Places
    <3>2. QED BY <3>1, TailParts DEF Places
  <2>2. \A k, m \in rest : f[k] = f[m] => k = m
    BY <1>1 DEF Places
  <2>3. \A m \in Places(Tail(s), c) : \E k \in rest : f[k] = m
    <3> SUFFICES ASSUME NEW m \in Places(Tail(s), c) PROVE \E k \in rest : f[k] = m
      OBVIOUS
    <3>1. m \in Nat /\ m > 0 /\ m + 1 \in DOMAIN s /\ s[m + 1] = c
      BY TailParts DEF Places
    <3>2. m + 1 \in rest /\ (m + 1) - 1 = m
      BY <3>1 DEF Places
    <3>3. QED BY <3>2
  <2>4. ExistsBijection(rest, Places(Tail(s), c))
    BY <2>1, <2>2, <2>3 DEF ExistsBijection, Bijection, Injection, Surjection, IsInjective
  <2>5. QED BY <1>3, <2>4, FS_Bijection
<1>5. CASE Head(s) = c
  <2>1. 1 \in Places(s, c)
    BY <1>1, <1>5 DEF Places
  <2>2. Cardinality(rest) = Cardinality(Places(s, c)) - 1
    BY <2>1, PlacesAreFinite, FS_RemoveElement
  <2>3. QED BY <1>4, <1>5, <2>2, PlacesAreFinite
<1>6. CASE Head(s) # c
  <2>1. rest = Places(s, c)
    BY <1>1, <1>6 DEF Places
  <2>2. Cardinality(Places(s, c)) \in Nat
    BY PlacesAreFinite
  <2>3. Cardinality(Places(s, c)) = Cardinality(Places(Tail(s), c))
    BY <1>4, <2>1
  <2>4. QED BY <1>6, <2>2, <2>3
<1>7. QED BY <1>5, <1>6
-----------------------------------------------------------------------------
(* The order of records.                                                   *)

LEMMA NotAfterTrans ==
  ASSUME NEW a, NEW b, NEW d, a.c \in Nat, b.c \in Nat, d.c \in Nat,
         a.vol \in Nat, b.vol \in Nat, d.vol \in Nat, NotAfter(a, b), NotAfter(b, d)
  PROVE  NotAfter(a, d)
BY DEF NotAfter

LEMMA FrameParts ==
  /\ \A f \in Frames : f.kind = "tick" => f.candle \in Records
  /\ \A f \in Frames : f.kind # "tick" => f.kind = "start"
  /\ \A r \in Records : r.c \in Candles /\ r.vol \in 0..MaxTrades /\ r # None
  /\ \A k \in Klines : k.c \in Candles /\ k.vol \in 0..MaxTrades
BY CandleFramingAssumption DEF Frames, TickFrames, StartFrames, Records, Klines

LEMMA Constants ==
  /\ MaxCandle \in Nat \ {0} /\ MaxTrades \in Nat /\ MaxLiqs \in Nat /\ MaxPolls \in Nat
  /\ Candles = 1..MaxCandle /\ None \notin Nat /\ None \notin Candles /\ None \notin Records
  /\ None \notin Nodes /\ \A c \in Candles : c \in Nat /\ c > 0
BY CandleFramingAssumption DEF Candles

(* What the records on their way are.                                      *)
LEMMA LineTypes ==
  ASSUME Types
  PROVE  /\ queue \in Seq(Frames) /\ klines \in Seq(Klines) /\ now \in Candles /\ now \in Nat
         /\ \A i \in DOMAIN queue : queue[i] \in Frames
               /\ (queue[i].kind = "tick" => queue[i].candle \in Records
                                             /\ queue[i].candle.c \in Candles
                                             /\ queue[i].candle.c \in Nat
                                             /\ queue[i].candle.vol \in Nat)
         /\ \A i \in DOMAIN klines : klines[i].c \in Candles /\ klines[i].c \in Nat
               /\ klines[i].vol \in Nat /\ klines[i].vol \in 0..MaxTrades
         /\ last # None => last \in Records /\ last.c \in Candles /\ last.c \in Nat
                           /\ last.vol \in Nat
         /\ \A c \in Candles : traded[c] \in Nat /\ (candles[c] # None => candles[c] \in Nat)
         /\ forming # None => forming \in Candles
<1>1. queue \in Seq(Frames) /\ klines \in Seq(Klines) /\ now \in Candles
  BY DEF Types, FrameTypes, TypeOK, Klines
<1>2. ASSUME NEW i \in DOMAIN queue
      PROVE  queue[i] \in Frames
  BY <1>1
<1>3. ASSUME NEW i \in DOMAIN klines
      PROVE  klines[i] \in Klines
  BY <1>1
<1>4. /\ last \in {None} \cup Records /\ traded \in [Candles -> 0..MaxTrades]
      /\ candles \in [Candles -> {None} \cup 0..MaxTrades]
      /\ forming \in {None} \cup Candles
  BY DEF Types, TypeOK
<1>5. \A r \in 0..MaxTrades : r \in Nat
  BY Constants
<1>6. \A c \in Candles : traded[c] \in Nat /\ (candles[c] # None => candles[c] \in Nat)
  BY <1>4, <1>5
<1>7. \A r \in Records : r.c \in Candles /\ r.c \in Nat /\ r.vol \in Nat
  BY <1>5, Constants, FrameParts
<1>8. last # None => last \in Records
  BY <1>4
<1>9. \A i \in DOMAIN klines : klines[i].c \in Candles /\ klines[i].c \in Nat
               /\ klines[i].vol \in Nat /\ klines[i].vol \in 0..MaxTrades
  BY <1>3, <1>5, Constants, FrameParts
<1>10. \A i \in DOMAIN queue : queue[i].kind = "tick" => queue[i].candle \in Records
  BY <1>2, FrameParts
<1>11. QED BY <1>1, <1>2, <1>4, <1>6, <1>7, <1>8, <1>9, <1>10, Constants

(* A node, there or made, and what a footprint shows of it.                *)
LEMMA NodeTypes ==
  ASSUME Types
  PROVE  /\ node \in [Candles -> {None} \cup Nodes]
         /\ \A c \in Candles : EnsureNode(c) \in Nodes /\ EnsureNode(c) # None
         /\ \A c \in Candles, v \in 0..MaxTrades :
               /\ [EnsureNode(c) EXCEPT !.lastVol = v, !.oiClose = oi] \in Nodes
               /\ [EnsureNode(c) EXCEPT !.lastVol = v, !.oiClose = oi].levels
                      = EnsureNode(c).levels
         /\ \A c \in Candles : EnsureNode(c).levels \in 0..MaxTrades
         /\ \A c \in Candles : node[c] # None => FootprintOf(node, c) \in Footprints
<1>1. node \in [Candles -> {None} \cup Nodes] /\ oi \in 0..MaxPolls
  BY DEF Types, TypeOK
<1>2. NewNode \in Nodes
  BY <1>1, Constants DEF NewNode, Nodes
<1>3. \A c \in Candles : EnsureNode(c) \in Nodes /\ EnsureNode(c) # None
  BY <1>1, <1>2, Constants DEF EnsureNode
<1>4. \A n \in Nodes, v \in 0..MaxTrades :
         /\ [n EXCEPT !.lastVol = v, !.oiClose = oi] \in Nodes
         /\ [n EXCEPT !.lastVol = v, !.oiClose = oi].levels = n.levels
         /\ n.levels \in 0..MaxTrades
  BY <1>1 DEF Nodes
<1>5. \A c \in Candles : node[c] # None => FootprintOf(node, c) \in Footprints
  BY <1>1, <1>4 DEF FootprintOf, Footprints, Nodes
<1>6. \A c \in Candles, v \in 0..MaxTrades :
               /\ [EnsureNode(c) EXCEPT !.lastVol = v, !.oiClose = oi] \in Nodes
               /\ [EnsureNode(c) EXCEPT !.lastVol = v, !.oiClose = oi].levels
                      = EnsureNode(c).levels
  BY <1>3, <1>4
<1>7. \A c \in Candles : EnsureNode(c).levels \in 0..MaxTrades
  BY <1>3 DEF Nodes
<1>8. QED BY <1>1, <1>3, <1>5, <1>6, <1>7

(* A step that only adds to the trades of the candle in progress.          *)
LEMMA LineStays ==
  ASSUME Types, LineIInv, UNCHANGED <<now, klines, last, queue, candles, forming>>,
         unframed \subseteq unframed',
         \A c \in Candles : traded[c] =< traded'[c] /\ traded'[c] \in Nat
                            /\ (c # now => traded'[c] = traded[c])
  PROVE  LineIInv'
<1>1. WindowIsBehind'
  BY DEF LineIInv, WindowIsBehind, Kept
<1>2. QueueIsInOrder'
  BY DEF LineIInv, QueueIsInOrder
<1>3. KlinesAreInOrder'
  <2>1. KlinesAreInOrder
    BY DEF LineIInv
  <2>2. last # None => last.c =< now /\ last.vol =< traded'[last.c]
    <3> SUFFICES ASSUME last # None PROVE last.vol =< traded'[last.c] /\ last.c =< now
      OBVIOUS
    <3>1. last.vol =< traded[last.c] /\ last.c =< now /\ last.c \in Candles /\ last.vol \in Nat
      BY <2>1, LineTypes DEF KlinesAreInOrder
    <3>2. traded[last.c] =< traded'[last.c] /\ traded[last.c] \in Nat /\ traded'[last.c] \in Nat
      BY <3>1, LineTypes
    <3>3. QED BY <3>1, <3>2
  <2>3. ASSUME NEW i \in DOMAIN klines PROVE klines[i].vol =< traded'[klines[i].c]
    <3>1. klines[i].vol =< traded[klines[i].c] /\ klines[i].c \in Candles /\ klines[i].vol \in Nat
      BY <2>1, LineTypes DEF KlinesAreInOrder
    <3>2. traded[klines[i].c] =< traded'[klines[i].c] /\ traded[klines[i].c] \in Nat
          /\ traded'[klines[i].c] \in Nat
      BY <3>1, LineTypes
    <3>3. QED BY <3>1, <3>2
  <2>4. QED BY <2>1, <2>2, <2>3 DEF KlinesAreInOrder
<1>4. FinalIsComing'
  <2> SUFFICES ASSUME NEW c \in Candles, c < now, c \notin unframed
               PROVE  \/ candles[c] = traded'[c]
                      \/ \E i \in DOMAIN queue : queue[i].kind = "tick" /\ queue[i].candle.c = c
                                                 /\ queue[i].candle.vol = traded'[c]
                      \/ \E i \in DOMAIN klines : klines[i].c = c /\ klines[i].vol = traded'[c]
    BY DEF FinalIsComing
  <2>1. traded'[c] = traded[c]
    BY LineTypes
  <2>2. QED BY <2>1 DEF LineIInv, FinalIsComing
<1>5. NothingInvented'
  <2>1. ASSUME NEW i \in DOMAIN queue, queue[i].kind = "tick"
        PROVE  queue[i].candle.vol =< traded'[queue[i].candle.c]
    <3>1. queue[i].candle.vol =< traded[queue[i].candle.c] /\ queue[i].candle.c \in Candles
          /\ queue[i].candle.vol \in Nat
      BY <2>1, LineTypes DEF LineIInv, NothingInvented
    <3>2. traded[queue[i].candle.c] =< traded'[queue[i].candle.c]
          /\ traded[queue[i].candle.c] \in Nat /\ traded'[queue[i].candle.c] \in Nat
      BY <3>1, LineTypes
    <3>3. QED BY <3>1, <3>2
  <2>2. QED BY <2>1 DEF NothingInvented
<1>6. QED BY <1>1, <1>2, <1>3, <1>4, <1>5 DEF LineIInv

(* A kline is sent: it tells all of the candle in progress.                *)
LEMMA LineTakesKline ==
  ASSUME Types, LineIInv, NEW x \in BOOLEAN, klines' = Append(klines, KlineOf(now, x)),
         now' = now \/ now' = now + 1,
         UNCHANGED <<traded, unframed, last, queue, candles, forming>>
  PROVE  LineIInv'
<1> DEFINE k == KlineOf(now, x)
<1>1. k.c = now /\ k.vol = traded[now] /\ k \in Klines
  BY LineTypes DEF KlineOf, Klines, Types, TypeOK
<1> HIDE DEF k
<1>2. /\ \A i \in DOMAIN klines' : \/ i \in DOMAIN klines /\ i < Len(klines) + 1
                                      /\ klines'[i] = klines[i]
                                   \/ i = Len(klines) + 1 /\ klines'[i] = k
      /\ \A i \in DOMAIN klines : i \in DOMAIN klines' /\ klines'[i] = klines[i]
      /\ Len(klines) + 1 \in DOMAIN klines' /\ klines'[Len(klines) + 1] = k
      /\ DOMAIN klines \subseteq Nat /\ Len(klines) \in Nat
  BY <1>1, LineTypes, AppendParts DEF k
<1>3. now \in Nat /\ now' \in Nat /\ now =< now'
  BY LineTypes
<1>4. WindowIsBehind'
  BY DEF LineIInv, WindowIsBehind, Kept
<1>5. QueueIsInOrder'
  BY DEF LineIInv, QueueIsInOrder
<1>6. KlinesAreInOrder'
  <2>1. KlinesAreInOrder
    BY DEF LineIInv
  <2>2. last # None => last.c =< now' /\ last.vol =< traded'[last.c] /\ NotAfter(last, k)
    BY <1>1, <1>3, <2>1, LineTypes DEF KlinesAreInOrder, NotAfter
  <2>3. \A i \in DOMAIN klines : klines[i].c =< now' /\ klines[i].vol =< traded'[klines[i].c]
                                 /\ NotAfter(klines[i], k)
    BY <1>1, <1>3, <2>1, LineTypes DEF KlinesAreInOrder, NotAfter
  <2>4. k.c =< now' /\ k.vol =< traded'[k.c]
    BY <1>1, <1>3, LineTypes
  <2>5. \A i \in DOMAIN klines' : klines'[i].c =< now' /\ klines'[i].vol =< traded'[klines'[i].c]
    BY <1>2, <2>3, <2>4
  <2>6. last # None => \A i \in DOMAIN klines' : NotAfter(last, klines'[i])
    BY <1>2, <2>1, <2>2 DEF KlinesAreInOrder
  <2>7. ASSUME NEW i \in DOMAIN klines', NEW j \in DOMAIN klines', i < j
        PROVE  NotAfter(klines'[i], klines'[j])
    <3>1. i \in DOMAIN klines /\ klines'[i] = klines[i]
      BY <1>2, <2>7
    <3>2. CASE j \in DOMAIN klines /\ klines'[j] = klines[j]
      BY <2>1, <2>7, <3>1, <3>2 DEF KlinesAreInOrder
    <3>3. CASE klines'[j] = k
      BY <2>3, <3>1, <3>3
    <3>4. QED BY <1>2, <3>2, <3>3
  <2>8. QED BY <2>2, <2>5, <2>6, <2>7 DEF KlinesAreInOrder
<1>7. FinalIsComing'
  <2> SUFFICES ASSUME NEW c \in Candles, c < now', c \notin unframed
               PROVE  \/ candles[c] = traded[c]
                      \/ \E i \in DOMAIN queue : queue[i].kind = "tick" /\ queue[i].candle.c = c
                                                 /\ queue[i].candle.vol = traded[c]
                      \/ \E i \in DOMAIN klines' : klines'[i].c = c /\ klines'[i].vol = traded[c]
    BY DEF FinalIsComing
  <2>1. CASE c < now
    BY <1>2, <2>1 DEF LineIInv, FinalIsComing
  <2>2. CASE c = now
    BY <1>1, <1>2, <2>2
  <2>3. QED BY <1>3, <2>1, <2>2, Constants
<1>8. NothingInvented'
  BY DEF LineIInv, NothingInvented
<1>9. QED BY <1>4, <1>5, <1>6, <1>7, <1>8 DEF LineIInv

(* The kline socket is lost: what it carried is remembered.                *)
LEMMA LineLosesKlines == ASSUME Types, LineIInv, KlineGap PROVE LineIInv'
<1>1. /\ klines' = <<>> /\ unframed' = unframed \cup {klines[k].c : k \in DOMAIN klines}
      /\ UNCHANGED <<now, traded, last, queue, candles, forming>>
  BY DEF KlineGap, exchange, core, window
<1>2. WindowIsBehind' /\ QueueIsInOrder'
  BY <1>1 DEF LineIInv, WindowIsBehind, QueueIsInOrder, Kept
<1>3. KlinesAreInOrder'
  BY <1>1 DEF LineIInv, KlinesAreInOrder
<1>4. FinalIsComing'
  <2> SUFFICES ASSUME NEW c \in Candles, c < now, c \notin unframed'
               PROVE  \/ candles[c] = traded[c]
                      \/ \E i \in DOMAIN queue : queue[i].kind = "tick" /\ queue[i].candle.c = c
                                                 /\ queue[i].candle.vol = traded[c]
    BY <1>1 DEF FinalIsComing
  <2>1. c \notin unframed /\ ~ \E i \in DOMAIN klines : klines[i].c = c
    BY <1>1
  <2>2. QED BY <2>1 DEF LineIInv, FinalIsComing
<1>5. NothingInvented'
  BY <1>1 DEF LineIInv, NothingInvented
<1>6. QED BY <1>2, <1>3, <1>4, <1>5 DEF LineIInv

(* A frame joins the queue: a tick with the cached candle, which no other  *)
(* record in the queue or the window is after, or one without a candle.    *)
LEMMA QueueGrows ==
  ASSUME Types, LineIInv, NEW f \in Frames, queue' = Append(queue, f),
         f.kind = "tick" => f.candle = last' /\ last' # None,
         last # None => last' # None /\ last' \in Records /\ NotAfter(last, last'),
         last' # None => last'.vol =< traded[last'.c],
         UNCHANGED <<candles, forming, traded>>
  PROVE  queue' \in Seq(Frames) /\ WindowIsBehind' /\ QueueIsInOrder' /\ NothingInvented'
<1>1. /\ \A i \in DOMAIN queue' : \/ i \in DOMAIN queue /\ i < Len(queue) + 1
                                     /\ queue'[i] = queue[i]
                                  \/ i = Len(queue) + 1 /\ queue'[i] = f
      /\ DOMAIN queue \subseteq Nat /\ Len(queue) \in Nat
  BY LineTypes, AppendParts
<1>2. \A r \in Records : r.c \in Nat /\ r.vol \in Nat
  BY FrameParts, Constants
<1>3. ASSUME NEW c \in Candles, candles[c] # None
      PROVE  last' # None /\ NotAfter(Kept(c), last')
  <2>1. last # None /\ NotAfter(Kept(c), last)
    BY <1>3 DEF LineIInv, WindowIsBehind
  <2>2. Kept(c).c = c /\ Kept(c).vol = candles[c] /\ c \in Nat /\ candles[c] \in Nat
    BY <1>3, LineTypes, Constants DEF Kept
  <2>3. QED BY <1>2, <2>1, <2>2, LineTypes, NotAfterTrans
<1>4. ASSUME NEW i \in DOMAIN queue, queue[i].kind = "tick"
      PROVE  last' # None /\ NotAfter(queue[i].candle, last')
  <2>1. last # None /\ NotAfter(queue[i].candle, last)
    BY <1>4 DEF LineIInv, QueueIsInOrder
  <2>2. queue[i].candle.c \in Nat /\ queue[i].candle.vol \in Nat
    BY <1>4, LineTypes
  <2>3. QED BY <1>2, <2>1, <2>2, LineTypes, NotAfterTrans
<1>5. WindowIsBehind'
  <2>1. ASSUME NEW c \in Candles, candles[c] # None, NEW i \in DOMAIN queue',
               queue'[i].kind = "tick"
        PROVE  NotAfter(Kept(c), queue'[i].candle)
    <3>1. CASE i \in DOMAIN queue /\ queue'[i] = queue[i]
      BY <2>1, <3>1 DEF LineIInv, WindowIsBehind
    <3>2. CASE queue'[i] = f
      BY <1>3, <2>1, <3>2
    <3>3. QED BY <1>1, <3>1, <3>2
  <2>2. \A c : Kept(c)' = Kept(c)
    BY DEF Kept
  <2>3. forming' # None => candles'[forming'] # None
    BY DEF LineIInv, WindowIsBehind
  <2>4. QED BY <1>3, <2>1, <2>2, <2>3 DEF WindowIsBehind
<1>6. QueueIsInOrder'
  <2>1. f.kind = "tick" => NotAfter(f.candle, last')
    <3> SUFFICES ASSUME f.kind = "tick" PROVE NotAfter(f.candle, last')
      OBVIOUS
    <3>1. f.candle = last' /\ f.candle \in Records
      BY FrameParts
    <3>2. QED BY <1>2, <3>1 DEF NotAfter
  <2>2. ASSUME NEW i \in DOMAIN queue', queue'[i].kind = "tick"
        PROVE  last' # None /\ NotAfter(queue'[i].candle, last')
    BY <1>1, <1>4, <2>1, <2>2
  <2>3. ASSUME NEW i \in DOMAIN queue', NEW j \in DOMAIN queue', i < j,
               queue'[i].kind = "tick", queue'[j].kind = "tick"
        PROVE  NotAfter(queue'[i].candle, queue'[j].candle)
    <3>1. i \in DOMAIN queue /\ queue'[i] = queue[i]
      BY <1>1, <2>3
    <3>2. CASE j \in DOMAIN queue /\ queue'[j] = queue[j]
      BY <2>3, <3>1, <3>2 DEF LineIInv, QueueIsInOrder
    <3>3. CASE queue'[j] = f
      BY <1>4, <2>3, <3>1, <3>3
    <3>4. QED BY <1>1, <3>2, <3>3
  <2>4. QED BY <2>2, <2>3 DEF QueueIsInOrder
<1>7. NothingInvented'
  <2>1. ASSUME NEW i \in DOMAIN queue', queue'[i].kind = "tick"
        PROVE  queue'[i].candle.vol =< traded[queue'[i].candle.c]
    BY <1>1, <2>1 DEF LineIInv, NothingInvented
  <2>2. QED BY <2>1 DEF NothingInvented
<1>8. queue' \in Seq(Frames)
  BY LineTypes, AppendParts
<1>9. QED BY <1>5, <1>6, <1>7, <1>8

(* A heartbeat of the daemon: the kline becomes the cached candle, and the *)
(* tick with it joins the queue.                                           *)
LEMMA LineProcessesKline ==
  ASSUME Types, LineIInv, ProcessKline
  PROVE  LineIInv' /\ queue' \in Seq(Frames)
<1> DEFINE k == Head(klines)
           t == Tick(last', FootprintOf(node', k.c))
<1>1. /\ klines # <<>> /\ last' = [c |-> k.c, vol |-> k.vol] /\ queue' = Append(queue, t)
      /\ klines' = Tail(klines)
      /\ UNCHANGED <<now, traded, unframed, candles, forming>>
  BY DEF ProcessKline, exchange, window
<1>2. /\ k = klines[1] /\ 1 \in DOMAIN klines /\ k.c \in Candles /\ k.vol \in 0..MaxTrades
      /\ \A i \in DOMAIN klines' : i \in Nat /\ i > 0 /\ i + 1 \in DOMAIN klines
                                    /\ klines'[i] = klines[i + 1]
      /\ \A i \in DOMAIN klines : \/ i = 1
                                  \/ i - 1 \in DOMAIN klines' /\ klines'[i - 1] = klines[i]
  <2>1. klines \in Seq(Klines) /\ Head(klines) \in Klines
    BY <1>1, LineTypes, TailParts
  <2>2. k.c \in Candles /\ k.vol \in 0..MaxTrades
    BY <2>1, FrameParts
  <2>3. QED BY <1>1, <2>1, <2>2, TailParts
<1>3. t \in Frames
  <2>1. node' = [node EXCEPT ![k.c] = [EnsureNode(k.c) EXCEPT !.lastVol = k.vol, !.oiClose = oi]]
    BY DEF ProcessKline
  <2>2. node'[k.c].levels \in 0..MaxTrades
    BY <1>2, <2>1, NodeTypes
  <2>3. FootprintOf(node', k.c) \in Footprints
    BY <1>2, <2>2 DEF FootprintOf, Footprints
  <2>4. QED BY <1>1, <1>2, <2>3 DEF Tick, Frames, TickFrames, Records
<1> HIDE DEF k, t
<1>4. last' \in Records /\ last' # None /\ last'.c = k.c /\ last'.vol = k.vol
  BY <1>1, <1>2, Constants DEF Records
<1>5. /\ t.kind = "tick" /\ t.candle = last'
  BY DEF t, Tick
<1>6. last # None => NotAfter(last, last')
  BY <1>2, <1>4 DEF LineIInv, KlinesAreInOrder, NotAfter
<1>7. last'.c =< now /\ last'.vol =< traded[last'.c]
  BY <1>2, <1>4 DEF LineIInv, KlinesAreInOrder
<1>8. queue' \in Seq(Frames) /\ WindowIsBehind' /\ QueueIsInOrder' /\ NothingInvented'
  BY <1>1, <1>3, <1>4, <1>5, <1>6, <1>7, QueueGrows
<1>9. KlinesAreInOrder'
  <2>1. \A i \in DOMAIN klines' : klines'[i].c =< now /\ klines'[i].vol =< traded[klines'[i].c]
    BY <1>2 DEF LineIInv, KlinesAreInOrder
  <2>2. \A i \in DOMAIN klines' : NotAfter(last', klines'[i])
    <3> SUFFICES ASSUME NEW i \in DOMAIN klines' PROVE NotAfter(last', klines'[i])
      OBVIOUS
    <3>1. i \in Nat /\ i > 0 /\ i + 1 \in DOMAIN klines /\ klines'[i] = klines[i + 1] /\ 1 < i + 1
      BY <1>2
    <3>2. NotAfter(klines[1], klines[i + 1])
      BY <1>2, <3>1 DEF LineIInv, KlinesAreInOrder
    <3>3. QED BY <1>2, <1>4, <3>1, <3>2 DEF NotAfter
  <2>3. ASSUME NEW i \in DOMAIN klines', NEW j \in DOMAIN klines', i < j
        PROVE  NotAfter(klines'[i], klines'[j])
    <3>1. i + 1 \in DOMAIN klines /\ j + 1 \in DOMAIN klines /\ i + 1 < j + 1
      BY <1>2, <2>3
    <3>2. klines'[i] = klines[i + 1] /\ klines'[j] = klines[j + 1]
      BY <1>2
    <3>3. NotAfter(klines[i + 1], klines[j + 1])
      BY <3>1 DEF LineIInv, KlinesAreInOrder
    <3>4. QED BY <3>2, <3>3
  <2>4. QED BY <1>1, <1>7, <2>1, <2>2, <2>3 DEF KlinesAreInOrder
<1>10. FinalIsComing'
  <2> SUFFICES ASSUME NEW c \in Candles, c < now, c \notin unframed
               PROVE  \/ candles[c] = traded[c]
                      \/ \E i \in DOMAIN queue' : queue'[i].kind = "tick" /\ queue'[i].candle.c = c
                                                 /\ queue'[i].candle.vol = traded[c]
                      \/ \E i \in DOMAIN klines' : klines'[i].c = c /\ klines'[i].vol = traded[c]
    BY <1>1 DEF FinalIsComing
  <2>1. CASE candles[c] = traded[c]
    BY <2>1
  <2>2. ASSUME NEW i \in DOMAIN queue, queue[i].kind = "tick", queue[i].candle.c = c,
               queue[i].candle.vol = traded[c]
        PROVE  i \in DOMAIN queue' /\ queue'[i] = queue[i]
    BY <1>1, <1>3, LineTypes, AppendParts
  <2>3. ASSUME NEW i \in DOMAIN klines, klines[i].c = c, klines[i].vol = traded[c]
        PROVE  \/ \E j \in DOMAIN queue' : queue'[j].kind = "tick" /\ queue'[j].candle.c = c
                                            /\ queue'[j].candle.vol = traded[c]
               \/ \E j \in DOMAIN klines' : klines'[j].c = c /\ klines'[j].vol = traded[c]
    <3>1. CASE i = 1
      <4>1. Len(queue) + 1 \in DOMAIN queue' /\ queue'[Len(queue) + 1] = t
        BY <1>1, <1>3, LineTypes, AppendParts
      <4>2. t.candle.c = c /\ t.candle.vol = traded[c]
        BY <1>2, <1>4, <1>5, <2>3, <3>1
      <4>3. QED BY <1>5, <4>1, <4>2
    <3>2. CASE i # 1
      BY <1>2, <2>3, <3>2
    <3>3. QED BY <3>1, <3>2
  <2>4. QED BY <2>1, <2>2, <2>3 DEF LineIInv, FinalIsComing
<1>11. QED BY <1>8, <1>9, <1>10 DEF LineIInv

(* A frame without news: the live edge repeats the cached candle, a        *)
(* catch-up shows footprints only.                                         *)
LEMMA LineTakesFrame ==
  ASSUME Types, LineIInv, NEW f \in Frames, queue' = Append(queue, f),
         f.kind = "tick" => f.candle = last /\ last # None,
         UNCHANGED <<now, traded, klines, unframed, last, candles, forming>>
  PROVE  LineIInv' /\ queue' \in Seq(Frames)
<1>1. last # None => last \in Records /\ NotAfter(last, last)
  BY LineTypes DEF NotAfter
<1>2. last # None => last.vol =< traded[last.c]
  BY DEF LineIInv, KlinesAreInOrder
<1>3. last' = last /\ UNCHANGED <<candles, forming, traded>>
  OBVIOUS
<1>4. queue' \in Seq(Frames) /\ WindowIsBehind' /\ QueueIsInOrder' /\ NothingInvented'
  BY <1>1, <1>2, <1>3, QueueGrows
<1>5. KlinesAreInOrder'
  BY DEF LineIInv, KlinesAreInOrder
<1>6. \A i \in DOMAIN queue : i \in DOMAIN queue' /\ queue'[i] = queue[i]
  BY LineTypes, AppendParts
<1>7. FinalIsComing'
  <2> SUFFICES ASSUME NEW c \in Candles, c < now, c \notin unframed
               PROVE  \/ candles[c] = traded[c]
                      \/ \E i \in DOMAIN queue' : queue'[i].kind = "tick" /\ queue'[i].candle.c = c
                                                 /\ queue'[i].candle.vol = traded[c]
                      \/ \E i \in DOMAIN klines : klines[i].c = c /\ klines[i].vol = traded[c]
    BY DEF FinalIsComing
  <2>1. QED BY <1>6 DEF LineIInv, FinalIsComing
<1>8. QED BY <1>4, <1>5, <1>7 DEF LineIInv

LEMMA LineLiveEdge ==
  ASSUME Types, LineIInv, LiveEdge
  PROVE  LineIInv' /\ queue' \in Seq(Frames)
<1> DEFINE t == Tick(last, FootprintOf(node, latest))
<1>1. /\ last # None /\ queue' = Append(queue, t)
      /\ UNCHANGED <<now, traded, klines, unframed, last, candles, forming>>
  BY DEF LiveEdge, exchange, sockets, core, window
<1>2. latest \in Candles /\ node[latest] # None
  BY <1>1 DEF Types, TypeOK, FrameTypes
<1>3. t \in Frames /\ t.kind = "tick" /\ t.candle = last
  BY <1>1, <1>2, LineTypes, NodeTypes DEF Tick, Frames, TickFrames
<1> HIDE DEF t
<1>4. QED BY <1>1, <1>3, LineTakesFrame

LEMMA LineCatchup ==
  ASSUME Types, LineIInv, Catchup
  PROVE  LineIInv' /\ queue' \in Seq(Frames)
<1> DEFINE f == [kind |-> "start",
                 fps |-> [c \in Candles |-> IF node[c] = None THEN None
                                            ELSE FootprintOf(node, c)]]
<1>1. /\ queue' = Append(queue, f)
      /\ UNCHANGED <<now, traded, klines, unframed, last, candles, forming>>
  BY DEF Catchup, exchange, sockets, core, window
<1>2. [c \in Candles |-> IF node[c] = None THEN None ELSE FootprintOf(node, c)]
         \in [Candles -> {None} \cup Footprints]
  BY NodeTypes
<1>3. f \in Frames /\ f.kind # "tick"
  BY <1>2 DEF Frames, StartFrames
<1> HIDE DEF f
<1>4. QED BY <1>1, <1>3, LineTakesFrame

(* The window takes a frame: a tick tells no less of its candle than the   *)
(* window kept, and the final record of a completed candle, once kept, is  *)
(* never replaced by an older one.                                         *)
LEMMA LineApplies ==
  ASSUME Types, LineIInv, Apply
  PROVE  LineIInv' /\ queue' \in Seq(Frames)
<1> DEFINE f == Head(queue)
<1>1. /\ queue # <<>> /\ queue' = Tail(queue)
      /\ UNCHANGED <<now, traded, klines, unframed, last>>
      /\ \/ f.kind = "tick" /\ candles' = [candles EXCEPT ![f.candle.c] = f.candle.vol]
            /\ forming' = f.candle.c
         \/ f.kind # "tick" /\ candles' = candles /\ forming' = forming
  BY DEF Apply, ApplyTick, ApplyStart, exchange, sockets, core
<1>2. /\ f = queue[1] /\ 1 \in DOMAIN queue /\ f \in Frames
      /\ \A i \in DOMAIN queue' : i \in Nat /\ i > 0 /\ i + 1 \in DOMAIN queue
                                   /\ queue'[i] = queue[i + 1]
      /\ \A i \in DOMAIN queue : \/ i = 1
                                 \/ i - 1 \in DOMAIN queue' /\ queue'[i - 1] = queue[i]
  BY <1>1, LineTypes, TailParts
<1>3. f.kind = "tick" => f.candle \in Records /\ f.candle.c \in Candles /\ f.candle.c \in Nat
                         /\ f.candle.vol \in Nat
  BY <1>2, LineTypes
<1> HIDE DEF f
<1>4. \A c \in Candles : candles'[c] = IF f.kind = "tick" /\ c = f.candle.c THEN f.candle.vol
                                       ELSE candles[c]
  <2>1. candles \in [Candles -> {None} \cup 0..MaxTrades]
    BY DEF Types, TypeOK
  <2>2. QED BY <1>1, <1>3, <2>1
<1>5. ASSUME NEW i \in DOMAIN queue', NEW j \in DOMAIN queue', i < j
      PROVE  i + 1 \in DOMAIN queue /\ j + 1 \in DOMAIN queue /\ i + 1 < j + 1
             /\ queue'[i] = queue[i + 1] /\ queue'[j] = queue[j + 1]
  BY <1>2, <1>5
<1>6. QueueIsInOrder'
  <2>1. ASSUME NEW i \in DOMAIN queue', queue'[i].kind = "tick"
        PROVE  last # None /\ NotAfter(queue'[i].candle, last)
    BY <1>2, <2>1 DEF LineIInv, QueueIsInOrder
  <2>2. ASSUME NEW i \in DOMAIN queue', NEW j \in DOMAIN queue', i < j,
               queue'[i].kind = "tick", queue'[j].kind = "tick"
        PROVE  NotAfter(queue'[i].candle, queue'[j].candle)
    BY <1>5, <2>2 DEF LineIInv, QueueIsInOrder
  <2>3. QED BY <1>1, <2>1, <2>2 DEF QueueIsInOrder
<1>7. NothingInvented'
  BY <1>1, <1>2 DEF LineIInv, NothingInvented
<1>8. KlinesAreInOrder'
  BY <1>1 DEF LineIInv, KlinesAreInOrder
<1>9. ASSUME NEW c \in Candles, candles'[c] # None
      PROVE  /\ last # None /\ NotAfter(Kept(c)', last)
             /\ \A i \in DOMAIN queue' :
                   queue'[i].kind = "tick" => NotAfter(Kept(c)', queue'[i].candle)
  <2>1. CASE f.kind = "tick" /\ c = f.candle.c
    <3>1. Kept(c)' = [c |-> f.candle.c, vol |-> f.candle.vol]
      BY <1>4, <2>1 DEF Kept
    <3>2. last # None /\ NotAfter(f.candle, last)
      BY <1>2, <2>1 DEF LineIInv, QueueIsInOrder
    <3>3. ASSUME NEW i \in DOMAIN queue', queue'[i].kind = "tick"
          PROVE  NotAfter(f.candle, queue'[i].candle)
      <4>1. 1 \in DOMAIN queue /\ i + 1 \in DOMAIN queue /\ 1 < i + 1
            /\ queue'[i] = queue[i + 1] /\ queue[1] = f
        BY <1>2
      <4>2. QED BY <2>1, <3>3, <4>1 DEF LineIInv, QueueIsInOrder
    <3>4. \A r : NotAfter(f.candle, r) => NotAfter(Kept(c)', r)
      BY <3>1 DEF NotAfter
    <3>5. QED BY <3>2, <3>3, <3>4
  <2>2. CASE ~(f.kind = "tick" /\ c = f.candle.c)
    <3>1. candles'[c] = candles[c] /\ Kept(c)' = Kept(c)
      BY <1>4, <2>2 DEF Kept
    <3>2. /\ last # None /\ NotAfter(Kept(c), last)
          /\ \A i \in DOMAIN queue : queue[i].kind = "tick" => NotAfter(Kept(c), queue[i].candle)
      BY <1>9, <3>1 DEF LineIInv, WindowIsBehind
    <3>3. QED BY <1>2, <3>1, <3>2
  <2>3. QED BY <2>1, <2>2
<1>10. WindowIsBehind'
  <2>1. forming' # None => candles'[forming'] # None
    <3>1. CASE f.kind = "tick"
      BY <1>1, <1>3, <1>4, <3>1, Constants
    <3>2. CASE f.kind # "tick"
      BY <1>1, <3>2 DEF LineIInv, WindowIsBehind
    <3>3. QED BY <3>1, <3>2
  <2>2. QED BY <1>1, <1>9, <2>1 DEF WindowIsBehind
<1>11. FinalIsComing'
  <2> SUFFICES ASSUME NEW c \in Candles, c < now, c \notin unframed
               PROVE  \/ candles'[c] = traded[c]
                      \/ \E i \in DOMAIN queue' : queue'[i].kind = "tick" /\ queue'[i].candle.c = c
                                                 /\ queue'[i].candle.vol = traded[c]
                      \/ \E i \in DOMAIN klines : klines[i].c = c /\ klines[i].vol = traded[c]
    BY <1>1 DEF FinalIsComing
  <2>1. CASE candles[c] = traded[c]
    <3>1. CASE f.kind = "tick" /\ c = f.candle.c
      <4>1. f.candle.vol =< traded[c]
        BY <1>2, <3>1 DEF LineIInv, NothingInvented
      <4>2. candles[c] # None /\ candles[c] \in Nat
        BY <2>1, LineTypes, Constants
      <4>3. NotAfter(Kept(c), f.candle)
        BY <1>2, <3>1, <4>2 DEF LineIInv, WindowIsBehind
      <4>4. traded[c] =< f.candle.vol
        BY <1>3, <2>1, <3>1, <4>3 DEF NotAfter, Kept
      <4>5. candles'[c] = traded[c]
        BY <1>3, <1>4, <3>1, <4>1, <4>4, LineTypes
      <4>6. QED BY <4>5
    <3>2. CASE ~(f.kind = "tick" /\ c = f.candle.c)
      BY <1>4, <2>1, <3>2
    <3>3. QED BY <3>1, <3>2
  <2>2. ASSUME NEW i \in DOMAIN queue, queue[i].kind = "tick", queue[i].candle.c = c,
               queue[i].candle.vol = traded[c]
        PROVE  \/ candles'[c] = traded[c]
               \/ \E j \in DOMAIN queue' : queue'[j].kind = "tick" /\ queue'[j].candle.c = c
                                            /\ queue'[j].candle.vol = traded[c]
    <3>1. CASE i = 1
      BY <1>2, <1>4, <2>2, <3>1
    <3>2. CASE i # 1
      BY <1>2, <2>2, <3>2
    <3>3. QED BY <3>1, <3>2
  <2>3. QED BY <2>1, <2>2 DEF LineIInv, FinalIsComing
<1>12. queue' \in Seq(Frames)
  BY <1>1, LineTypes, TailParts
<1>13. QED BY <1>6, <1>7, <1>8, <1>10, <1>11, <1>12 DEF LineIInv

LEMMA LineNext ==
  ASSUME Types, LineIInv, [Next]_vars
  PROVE  LineIInv' /\ queue' \in Seq(Frames)
<1>1. CASE Trade
  <2>1. /\ traded' = [traded EXCEPT ![now] = @ + 1] /\ unframed' = unframed
        /\ UNCHANGED <<now, klines, last, queue, candles, forming>>
    BY <1>1 DEF Trade, core, window
  <2>2. traded \in [Candles -> 0..MaxTrades] /\ \A c \in Candles : traded[c] \in Nat
    BY LineTypes DEF Types, TypeOK
  <2>3. ASSUME NEW c \in Candles
        PROVE  traded[c] =< traded'[c] /\ traded'[c] \in Nat
               /\ (c # now => traded'[c] = traded[c])
    BY <2>1, <2>2
  <2>4. QED BY <2>1, <2>3, LineTypes, LineStays
<1>2. CASE Heartbeat
  <2>1. /\ klines' = Append(klines, KlineOf(now, FALSE)) /\ now' = now
        /\ UNCHANGED <<traded, unframed, last, queue, candles, forming>>
    BY <1>2 DEF Heartbeat, exchange, core, window
  <2>2. QED BY <2>1, LineTypes, LineTakesKline
<1>3. CASE NextCandle
  <2>1. /\ klines' = Append(klines, KlineOf(now, TRUE)) /\ now' = now + 1
        /\ UNCHANGED <<traded, unframed, last, queue, candles, forming>>
    BY <1>3 DEF NextCandle, core, window
  <2>2. QED BY <2>1, LineTypes, LineTakesKline
<1>4. CASE KlineGap
  BY <1>4, LineTypes, LineLosesKlines DEF KlineGap
<1>5. CASE ProcessKline
  BY <1>5, LineProcessesKline
<1>6. CASE LiveEdge
  BY <1>6, LineLiveEdge
<1>7. CASE Catchup
  BY <1>7, LineCatchup
<1>8. CASE Apply
  BY <1>8, LineApplies
<1>9. CASE TapeGap \/ (\E full \in BOOLEAN : ProcessAggtrade(full)) \/ Liquidation \/ ApplyOi
           \/ UNCHANGED vars
  <2>1. UNCHANGED <<traded, unframed, now, klines, last, queue, candles, forming>>
    BY <1>9 DEF TapeGap, ProcessAggtrade, Liquidation, ApplyOi, vars, exchange, sockets, core,
                window
  <2>2. QED BY <2>1, LineTypes, LineStays
<1>10. QED BY <1>1, <1>2, <1>3, <1>4, <1>5, <1>6, <1>7, <1>8, <1>9 DEF Next
-----------------------------------------------------------------------------
(* Forced orders: each in one bucket, and in one candle or before any.     *)

LEMMA LiqTypes ==
  ASSUME Types
  PROVE  /\ liqs \in 0..MaxLiqs /\ liqs \in Nat /\ early \in Nat
         /\ bucketLiqs \in [active : 0..MaxLiqs, closed : 0..MaxLiqs]
         /\ bucketLiqs.active \in Nat /\ bucketLiqs.closed \in Nat
         /\ latest \in {None} \cup Candles
         /\ \A c \in Candles : FramedLiqs(c) \in Nat
<1>1. /\ {liqs, early} \subseteq 0..MaxLiqs
      /\ bucketLiqs \in [active : 0..MaxLiqs, closed : 0..MaxLiqs]
      /\ latest \in {None} \cup Candles
  BY DEF Types, TypeOK
<1>2. \A n \in 0..MaxLiqs : n \in Nat
  BY Constants
<1>3. \A c \in Candles : FramedLiqs(c) \in Nat
  BY <1>2, NodeTypes DEF FramedLiqs, Nodes
<1>4. QED BY <1>1, <1>2, <1>3

(* No candle shows more forced orders than were received.                  *)
LEMMA FramedAreReceived ==
  ASSUME Types, ForcedOrdersCountedOnce, NEW c \in Candles
  PROVE  FramedLiqs(c) =< liqs
<1>1. PICK sum \in [0..MaxCandle -> 0..liqs] : RunningTotal(sum)
  BY DEF ForcedOrdersCountedOnce
<1>2. c \in 0..MaxCandle /\ c - 1 \in 0..MaxCandle
  BY Constants
<1>3. sum[c] = sum[c - 1] + FramedLiqs(c) /\ sum[c] \in 0..liqs /\ sum[c - 1] \in 0..liqs
  BY <1>1, <1>2 DEF RunningTotal
<1>4. QED BY <1>3, LiqTypes

(* The node a forced order is added to.                                    *)
LEMMA NodeTakesLiq ==
  ASSUME Types, ForcedOrdersCountedOnce, Liquidation, latest # None
  PROVE  /\ latest \in Candles /\ node[latest] # None
         /\ node' = [node EXCEPT ![latest].liqs = @ + 1]
         /\ node'[latest] = [node[latest] EXCEPT !.liqs = @ + 1]
         /\ node'[latest] \in Nodes /\ node'[latest] # None
         /\ node'[latest].levels = node[latest].levels
         /\ node'[latest].oiOpen = node[latest].oiOpen
         /\ node'[latest].oiClose = node[latest].oiClose
         /\ node'[latest].liqs = node[latest].liqs + 1
<1>1. latest \in Candles /\ node[latest] # None /\ node[latest] \in Nodes
      /\ node' = [node EXCEPT ![latest].liqs = @ + 1] /\ liqs < MaxLiqs
  BY LiqTypes, NodeTypes DEF Types, FrameTypes, Liquidation
<1>2. node'[latest] = [node[latest] EXCEPT !.liqs = @ + 1]
  BY <1>1, NodeTypes
<1>3. node[latest].liqs =< liqs
  BY <1>1, FramedAreReceived DEF FramedLiqs
<1>4. node[latest].liqs + 1 \in 0..MaxLiqs
  <2>1. node[latest].liqs \in 0..MaxLiqs
    BY <1>1 DEF Nodes
  <2>2. QED BY <1>1, <1>3, <2>1, LiqTypes, Constants
<1>5. /\ node'[latest] \in Nodes
      /\ node'[latest].levels = node[latest].levels
      /\ node'[latest].oiOpen = node[latest].oiOpen
      /\ node'[latest].oiClose = node[latest].oiClose
      /\ node'[latest].liqs = node[latest].liqs + 1
  BY <1>1, <1>2, <1>4 DEF Nodes
<1>6. QED BY <1>1, <1>2, <1>5, Constants

(* A step that counts no forced order.                                     *)
LEMMA LiqsStay ==
  ASSUME ForcedOrdersCountedOnce, UNCHANGED <<liqs, early>>,
         bucketLiqs'.active + bucketLiqs'.closed = bucketLiqs.active + bucketLiqs.closed,
         \A c \in Candles : FramedLiqs(c)' = FramedLiqs(c)
  PROVE  ForcedOrdersCountedOnce'
<1>1. PICK sum \in [0..MaxCandle -> 0..liqs] :
         RunningTotal(sum) /\ liqs = early + sum[MaxCandle]
  BY DEF ForcedOrdersCountedOnce
<1>2. sum[0] = 0 /\ \A c \in Candles : sum[c] = sum[c - 1] + FramedLiqs(c)'
  BY <1>1 DEF RunningTotal
<1>3. bucketLiqs'.active + bucketLiqs'.closed = liqs'
  BY DEF ForcedOrdersCountedOnce
<1>4. QED BY <1>1, <1>2, <1>3 DEF ForcedOrdersCountedOnce, RunningTotal, FramedLiqs
-----------------------------------------------------------------------------
(* Trades: on the tape, lost with it, or in the levels of their candle.    *)
LevelsOf(c) == IF node[c] = None THEN 0 ELSE node[c].levels

LEMMA TapeTypes ==
  ASSUME Types
  PROVE  /\ tape \in Seq(Candles) /\ now \in Candles
         /\ traded \in [Candles -> 0..MaxTrades] /\ lost \in [Candles -> 0..MaxTrades]
         /\ \A c \in Candles : /\ traded[c] \in Nat /\ lost[c] \in Nat /\ LevelsOf(c) \in Nat
                                /\ EnsureNode(c).levels = LevelsOf(c)
                                /\ Cardinality(Places(tape, c)) \in Nat
<1>1. /\ tape \in Seq(Candles) /\ now \in Candles
      /\ traded \in [Candles -> 0..MaxTrades] /\ lost \in [Candles -> 0..MaxTrades]
  BY DEF Types, TypeOK
<1>2. \A n \in 0..MaxTrades : n \in Nat
  BY Constants
<1>3. \A c \in Candles : EnsureNode(c).levels = LevelsOf(c)
  BY DEF EnsureNode, LevelsOf, NewNode
<1>4. \A c \in Candles : LevelsOf(c) \in Nat
  BY <1>2, <1>3, NodeTypes
<1>5. \A c \in Candles : Cardinality(Places(tape, c)) \in Nat
  BY <1>1, PlacesAreFinite
<1>6. QED BY <1>1, <1>2, <1>3, <1>4, <1>5

LEMMA LevelsByPlaces ==
  LevelsAreTheTape <=>
      \A c \in Candles : traded[c] = lost[c] + Cardinality(Places(tape, c)) + LevelsOf(c)
BY DEF LevelsAreTheTape, Places, LevelsOf

(* The node a trade goes to, and the node a kline frames.                  *)
LEMMA NodeTakesTrade ==
  ASSUME Types, LevelsAreTheTape, NEW full \in BOOLEAN, ProcessAggtrade(full)
  PROVE  /\ tape # <<>> /\ Head(tape) \in Candles /\ latest' = Head(tape)
         /\ node' \in [Candles -> {None} \cup Nodes] /\ node'[Head(tape)] # None
         /\ \A c \in Candles : c # Head(tape) => node'[c] = node[c]
         /\ node'[Head(tape)].levels = LevelsOf(Head(tape)) + 1
         /\ node'[Head(tape)].liqs = FramedLiqs(Head(tape))
         /\ node'[Head(tape)].oiOpen = EnsureNode(Head(tape)).oiOpen
         /\ node'[Head(tape)].oiClose = EnsureNode(Head(tape)).oiClose
<1> DEFINE h == Head(tape)
           n == [EnsureNode(h) EXCEPT !.levels = @ + 1]
<1>1. /\ tape # <<>> /\ tape' = Tail(tape) /\ traded' = traded /\ lost' = lost
      /\ node' = [node EXCEPT ![h] = n] /\ latest' = h
  BY DEF ProcessAggtrade, CandleOpen, exchange
<1>2. h \in Candles
  BY <1>1, TapeTypes, TailParts
<1>3. /\ EnsureNode(h) \in Nodes /\ EnsureNode(h).levels = LevelsOf(h)
      /\ EnsureNode(h).liqs = FramedLiqs(h)
  BY <1>2, NodeTypes, TapeTypes DEF EnsureNode, NewNode, FramedLiqs
<1>4. LevelsOf(h) + 1 \in 0..MaxTrades
  <2>1. /\ Cardinality(Places(tape, h)) = Cardinality(Places(tape', h)) + 1
        /\ Cardinality(Places(tape', h)) \in Nat
    BY <1>1, <1>2, TapeTypes, TailParts, PlacesShrink, PlacesAreFinite
  <2>2. traded[h] = lost[h] + Cardinality(Places(tape, h)) + LevelsOf(h)
    BY <1>2, LevelsByPlaces
  <2>3. traded[h] \in 0..MaxTrades /\ lost[h] \in Nat /\ LevelsOf(h) \in Nat
    BY <1>2, TapeTypes
  <2>4. QED BY <2>1, <2>2, <2>3, Constants
<1> HIDE DEF h
<1>5. /\ n \in Nodes /\ n.levels = LevelsOf(h) + 1 /\ n.liqs = FramedLiqs(h)
      /\ n.oiOpen = EnsureNode(h).oiOpen /\ n.oiClose = EnsureNode(h).oiClose
  BY <1>3, <1>4 DEF Nodes
<1> HIDE DEF n
<1>6. node'[h] = n /\ node' \in [Candles -> {None} \cup Nodes]
      /\ \A c \in Candles : c # h => node'[c] = node[c]
  BY <1>1, <1>2, <1>5, NodeTypes
<1>7. QED BY <1>1, <1>2, <1>5, <1>6, Constants DEF h

LEMMA NodeTakesKline ==
  ASSUME Types, ProcessKline, NEW f, f = Head(klines).c
  PROVE  /\ klines # <<>> /\ f \in Candles /\ latest' = f
         /\ Head(klines).vol \in 0..MaxTrades
         /\ node' \in [Candles -> {None} \cup Nodes] /\ node'[f] # None
         /\ \A c \in Candles : c # f => node'[c] = node[c]
         /\ node'[f].levels = LevelsOf(f) /\ node'[f].liqs = FramedLiqs(f)
         /\ node'[f].oiOpen = EnsureNode(f).oiOpen /\ node'[f].oiClose = oi
<1> DEFINE v == Head(klines).vol
           n == [EnsureNode(f) EXCEPT !.lastVol = v, !.oiClose = oi]
<1>1. klines # <<>> /\ node' = [node EXCEPT ![f] = n] /\ latest' = f
  BY DEF ProcessKline
<1>2. f \in Candles /\ v \in 0..MaxTrades
  BY <1>1, LineTypes, TailParts, FrameParts
<1> HIDE DEF v
<1>3. /\ EnsureNode(f) \in Nodes /\ EnsureNode(f).levels = LevelsOf(f)
      /\ EnsureNode(f).liqs = FramedLiqs(f)
  BY <1>2, NodeTypes, TapeTypes DEF EnsureNode, NewNode, FramedLiqs
<1>4. n \in Nodes
  BY <1>2, NodeTypes
<1>5. /\ n.levels = LevelsOf(f) /\ n.liqs = FramedLiqs(f)
      /\ n.oiOpen = EnsureNode(f).oiOpen /\ n.oiClose = oi
  BY <1>3 DEF Nodes
<1> HIDE DEF n
<1>6. node'[f] = n /\ node' \in [Candles -> {None} \cup Nodes]
      /\ \A c \in Candles : c # f => node'[c] = node[c]
  BY <1>1, <1>2, <1>4, NodeTypes
<1>7. QED BY <1>1, <1>2, <1>4, <1>5, <1>6, Constants DEF v

(* What a step does to the nodes of all candles but their levels leaves    *)
(* the count as it is.                                                     *)
LEMMA LevelsStay ==
  ASSUME LevelsAreTheTape, UNCHANGED <<traded, lost, tape>>,
         \A c \in Candles : LevelsOf(c)' = LevelsOf(c)
  PROVE  LevelsAreTheTape'
BY DEF LevelsAreTheTape, LevelsOf

LEMMA LevelsNext ==
  ASSUME Types, LevelsAreTheTape, ForcedOrdersCountedOnce, [Next]_vars
  PROVE  LevelsAreTheTape'
<1> DEFINE On(c) == Cardinality(Places(tape, c))
<1>1. CASE Trade
  <2>1. /\ traded' = [traded EXCEPT ![now] = @ + 1] /\ tape' = Append(tape, now)
        /\ lost' = lost /\ node' = node
    BY <1>1 DEF Trade, core
  <2>2. ASSUME NEW c \in Candles
        PROVE  traded'[c] = lost'[c] + Cardinality(Places(tape', c)) + LevelsOf(c)'
    <3>1. Cardinality(Places(tape', c)) = On(c) + (IF now = c THEN 1 ELSE 0)
      BY <2>1, TapeTypes, PlacesGrow
    <3>2. traded'[c] = traded[c] + (IF now = c THEN 1 ELSE 0)
      BY <2>1, TapeTypes
    <3>3. LevelsOf(c)' = LevelsOf(c) /\ lost'[c] = lost[c]
      BY <2>1 DEF LevelsOf
    <3>4. traded[c] = lost[c] + On(c) + LevelsOf(c)
      BY LevelsByPlaces
    <3> HIDE DEF On
    <3>5. QED BY <3>1, <3>2, <3>3, <3>4, TapeTypes DEF On
  <2>3. QED BY <2>2 DEF LevelsAreTheTape, Places, LevelsOf
<1>2. CASE \E full \in BOOLEAN : ProcessAggtrade(full)
  <2> DEFINE h == Head(tape)
  <2>1. /\ tape # <<>> /\ tape' = Tail(tape) /\ traded' = traded /\ lost' = lost
    BY <1>2 DEF ProcessAggtrade, exchange
  <2>2. /\ h \in Candles /\ node'[h] # None /\ node'[h].levels = LevelsOf(h) + 1
        /\ \A c \in Candles : c # h => node'[c] = node[c]
    BY <1>2, NodeTakesTrade
  <2> HIDE DEF h
  <2>3. ASSUME NEW c \in Candles
        PROVE  traded'[c] = lost'[c] + Cardinality(Places(tape', c)) + LevelsOf(c)'
    <3>1. On(c) = Cardinality(Places(tape', c)) + (IF h = c THEN 1 ELSE 0)
      BY <2>1, TapeTypes, PlacesShrink DEF h
    <3>2. LevelsOf(c)' = LevelsOf(c) + (IF h = c THEN 1 ELSE 0)
      <4>1. CASE h = c
        BY <2>2, <4>1 DEF LevelsOf
      <4>2. CASE h # c
        <5>1. LevelsOf(c)' = LevelsOf(c)
          BY <2>2, <4>2 DEF LevelsOf
        <5>2. QED BY <4>2, <5>1, TapeTypes
      <4>3. QED BY <4>1, <4>2
    <3>3. traded[c] = lost[c] + On(c) + LevelsOf(c)
      BY LevelsByPlaces
    <3>4. Cardinality(Places(tape', c)) \in Nat /\ lost[c] \in Nat /\ LevelsOf(c) \in Nat
      BY <2>1, TapeTypes, TailParts, PlacesAreFinite
    <3>5. traded'[c] = traded[c] /\ lost'[c] = lost[c]
      BY <2>1
    <3> HIDE DEF On
    <3>6. QED BY <3>1, <3>2, <3>3, <3>4, <3>5
  <2>4. QED BY <2>3 DEF LevelsAreTheTape, Places, LevelsOf
<1>3. CASE TapeGap
  <2>1. /\ tape' = <<>> /\ traded' = traded /\ node' = node
        /\ lost' = [c \in Candles |-> lost[c] + On(c)]
    BY <1>3 DEF TapeGap, exchange, core, Places
  <2>2. ASSUME NEW c \in Candles
        PROVE  traded'[c] = lost'[c] + Cardinality(Places(tape', c)) + LevelsOf(c)'
    <3>1. Cardinality(Places(tape', c)) = 0
      BY <2>1, FS_EmptySet DEF Places
    <3>2. LevelsOf(c)' = LevelsOf(c) /\ lost'[c] = lost[c] + On(c)
      BY <2>1 DEF LevelsOf
    <3>3. traded[c] = lost[c] + On(c) + LevelsOf(c)
      BY LevelsByPlaces
    <3>4. lost[c] \in Nat /\ LevelsOf(c) \in Nat /\ On(c) \in Nat
      BY TapeTypes
    <3> HIDE DEF On
    <3>5. QED BY <2>1, <3>1, <3>2, <3>3, <3>4
  <2>3. QED BY <2>2 DEF LevelsAreTheTape, Places, LevelsOf
<1>4. CASE ProcessKline
  <2>1. UNCHANGED <<traded, lost, tape>>
    BY <1>4 DEF ProcessKline, exchange
  <2>2. ASSUME NEW c \in Candles PROVE LevelsOf(c)' = LevelsOf(c)
    BY <1>4, NodeTakesKline DEF LevelsOf
  <2>3. QED BY <2>1, <2>2, LevelsStay
<1>5. CASE Liquidation
  <2>1. /\ UNCHANGED <<traded, lost, tape>>
        /\ \/ latest # None /\ node' = [node EXCEPT ![latest].liqs = @ + 1]
           \/ node' = node
    BY <1>5 DEF Liquidation, exchange, sockets
  <2>2. ASSUME NEW c \in Candles PROVE LevelsOf(c)' = LevelsOf(c)
    <3>1. CASE latest # None /\ c = latest /\ node' = [node EXCEPT ![latest].liqs = @ + 1]
      BY <1>5, <3>1, NodeTakesLiq DEF LevelsOf
    <3>2. CASE c # latest \/ node' = node
      BY <2>1, <3>2, NodeTypes DEF LevelsOf
    <3>3. QED BY <2>1, <3>1, <3>2
  <2>3. QED BY <2>1, <2>2, LevelsStay
<1>6. CASE Heartbeat \/ NextCandle \/ KlineGap \/ ApplyOi \/ LiveEdge \/ Catchup \/ Apply
           \/ UNCHANGED vars
  <2>1. UNCHANGED <<traded, lost, tape, node>>
    BY <1>6 DEF Heartbeat, NextCandle, KlineGap, ApplyOi, LiveEdge, Catchup, Apply, vars,
                exchange, sockets, core
  <2>2. QED BY <2>1, LevelsStay DEF LevelsOf
<1>7. QED BY <1>1, <1>2, <1>3, <1>4, <1>5, <1>6 DEF Next
-----------------------------------------------------------------------------
(* Forced orders in a step, and the types.                                 *)

LEMMA LiqsNext ==
  ASSUME Types, LevelsAreTheTape, ForcedOrdersCountedOnce, [Next]_vars
  PROVE  ForcedOrdersCountedOnce'
<1>1. CASE \E full \in BOOLEAN : ProcessAggtrade(full)
  <2>1. PICK full \in BOOLEAN : ProcessAggtrade(full)
    BY <1>1
  <2>2. UNCHANGED <<liqs, early>> /\ bucketLiqs' = BucketAfterTrade(full)
    BY <2>1 DEF ProcessAggtrade
  <2>3. bucketLiqs'.active + bucketLiqs'.closed = bucketLiqs.active + bucketLiqs.closed
    BY <2>2, LiqTypes DEF BucketAfterTrade
  <2>4. ASSUME NEW c \in Candles PROVE FramedLiqs(c)' = FramedLiqs(c)
    BY <2>1, NodeTakesTrade DEF FramedLiqs
  <2>5. QED BY <2>2, <2>3, <2>4, LiqsStay
<1>2. CASE ProcessKline
  <2>1. UNCHANGED <<liqs, early, bucketLiqs>>
    BY <1>2 DEF ProcessKline
  <2>2. ASSUME NEW c \in Candles PROVE FramedLiqs(c)' = FramedLiqs(c)
    BY <1>2, NodeTakesKline DEF FramedLiqs
  <2>3. QED BY <2>1, <2>2, LiqsStay
<1>3. CASE Liquidation
  <2>1. PICK sum \in [0..MaxCandle -> 0..liqs] :
           RunningTotal(sum) /\ liqs = early + sum[MaxCandle]
    BY DEF ForcedOrdersCountedOnce
  <2>2. liqs' = liqs + 1 /\ bucketLiqs' = [bucketLiqs EXCEPT !.active = @ + 1]
    BY <1>3 DEF Liquidation, BucketAfterLiq
  <2>3. bucketLiqs'.active + bucketLiqs'.closed = liqs'
    BY <2>2, LiqTypes DEF ForcedOrdersCountedOnce
  <2>4. \A n \in 0..MaxCandle : sum[n] \in 0..liqs
    BY <2>1
  <2>5. sum[0] = 0 /\ \A c \in Candles : sum[c] = sum[c - 1] + FramedLiqs(c)
    BY <2>1 DEF RunningTotal
  <2>6. CASE latest = None
    <3>1. early' = early + 1 /\ node' = node
      BY <1>3, <2>6 DEF Liquidation
    <3>2. sum \in [0..MaxCandle -> 0..liqs']
      BY <2>1, <2>2, LiqTypes
    <3>3. \A c \in Candles : sum[c] = sum[c - 1] + FramedLiqs(c)'
      BY <2>5, <3>1 DEF FramedLiqs
    <3>4. liqs' = early' + sum[MaxCandle]
      <4>1. MaxCandle \in 0..MaxCandle
        BY Constants
      <4>2. sum[MaxCandle] \in Nat
        BY <2>4, <4>1, LiqTypes
      <4>3. \A l, e, t \in Nat : l = e + t => l + 1 = (e + 1) + t
        OBVIOUS
      <4>4. QED BY <2>1, <2>2, <3>1, <4>2, <4>3, LiqTypes
    <3>5. QED BY <2>3, <2>5, <3>2, <3>3, <3>4 DEF ForcedOrdersCountedOnce, RunningTotal, FramedLiqs
  <2>7. CASE latest # None
    <3> DEFINE more == [n \in 0..MaxCandle |-> IF n >= latest THEN sum[n] + 1 ELSE sum[n]]
    <3>1. early' = early
      BY <1>3, <2>7 DEF Liquidation
    <3>2. /\ latest \in Candles /\ node[latest] # None /\ node'[latest] # None
          /\ node' = [node EXCEPT ![latest].liqs = @ + 1]
          /\ node'[latest].liqs = node[latest].liqs + 1
      BY <1>3, <2>7, NodeTakesLiq
    <3>3. \A c \in Candles : c = latest => FramedLiqs(c)' = FramedLiqs(c) + 1
      BY <3>2 DEF FramedLiqs
    <3>4. \A c \in Candles : c # latest => FramedLiqs(c)' = FramedLiqs(c)
      BY <3>2, NodeTypes DEF FramedLiqs
    <3>5. more \in [0..MaxCandle -> 0..liqs']
      BY <2>2, <2>4, LiqTypes
    <3>6. more[0] = 0
      BY <2>5, <3>2, Constants
    <3>7. ASSUME NEW c \in Candles PROVE more[c] = more[c - 1] + FramedLiqs(c)'
      <4>1. c \in 0..MaxCandle /\ c - 1 \in 0..MaxCandle /\ latest \in Nat /\ c \in Nat
        BY <3>2, Constants
      <4>2. /\ more[c] = IF c >= latest THEN sum[c] + 1 ELSE sum[c]
            /\ more[c - 1] = IF c - 1 >= latest THEN sum[c - 1] + 1 ELSE sum[c - 1]
        BY <4>1
      <4>3. sum[c] = sum[c - 1] + FramedLiqs(c) /\ sum[c] \in Nat /\ sum[c - 1] \in Nat
            /\ FramedLiqs(c) \in Nat
        BY <2>4, <2>5, <4>1, LiqTypes
      <4> HIDE DEF more
      <4>4. CASE c = latest
        <5>1. FramedLiqs(c)' = FramedLiqs(c) + 1
          BY <3>3, <4>4
        <5>2. QED BY <4>1, <4>2, <4>3, <4>4, <5>1
      <4>5. CASE c # latest
        BY <3>4, <4>1, <4>2, <4>3, <4>5
      <4>6. QED BY <4>4, <4>5
    <3>8. liqs' = early' + more[MaxCandle]
      <4>1. MaxCandle \in 0..MaxCandle /\ MaxCandle >= latest /\ sum[MaxCandle] \in Nat
        BY <2>4, <3>2, Constants
      <4>2. more[MaxCandle] = sum[MaxCandle] + 1
        BY <4>1
      <4>3. QED BY <2>1, <2>2, <3>1, <4>1, <4>2, LiqTypes
    <3> HIDE DEF more
    <3>9. QED BY <2>3, <3>5, <3>6, <3>7, <3>8 DEF ForcedOrdersCountedOnce, RunningTotal, FramedLiqs
  <2>8. QED BY <2>6, <2>7
<1>4. CASE Trade \/ Heartbeat \/ NextCandle \/ TapeGap \/ KlineGap \/ ApplyOi \/ LiveEdge
           \/ Catchup \/ Apply \/ UNCHANGED vars
  <2>1. UNCHANGED <<liqs, early, bucketLiqs, node>>
    BY <1>4 DEF Trade, Heartbeat, NextCandle, TapeGap, KlineGap, ApplyOi, LiveEdge, Catchup, Apply,
                vars, core
  <2>2. QED BY <2>1, LiqsStay DEF FramedLiqs
<1>5. QED BY <1>1, <1>2, <1>3, <1>4 DEF Next

(* The exchange and the tape.                                              *)
ExchangeTypes ==
    /\ now \in Candles /\ traded \in [Candles -> 0..MaxTrades] /\ trades \in 0..MaxTrades
    /\ tape \in Seq(Candles) /\ lost \in [Candles -> 0..MaxTrades]
    /\ \A c \in Candles : traded[c] =< trades

LEMMA ExchangeNext ==
  ASSUME Types, LevelsAreTheTape, [Next]_vars
  PROVE  ExchangeTypes'
<1>1. ExchangeTypes
  BY DEF Types, TypeOK, CountsAgree, ExchangeTypes
<1>2. CASE Trade
  <2>1. /\ trades < MaxTrades /\ trades' = trades + 1
        /\ traded' = [traded EXCEPT ![now] = @ + 1] /\ tape' = Append(tape, now)
        /\ now' = now /\ lost' = lost
    BY <1>2 DEF Trade
  <2>2. trades' \in 0..MaxTrades
    BY <1>1, <2>1, Constants DEF ExchangeTypes
  <2>3. ASSUME NEW c \in Candles PROVE traded'[c] \in 0..MaxTrades /\ traded'[c] =< trades'
    <3>1. traded[c] \in Nat /\ traded[c] =< trades /\ trades \in Nat
      BY <1>1, Constants DEF ExchangeTypes
    <3>2. traded'[c] = traded[c] \/ traded'[c] = traded[c] + 1
      BY <1>1, <2>1 DEF ExchangeTypes
    <3>3. QED BY <2>1, <3>1, <3>2, Constants
  <2>4. traded' \in [Candles -> 0..MaxTrades]
    BY <1>1, <2>1, <2>3 DEF ExchangeTypes
  <2>5. tape' \in Seq(Candles)
    BY <1>1, <2>1, AppendParts DEF ExchangeTypes
  <2>6. QED BY <1>1, <2>1, <2>2, <2>3, <2>4, <2>5 DEF ExchangeTypes
<1>3. CASE NextCandle
  <2>1. now' = now + 1 /\ now < MaxCandle /\ UNCHANGED <<traded, tape, lost, trades>>
    BY <1>3 DEF NextCandle, bounds
  <2>2. now' \in Candles
    BY <1>1, <2>1, Constants DEF ExchangeTypes
  <2>3. QED BY <1>1, <2>1, <2>2 DEF ExchangeTypes
<1>4. CASE TapeGap
  <2>1. /\ tape' = <<>> /\ UNCHANGED <<now, traded, trades>>
        /\ lost' = [c \in Candles |-> lost[c] + Cardinality(Places(tape, c))]
    BY <1>4 DEF TapeGap, exchange, bounds, Places
  <2>2. ASSUME NEW c \in Candles PROVE lost'[c] \in 0..MaxTrades
    <3> DEFINE on == Cardinality(Places(tape, c))
    <3>1. traded[c] = lost[c] + on + LevelsOf(c) /\ lost'[c] = lost[c] + on
      BY <2>1, LevelsByPlaces
    <3>2. on \in Nat /\ lost[c] \in Nat /\ LevelsOf(c) \in Nat /\ traded[c] \in 0..MaxTrades
      BY TapeTypes
    <3> HIDE DEF on
    <3>3. QED BY <3>1, <3>2, Constants
  <2>3. lost' \in [Candles -> 0..MaxTrades]
    BY <2>1, <2>2
  <2>4. <<>> \in Seq(Candles)
    OBVIOUS
  <2>5. QED BY <1>1, <2>1, <2>3, <2>4 DEF ExchangeTypes
<1>5. CASE \E full \in BOOLEAN : ProcessAggtrade(full)
  <2>1. tape # <<>> /\ tape' = Tail(tape) /\ UNCHANGED <<now, traded, trades, lost>>
    BY <1>5 DEF ProcessAggtrade, exchange, bounds
  <2>2. tape' \in Seq(Candles)
    BY <1>1, <2>1, TailParts DEF ExchangeTypes
  <2>3. QED BY <1>1, <2>1, <2>2 DEF ExchangeTypes
<1>6. CASE Heartbeat \/ KlineGap \/ ProcessKline \/ Liquidation \/ ApplyOi \/ LiveEdge \/ Catchup
           \/ Apply \/ UNCHANGED vars
  <2>1. UNCHANGED <<now, traded, trades, tape, lost>>
    BY <1>6 DEF Heartbeat, KlineGap, ProcessKline, Liquidation, ApplyOi, LiveEdge, Catchup, Apply,
                vars, exchange, sockets, bounds
  <2>2. QED BY <1>1, <2>1 DEF ExchangeTypes
<1>7. QED BY <1>2, <1>3, <1>4, <1>5, <1>6 DEF Next

(* The nodes and what points to them.                                      *)
NodesTypes ==
    /\ latest \in {None} \cup Candles /\ node \in [Candles -> {None} \cup Nodes]
    /\ oi \in 0..MaxPolls
    /\ latest # None => node[latest] # None
    /\ \A c \in Candles : node[c] # None => node[c].oiOpen =< node[c].oiClose
                                             /\ node[c].oiClose =< oi
    /\ last # None => latest # None

LEMMA NodesNext ==
  ASSUME Types, LevelsAreTheTape, ForcedOrdersCountedOnce, [Next]_vars
  PROVE  NodesTypes'
<1>1. NodesTypes
  BY DEF Types, TypeOK, CountsAgree, FrameTypes, NodesTypes
<1>2. oi \in Nat
  BY <1>1, Constants DEF NodesTypes
<1>3. ASSUME NEW c \in Candles
      PROVE  EnsureNode(c).oiOpen =< EnsureNode(c).oiClose /\ EnsureNode(c).oiClose =< oi
             /\ EnsureNode(c).oiOpen =< oi
  <2>1. CASE node[c] = None
    BY <1>2, <2>1 DEF EnsureNode, NewNode
  <2>2. CASE node[c] # None
    <3>1. EnsureNode(c) = node[c] /\ node[c] \in Nodes
      BY <2>2, NodeTypes DEF EnsureNode
    <3>2. node[c].oiOpen =< node[c].oiClose /\ node[c].oiClose =< oi
      BY <1>1, <2>2 DEF NodesTypes
    <3>3. node[c].oiOpen \in Nat /\ node[c].oiClose \in Nat
      BY <3>1, Constants DEF Nodes
    <3>4. QED BY <1>2, <3>1, <3>2, <3>3
  <2>3. QED BY <2>1, <2>2
<1>4. CASE ProcessKline
  <2> DEFINE f == Head(klines).c
  <2>1. /\ f \in Candles /\ latest' = f /\ node' \in [Candles -> {None} \cup Nodes]
        /\ node'[f] # None /\ \A c \in Candles : c # f => node'[c] = node[c]
        /\ node'[f].oiOpen = EnsureNode(f).oiOpen /\ node'[f].oiClose = oi
    BY <1>4, NodeTakesKline
  <2>2. oi' = oi
    BY <1>4 DEF ProcessKline
  <2> HIDE DEF f
  <2>3. ASSUME NEW c \in Candles, node'[c] # None
        PROVE  node'[c].oiOpen =< node'[c].oiClose /\ node'[c].oiClose =< oi'
    BY <1>1, <1>2, <1>3, <2>1, <2>2, <2>3 DEF NodesTypes
  <2>4. latest' # None
    BY <2>1, Constants
  <2>5. QED BY <1>1, <2>1, <2>2, <2>3, <2>4 DEF NodesTypes
<1>5. CASE \E full \in BOOLEAN : ProcessAggtrade(full)
  <2> DEFINE f == Head(tape)
  <2>1. /\ f \in Candles /\ latest' = f /\ node' \in [Candles -> {None} \cup Nodes]
        /\ node'[f] # None /\ \A c \in Candles : c # f => node'[c] = node[c]
        /\ node'[f].oiOpen = EnsureNode(f).oiOpen /\ node'[f].oiClose = EnsureNode(f).oiClose
    BY <1>5, NodeTakesTrade
  <2>2. oi' = oi
    BY <1>5 DEF ProcessAggtrade
  <2> HIDE DEF f
  <2>3. ASSUME NEW c \in Candles, node'[c] # None
        PROVE  node'[c].oiOpen =< node'[c].oiClose /\ node'[c].oiClose =< oi'
    BY <1>1, <1>3, <2>1, <2>2, <2>3 DEF NodesTypes
  <2>4. latest' # None
    BY <2>1, Constants
  <2>5. QED BY <1>1, <2>1, <2>2, <2>3, <2>4 DEF NodesTypes
<1>6. CASE Liquidation
  <2>1. UNCHANGED <<latest, last, oi>>
    BY <1>6 DEF Liquidation
  <2>2. CASE latest = None
    <3>1. node' = node
      BY <1>6, <2>2 DEF Liquidation
    <3>2. QED BY <1>1, <2>1, <3>1 DEF NodesTypes
  <2>3. CASE latest # None
    <3>1. /\ latest \in Candles /\ node[latest] # None
          /\ node' = [node EXCEPT ![latest].liqs = @ + 1]
          /\ node'[latest] \in Nodes /\ node'[latest] # None
          /\ node'[latest].oiOpen = node[latest].oiOpen
          /\ node'[latest].oiClose = node[latest].oiClose
      BY <1>6, <2>3, NodeTakesLiq
    <3>2. /\ \A c \in Candles : c # latest => node'[c] = node[c]
          /\ DOMAIN node' = Candles /\ node' = [c \in Candles |-> node'[c]]
      BY <3>1, NodeTypes
    <3>3. node' \in [Candles -> {None} \cup Nodes]
      BY <3>1, <3>2, NodeTypes
    <3>4. ASSUME NEW c \in Candles, node'[c] # None
          PROVE  node'[c].oiOpen =< node'[c].oiClose /\ node'[c].oiClose =< oi'
      BY <1>1, <2>1, <3>1, <3>2, <3>4 DEF NodesTypes
    <3>5. QED BY <1>1, <2>1, <3>1, <3>3, <3>4 DEF NodesTypes
  <2>4. QED BY <2>2, <2>3
<1>7. CASE ApplyOi
  <2>1. oi < MaxPolls /\ oi' = oi + 1 /\ UNCHANGED <<latest, node, last>>
    BY <1>7 DEF ApplyOi
  <2>2. oi' \in 0..MaxPolls
    BY <1>1, <2>1, Constants DEF NodesTypes
  <2>3. ASSUME NEW c \in Candles, node[c] # None PROVE node[c].oiClose =< oi'
    <3>1. node[c].oiClose =< oi /\ node[c].oiClose \in Nat
      BY <1>1, <2>3, Constants DEF NodesTypes, Nodes
    <3>2. QED BY <1>2, <2>1, <3>1
  <2>4. QED BY <1>1, <2>1, <2>2, <2>3 DEF NodesTypes
<1>8. CASE Trade \/ Heartbeat \/ NextCandle \/ TapeGap \/ KlineGap \/ LiveEdge \/ Catchup \/ Apply
           \/ UNCHANGED vars
  <2>1. UNCHANGED <<latest, node, last, oi>>
    BY <1>8 DEF Trade, Heartbeat, NextCandle, TapeGap, KlineGap, LiveEdge, Catchup, Apply, vars,
                core
  <2>2. QED BY <1>1, <2>1 DEF NodesTypes
<1>9. QED BY <1>4, <1>5, <1>6, <1>7, <1>8 DEF Next

(* The kline socket, the cached candle and the window.                     *)
RecordTypes ==
    /\ klines \in Seq(Klines) /\ unframed \subseteq Candles /\ last \in {None} \cup Records
    /\ candles \in [Candles -> {None} \cup 0..MaxTrades]
    /\ forming \in {None} \cup Candles /\ subs \in 0..MaxSubs

LEMMA RecordsNext == ASSUME Types, [Next]_vars PROVE RecordTypes'
<1>1. RecordTypes
  BY DEF Types, TypeOK, RecordTypes, Klines
<1>2. CASE Heartbeat \/ NextCandle
  <2>1. /\ UNCHANGED <<unframed, last, candles, forming, subs>>
        /\ \E x \in BOOLEAN : klines' = Append(klines, KlineOf(now, x))
    BY <1>2 DEF Heartbeat, NextCandle, core, window, bounds
  <2>2. \A x \in BOOLEAN : KlineOf(now, x) \in Klines
    BY TapeTypes DEF KlineOf, Klines
  <2>3. klines' \in Seq(Klines)
    BY <1>1, <2>1, <2>2, AppendParts DEF RecordTypes
  <2>4. QED BY <1>1, <2>1, <2>3 DEF RecordTypes
<1>3. CASE KlineGap
  <2>1. /\ klines' = <<>> /\ UNCHANGED <<last, candles, forming, subs>>
        /\ unframed' = unframed \cup {klines[k].c : k \in DOMAIN klines}
    BY <1>3 DEF KlineGap, core, window, bounds
  <2>2. unframed' \subseteq Candles
    BY <1>1, <2>1, LineTypes DEF RecordTypes
  <2>3. <<>> \in Seq(Klines)
    OBVIOUS
  <2>4. QED BY <1>1, <2>1, <2>2, <2>3 DEF RecordTypes
<1>4. CASE ProcessKline
  <2> DEFINE k == Head(klines)
  <2>1. /\ klines # <<>> /\ klines' = Tail(klines) /\ last' = [c |-> k.c, vol |-> k.vol]
        /\ UNCHANGED <<unframed, candles, forming, subs>>
    BY <1>4 DEF ProcessKline, window, bounds
  <2>2. k.c \in Candles /\ k.vol \in 0..MaxTrades
    BY <1>4, NodeTakesKline
  <2>3. klines' \in Seq(Klines)
    BY <1>1, <2>1, TailParts DEF RecordTypes
  <2>4. last' \in Records
    BY <2>1, <2>2 DEF Records
  <2>5. QED BY <1>1, <2>1, <2>3, <2>4 DEF RecordTypes
<1>5. CASE Catchup
  <2>1. /\ subs < MaxSubs /\ subs' = subs + 1
        /\ UNCHANGED <<klines, unframed, last, candles, forming>>
    BY <1>5 DEF Catchup, sockets, core, window
  <2>2. subs' \in 0..MaxSubs
    BY <1>1, <2>1, CandleFramingAssumption DEF RecordTypes
  <2>3. QED BY <1>1, <2>1, <2>2 DEF RecordTypes
<1>6. CASE Apply
  <2> DEFINE f == Head(queue)
  <2>1. /\ queue # <<>> /\ UNCHANGED <<klines, unframed, last, subs>>
        /\ \/ f.kind = "tick" /\ candles' = [candles EXCEPT ![f.candle.c] = f.candle.vol]
              /\ forming' = f.candle.c
           \/ UNCHANGED <<candles, forming>>
    BY <1>6 DEF Apply, ApplyTick, ApplyStart, sockets, core, bounds
  <2>2. f \in Frames
    BY <2>1, LineTypes, TailParts
  <2>3. f.kind = "tick" => f.candle.c \in Candles /\ f.candle.vol \in 0..MaxTrades
    BY <2>2, FrameParts
  <2> HIDE DEF f
  <2>4. /\ candles' \in [Candles -> {None} \cup 0..MaxTrades]
        /\ forming' \in {None} \cup Candles
    BY <1>1, <2>1, <2>3 DEF RecordTypes
  <2>5. QED BY <1>1, <2>1, <2>4 DEF RecordTypes
<1>7. CASE Trade \/ TapeGap \/ (\E full \in BOOLEAN : ProcessAggtrade(full)) \/ Liquidation
           \/ ApplyOi \/ LiveEdge \/ UNCHANGED vars
  <2>1. UNCHANGED <<klines, unframed, last, candles, forming, subs>>
    BY <1>7 DEF Trade, TapeGap, ProcessAggtrade, Liquidation, ApplyOi, LiveEdge, vars, sockets,
                core, window, bounds
  <2>2. QED BY <1>1, <2>1 DEF RecordTypes
<1>8. QED BY <1>2, <1>3, <1>4, <1>5, <1>6, <1>7 DEF Next

(* The counts of forced orders.                                            *)
CountTypes ==
    /\ liqs \in 0..MaxLiqs /\ early \in 0..MaxLiqs /\ early =< liqs
    /\ bucketLiqs \in [active : 0..MaxLiqs, closed : 0..MaxLiqs]

LEMMA CountsNext ==
  ASSUME Types, ForcedOrdersCountedOnce, [Next]_vars
  PROVE  CountTypes'
<1>1. CountTypes
  BY DEF Types, TypeOK, CountsAgree, CountTypes
<1>2. bucketLiqs.active + bucketLiqs.closed = liqs
  BY DEF ForcedOrdersCountedOnce
<1>3. CASE Liquidation
  <2>1. /\ liqs < MaxLiqs /\ liqs' = liqs + 1 /\ (early' = early \/ early' = early + 1)
        /\ bucketLiqs' = [bucketLiqs EXCEPT !.active = @ + 1]
    BY <1>3 DEF Liquidation, BucketAfterLiq
  <2>2. liqs' \in 0..MaxLiqs /\ early' \in 0..MaxLiqs /\ early' =< liqs'
    BY <1>1, <2>1, Constants DEF CountTypes
  <2>3. bucketLiqs.active + 1 \in 0..MaxLiqs
    BY <1>2, <2>1, LiqTypes, Constants
  <2>4. bucketLiqs' \in [active : 0..MaxLiqs, closed : 0..MaxLiqs]
    BY <1>1, <2>1, <2>3 DEF CountTypes
  <2>5. QED BY <2>2, <2>4 DEF CountTypes
<1>4. CASE \E full \in BOOLEAN : ProcessAggtrade(full)
  <2>1. PICK full \in BOOLEAN : ProcessAggtrade(full)
    BY <1>4
  <2>2. bucketLiqs' = BucketAfterTrade(full) /\ UNCHANGED <<liqs, early>>
    BY <2>1 DEF ProcessAggtrade
  <2>3. bucketLiqs.closed + bucketLiqs.active \in 0..MaxLiqs /\ 0 \in 0..MaxLiqs
    BY <1>1, <1>2, LiqTypes, Constants
  <2>4. BucketAfterTrade(full) \in [active : 0..MaxLiqs, closed : 0..MaxLiqs]
    BY <1>1, <2>3 DEF BucketAfterTrade, CountTypes
  <2>5. QED BY <1>1, <2>2, <2>4 DEF CountTypes
<1>5. CASE Trade \/ Heartbeat \/ NextCandle \/ TapeGap \/ KlineGap \/ ProcessKline \/ ApplyOi
           \/ LiveEdge \/ Catchup \/ Apply \/ UNCHANGED vars
  <2>1. UNCHANGED <<liqs, early, bucketLiqs>>
    BY <1>5 DEF Trade, Heartbeat, NextCandle, TapeGap, KlineGap, ProcessKline, ApplyOi, LiveEdge,
                Catchup, Apply, vars, core
  <2>2. QED BY <1>1, <2>1 DEF CountTypes
<1>6. QED BY <1>3, <1>4, <1>5 DEF Next
-----------------------------------------------------------------------------
(* The invariant.                                                          *)

LEMMA Initially == Init => IInv
<1> SUFFICES ASSUME Init PROVE IInv
  OBVIOUS
<1>1. TypeOK
  <2>1. 1 \in Candles /\ 0 \in 0..MaxTrades /\ 0 \in 0..MaxLiqs /\ 0 \in 0..MaxPolls
        /\ 0 \in 0..MaxSubs
    BY CandleFramingAssumption DEF Candles
  <2>2. /\ <<>> \in Seq(Candles) /\ <<>> \in Seq([c : Candles, vol : 0..MaxTrades, x : BOOLEAN])
    OBVIOUS
  <2>3. QED BY <2>1, <2>2 DEF Init, TypeOK
<1>2. FrameTypes /\ CountsAgree
  BY Constants DEF Init, FrameTypes, CountsAgree
<1>3. LevelsAreTheTape
  <2>1. ASSUME NEW c \in Candles PROVE Cardinality(Places(tape, c)) = 0
    BY FS_EmptySet DEF Init, Places
  <2>2. QED BY <2>1, LevelsByPlaces DEF Init, LevelsOf
<1>4. ForcedOrdersCountedOnce
  <2> DEFINE zero == [n \in 0..MaxCandle |-> 0]
  <2>1. zero \in [0..MaxCandle -> 0..liqs] /\ MaxCandle \in 0..MaxCandle /\ 0 \in 0..MaxCandle
    BY Constants DEF Init
  <2>2. \A c \in Candles : c \in 0..MaxCandle /\ c - 1 \in 0..MaxCandle
    BY Constants
  <2>3. RunningTotal(zero)
    BY <2>1, <2>2 DEF Init, RunningTotal, FramedLiqs
  <2>4. liqs = early + zero[MaxCandle]
    BY <2>1 DEF Init
  <2> HIDE DEF zero
  <2>5. QED BY <2>1, <2>3, <2>4 DEF Init, ForcedOrdersCountedOnce
<1>5. LineIInv
  BY DEF Init, LineIInv, WindowIsBehind, QueueIsInOrder, KlinesAreInOrder, NothingInvented,
         FinalIsComing, Candles
<1>6. QED BY <1>1, <1>2, <1>3, <1>4, <1>5 DEF IInv, Types

LEMMA Inductive == IInv /\ [Next]_vars => IInv'
<1> SUFFICES ASSUME IInv, [Next]_vars PROVE IInv'
  OBVIOUS
<1>1. Types /\ LevelsAreTheTape /\ ForcedOrdersCountedOnce /\ LineIInv
  BY DEF IInv
<1>2. LevelsAreTheTape' /\ ForcedOrdersCountedOnce'
  BY <1>1, LevelsNext, LiqsNext
<1>3. LineIInv' /\ queue' \in Seq(Frames)
  BY <1>1, LineNext
<1>4. ExchangeTypes' /\ NodesTypes' /\ RecordTypes' /\ CountTypes'
  BY <1>1, ExchangeNext, NodesNext, RecordsNext, CountsNext
<1>5. TypeOK'
  BY <1>4 DEF ExchangeTypes, NodesTypes, RecordTypes, CountTypes, TypeOK, Klines
<1>6. FrameTypes' /\ CountsAgree'
  BY <1>3, <1>4 DEF ExchangeTypes, NodesTypes, CountTypes, FrameTypes, CountsAgree
<1>7. QED BY <1>2, <1>3, <1>5, <1>6 DEF IInv, Types

LEMMA InvariantHolds == Spec => []IInv
BY Initially, Inductive, PTL DEF Spec

(* Whatever order the two sockets deliver in and whatever they lose, what  *)
(* arrives is counted where it belongs, once: trades in the levels of      *)
(* their own candle, forced orders in one candle and one bucket            *)
(* (_process_aggtrade, liquidations_stream).                               *)
THEOREM TapeHolds == Spec => []TapeIsCountedOnce
<1>1. IInv => TapeIsCountedOnce
  BY DEF IInv, Types, TapeIsCountedOnce
<1>2. QED BY <1>1, InvariantHolds, PTL

(* A completed candle in the window is final: neither the live edge nor a  *)
(* catch-up brings back an OHLC from before its close.                     *)
THEOREM CompletedHolds == Spec => []CompletedCandlesAreFinal
<1>1. ASSUME IInv, NEW c \in Candles, forming # None, c < forming, candles[c] # None,
             c \notin unframed
      PROVE  candles[c] = traded[c]
  <2>1. Types /\ WindowIsBehind /\ QueueIsInOrder /\ KlinesAreInOrder /\ FinalIsComing
    BY <1>1 DEF IInv, LineIInv
  <2>2. /\ forming \in Candles /\ candles[forming] # None /\ last # None
        /\ NotAfter(Kept(forming), last) /\ last.c =< now
    BY <1>1, <2>1, LineTypes DEF WindowIsBehind, KlinesAreInOrder
  <2>3. /\ c \in Nat /\ forming \in Nat /\ now \in Nat /\ last.c \in Nat /\ last.vol \in Nat
        /\ candles[forming] \in Nat
    BY <2>1, <2>2, LineTypes, Constants
  <2>4. forming =< last.c
    BY <2>2, <2>3 DEF NotAfter, Kept
  <2>5. c < now
    BY <1>1, <2>2, <2>3, <2>4
  <2>6. ASSUME NEW i \in DOMAIN queue, queue[i].kind = "tick" PROVE queue[i].candle.c # c
    <3>1. NotAfter(Kept(forming), queue[i].candle)
      BY <2>1, <2>2, <2>6 DEF WindowIsBehind
    <3>2. queue[i].candle.c \in Nat
      BY <2>1, <2>6, LineTypes
    <3>3. QED BY <1>1, <2>3, <3>1, <3>2 DEF NotAfter, Kept
  <2>7. ASSUME NEW i \in DOMAIN klines PROVE klines[i].c # c
    <3>1. NotAfter(last, klines[i])
      BY <2>1, <2>2 DEF KlinesAreInOrder
    <3>2. klines[i].c \in Nat
      BY <2>1, LineTypes
    <3>3. QED BY <1>1, <2>3, <2>4, <3>1, <3>2 DEF NotAfter
  <2>8. QED BY <1>1, <2>1, <2>5, <2>6, <2>7 DEF FinalIsComing
<1>2. IInv => CompletedCandlesAreFinal
  BY <1>1 DEF CompletedCandlesAreFinal
<1>3. QED BY <1>2, InvariantHolds, PTL
=============================================================================
