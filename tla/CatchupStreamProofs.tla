------------------------- MODULE CatchupStreamProofs -------------------------
(***************************************************************************)
(* Proofs about the catch-up stream, for any timeframes, cap, chunk size,  *)
(* queue size, closes, switches and broken connections.                    *)
(*                                                                         *)
(* First the types and the timeframe of the cache (TypesHold, CacheHolds), *)
(* then what the history is made of (HistoryHolds): the line of a          *)
(* timeframe, the moves a step makes on it, what each move keeps, which    *)
(* move each action makes, and what the line is once all has arrived.      *)
(***************************************************************************)
EXTENDS CatchupStream, Integers, FiniteSetTheorems, TLAPS

(* Buckets of one timeframe, and the frames and tasks that carry only      *)
(* their own timeframe's.                                                  *)
Own(t) == Seq({t} \X Nat)
OwnFrame == {f \in Frame : f.buckets \in Own(f.tf)}
CatchupFrame == {f \in OwnFrame : f.kind # "close"}
OwnTask == {k \in Task : k.rest \in Own(k.tf)}

(* Everything has its type, and whatever carries buckets of a timeframe    *)
(* carries no other's.                                                     *)
DaemonTypes ==
    /\ closed \in [Tfs -> Nat]
    /\ sub \in Tfs \cup {None}
    /\ tasks \in Seq(OwnTask)
    /\ closes \in 0..MaxCloses

WireTypes ==
    /\ queue \in Seq(OwnFrame)
    /\ Len(queue) <= QueueMax
    /\ control \in Seq(Tfs)
    /\ outgoing \in Seq(Tfs)
    /\ link \in BOOLEAN

ClientTypes ==
    /\ tf \in Tfs
    /\ history \in Seq(Bucket)
    /\ loading \in BOOLEAN
    /\ held \in CatchupFrame \cup {None}
    /\ guiLoads \in Tfs \cup {None}
    /\ workerLoads \in Tfs \cup {None}

CountTypes ==
    /\ lost \in BOOLEAN /\ doubled \in BOOLEAN /\ marred \subseteq Tfs
    /\ live \in Nat
    /\ switches \in 0..MaxSwitches
    /\ downs \in 0..MaxDowns

Types == DaemonTypes /\ WireTypes /\ ClientTypes /\ CountTypes

(* The thread that waits for a baseline waits for the timeframe shown.     *)
LoadsAgree == (guiLoads # None => guiLoads = tf) /\ (workerLoads # None => workerLoads = tf)

(* The last set_tf on its way, or else the one handled, asks for the       *)
(* timeframe shown.                                                        *)
RequestAgrees ==
    link => IF outgoing # <<>> THEN outgoing[Len(outgoing)] = tf
            ELSE IF control # <<>> THEN control[Len(control)] = tf
            ELSE sub = tf

CacheIInv == Types /\ history \in Own(tf) /\ LoadsAgree /\ RequestAgrees

-----------------------------------------------------------------------------
(* The sequences. *)

(* A suffix of at most Cap elements: its length, its elements, its type.   *)
LEMMA LastCapFacts ==
  ASSUME NEW S, NEW s \in Seq(S)
  PROVE  /\ LastCap(s) \in Seq(S)
         /\ Len(LastCap(s)) = Smaller(Cap, Len(s))
         /\ \A i \in 1..Len(LastCap(s)) :
               /\ i + (Len(s) - Len(LastCap(s))) \in 1..Len(s)
               /\ LastCap(s)[i] = s[i + (Len(s) - Len(LastCap(s)))]
<1> DEFINE n == Smaller(Cap, Len(s))
<1>1. n \in Nat /\ n <= Len(s) /\ Len(s) \in Nat /\ n <= Cap
  BY CatchupAssumption DEF Smaller
<1>2. LastCap(s) = SubSeq(s, Len(s) - n + 1, Len(s))
  BY DEF LastCap
<1> HIDE DEF n
<1>3. Len(s) - n + 1 \in 1..(Len(s) + 1)
  BY <1>1
<1>4. LastCap(s) \in Seq(S) /\ Len(LastCap(s)) = n
  BY <1>1, <1>2, <1>3
<1>5. ASSUME NEW i \in 1..n
      PROVE  i + (Len(s) - n) \in 1..Len(s) /\ LastCap(s)[i] = s[i + (Len(s) - n)]
  <2>1. i + (Len(s) - n) \in 1..Len(s)
    BY <1>1
  <2>2. LastCap(s)[i] = s[(Len(s) - n + 1) + i - 1]
    BY <1>1, <1>2, <1>3
  <2>3. (Len(s) - n + 1) + i - 1 = i + (Len(s) - n)
    BY <1>1
  <2>4. QED BY <2>1, <2>2, <2>3
<1>6. QED BY <1>4, <1>5 DEF n

(* What the daemon keeps of a timeframe is its own.                        *)
LEMMA RetainedIsOwn ==
  ASSUME closed \in [Tfs -> Nat], NEW t \in Tfs
  PROVE  Retained(t) \in Own(t)
<1>1. [n \in 1..closed[t] |-> <<t, n>>] \in Seq({t} \X Nat)
  BY SMT
<1>2. QED BY <1>1, LastCapFacts DEF Retained, Own

(* Chunks are cut from what is left.                                       *)
LEMMA ChunksAreOwn ==
  ASSUME NEW t, NEW s \in Own(t)
  PROVE  FirstChunk(s) \in Own(t) /\ Rest(s) \in Own(t)
<1>1. s \in Seq({t} \X Nat) /\ Len(s) \in Nat
  BY DEF Own
<1>2. ChunkSize \in Nat /\ Smaller(ChunkSize, Len(s)) \in 0..Len(s)
  BY <1>1, CatchupAssumption DEF Smaller
<1>3. SubSeq(s, 1, Smaller(ChunkSize, Len(s))) \in Seq({t} \X Nat)
  BY <1>1, <1>2
<1>4. SubSeq(s, ChunkSize + 1, Len(s)) \in Seq({t} \X Nat)
  BY <1>1, <1>2
<1>5. QED BY <1>3, <1>4 DEF FirstChunk, Rest, Own

(* The queue takes a prefix of the frames.                                 *)
LEMMA QueuedTypes ==
  ASSUME queue \in Seq(OwnFrame), Len(queue) <= QueueMax, NEW frames \in Seq(OwnFrame)
  PROVE  Queued(frames) \in Seq(OwnFrame) /\ Len(Queued(frames)) <= QueueMax
<1>1. /\ QueueMax \in Nat /\ Len(queue) \in Nat /\ Len(frames) \in Nat
      /\ Room \in Nat /\ Len(queue) + Room = QueueMax
  BY CatchupAssumption DEF Room
<1> DEFINE n == Smaller(Room, Len(frames))
<1>2. n \in 0..Len(frames) /\ n <= Room
  BY <1>1 DEF Smaller
<1> HIDE DEF n
<1>3. SubSeq(frames, 1, n) \in Seq(OwnFrame) /\ Len(SubSeq(frames, 1, n)) = n
  BY <1>2
<1>4. queue \o SubSeq(frames, 1, n) \in Seq(OwnFrame)
      /\ Len(queue \o SubSeq(frames, 1, n)) = Len(queue) + n
  BY <1>3
<1>5. Len(queue) + n <= QueueMax
  BY <1>1, <1>2
<1>6. QED BY <1>4, <1>5 DEF Queued, n

(* Own buckets are buckets.                                                *)
LEMMA OwnIsBuckets ==
  ASSUME NEW t \in Tfs
  PROVE  Own(t) \subseteq Seq(Bucket)
<1>1. {t} \X Nat \subseteq Bucket
  BY DEF Bucket
<1>2. QED BY <1>1 DEF Own

(* The frames the daemon makes carry their own timeframe's buckets.        *)
LEMMA FrameIsOwn ==
  ASSUME NEW t \in Tfs, NEW s \in Own(t), NEW kind \in {"start", "chunk", "end", "close"}
  PROVE  F(kind, t, s) \in OwnFrame
BY OwnIsBuckets DEF OwnFrame, Frame, F

LEMMA EmptyIsOwn == \A t : <<>> \in Own(t)
BY DEF Own

(* The frames of a close, of the first step of a task and of a later one.  *)
CloseFrames(t, k) == <<F("close", t, [i \in 1..k |-> <<t, closed[t] + i>>])>>
BeginFrames(t) ==
    IF Retained(t) = <<>>
    THEN <<F("start", t, <<>>), F("end", t, <<>>)>>
    ELSE <<F("start", t, <<>>), F("chunk", t, FirstChunk(Retained(t)))>>
ContinueFrames(t, rest) ==
    IF rest = <<>> THEN <<F("end", t, <<>>)>> ELSE <<F("chunk", t, FirstChunk(rest))>>

LEMMA FramesAreOwn ==
  ASSUME DaemonTypes, NEW t \in Tfs
  PROVE  /\ \A k \in Nat : CloseFrames(t, k) \in Seq(OwnFrame)
         /\ BeginFrames(t) \in Seq(OwnFrame)
         /\ \A rest \in Own(t) : ContinueFrames(t, rest) \in Seq(OwnFrame)
<1>1. ASSUME NEW k \in Nat PROVE CloseFrames(t, k) \in Seq(OwnFrame)
  <2>1. closed[t] \in Nat
    BY DEF DaemonTypes
  <2>2. [i \in 1..k |-> <<t, closed[t] + i>>] \in Own(t)
    BY <2>1 DEF Own
  <2>3. F("close", t, [i \in 1..k |-> <<t, closed[t] + i>>]) \in OwnFrame
    BY <2>2, FrameIsOwn
  <2>4. QED BY <2>3 DEF CloseFrames
<1>2. BeginFrames(t) \in Seq(OwnFrame)
  <2>1. Retained(t) \in Own(t)
    BY RetainedIsOwn DEF DaemonTypes
  <2>2. F("start", t, <<>>) \in OwnFrame /\ F("end", t, <<>>) \in OwnFrame
    BY FrameIsOwn, EmptyIsOwn
  <2>3. F("chunk", t, FirstChunk(Retained(t))) \in OwnFrame
    BY <2>1, FrameIsOwn, ChunksAreOwn
  <2>4. QED BY <2>2, <2>3 DEF BeginFrames
<1>3. ASSUME NEW rest \in Own(t) PROVE ContinueFrames(t, rest) \in Seq(OwnFrame)
  <2>1. F("end", t, <<>>) \in OwnFrame
    BY FrameIsOwn, EmptyIsOwn
  <2>2. F("chunk", t, FirstChunk(rest)) \in OwnFrame
    BY FrameIsOwn, ChunksAreOwn
  <2>3. QED BY <2>1, <2>2 DEF ContinueFrames
<1>4. QED BY <1>1, <1>2, <1>3

(* The steps that send, in terms of the frames they send.                  *)
LEMMA CloseSends ==
  ASSUME NEW t, NEW k, CloseBuckets(t, k), link, sub = t
  PROVE  queue' = Queued(CloseFrames(t, k)) /\ marred' = Marred(t, CloseFrames(t, k))
         /\ lost' = (lost \/ Overflows(CloseFrames(t, k)))
BY DEF CloseBuckets, CloseFrames

LEMMA BeginSends ==
  ASSUME BeginCatchup, NEW t, t = Head(tasks).tf
  PROVE  /\ queue' = Queued(BeginFrames(t)) /\ marred' = Marred(t, BeginFrames(t))
         /\ lost' = Overflows(BeginFrames(t)) /\ live' = 0
         /\ tasks' = IF Retained(t) = <<>> THEN Tail(tasks)
                     ELSE Append(Tail(tasks), [tf |-> t, started |-> TRUE, rest |-> Rest(Retained(t))])
BY DEF BeginCatchup, BeginFrames

LEMMA ContinueSends ==
  ASSUME ContinueCatchup, NEW t, t = Head(tasks).tf
  PROVE  /\ queue' = Queued(ContinueFrames(t, Head(tasks).rest))
         /\ marred' = Marred(t, ContinueFrames(t, Head(tasks).rest))
         /\ lost' = (lost \/ Overflows(ContinueFrames(t, Head(tasks).rest)))
         /\ tasks' = IF Head(tasks).rest = <<>> THEN Tail(tasks)
                     ELSE Append(Tail(tasks), [Head(tasks) EXCEPT !.rest = Rest(Head(tasks).rest)])
BY DEF ContinueCatchup, ContinueFrames

(* The first task.                                                         *)
LEMMA FirstTask ==
  ASSUME DaemonTypes, tasks # <<>>
  PROVE  /\ Head(tasks) \in OwnTask /\ Tail(tasks) \in Seq(OwnTask)
         /\ Head(tasks).tf \in Tfs /\ Head(tasks).started \in BOOLEAN
         /\ Head(tasks).rest \in Own(Head(tasks).tf)
<1>1. tasks \in Seq(OwnTask)
  BY DEF DaemonTypes
<1>2. Head(tasks) \in OwnTask /\ Tail(tasks) \in Seq(OwnTask)
  BY <1>1
<1>3. QED BY <1>2 DEF OwnTask, Task

LEMMA TaskIsOwn ==
  ASSUME NEW t \in Tfs, NEW b \in BOOLEAN, NEW s \in Own(t)
  PROVE  [tf |-> t, started |-> b, rest |-> s] \in OwnTask
BY OwnIsBuckets DEF OwnTask, Task

-----------------------------------------------------------------------------
(* The types. *)

LEMMA InitTypes == Init => Types
<1> SUFFICES ASSUME Init PROVE Types
  OBVIOUS
<1>0. /\ FirstTf \in Tfs /\ StartCounts \subseteq Nat /\ QueueMax \in Nat
      /\ 0 \in 0..MaxCloses /\ 0 \in 0..MaxSwitches /\ 0 \in 0..MaxDowns
  BY CatchupAssumption
<1>1. closed \in [Tfs -> Nat] /\ closes \in 0..MaxCloses
  BY <1>0 DEF Init
<1>2. sub \in Tfs \cup {None} /\ held \in CatchupFrame \cup {None}
      /\ guiLoads \in Tfs \cup {None} /\ workerLoads \in Tfs \cup {None}
  BY DEF Init
<1>3. tasks \in Seq(OwnTask) /\ queue \in Seq(OwnFrame) /\ Len(queue) <= QueueMax
  BY <1>0 DEF Init
<1>4. control \in Seq(Tfs) /\ outgoing \in Seq(Tfs) /\ history \in Seq(Bucket)
  BY DEF Init
<1>5. tf \in Tfs /\ switches \in 0..MaxSwitches /\ downs \in 0..MaxDowns
  BY <1>0 DEF Init
<1>6. link \in BOOLEAN /\ loading \in BOOLEAN /\ lost \in BOOLEAN /\ doubled \in BOOLEAN
  BY DEF Init
<1>7. marred \subseteq Tfs /\ live \in Nat
  BY DEF Init
<1>8. QED
  BY <1>1, <1>2, <1>3, <1>4, <1>5, <1>6, <1>7
     DEF Types, DaemonTypes, WireTypes, ClientTypes, CountTypes

LEMMA DaemonKeepsTypes ==
  ASSUME Types,
         (\E t \in Tfs, k \in 1..2 : CloseBuckets(t, k)) \/ HandleControl
             \/ BeginCatchup \/ ContinueCatchup
  PROVE  Types'
<1>0. DaemonTypes /\ WireTypes /\ ClientTypes /\ CountTypes
  BY DEF Types
<1> USE DEF daemon, client, loads, ghosts
<1>m. \A t \in Tfs : \A frames : Marred(t, frames) \subseteq Tfs
  BY <1>0 DEF Marred, CountTypes
<1>1. ASSUME NEW t \in Tfs, NEW k \in 1..2, CloseBuckets(t, k) PROVE Types'
  <2> USE <1>1
  <2>1. DaemonTypes'
    BY <1>0, CatchupAssumption DEF CloseBuckets, DaemonTypes
  <2>2. WireTypes' /\ CountTypes'
    <3>1. CASE link /\ sub = t
      <4>1. Queued(CloseFrames(t, k)) \in Seq(OwnFrame) /\ Len(Queued(CloseFrames(t, k))) <= QueueMax
        <5>1. k \in Nat
          OBVIOUS
        <5>2. CloseFrames(t, k) \in Seq(OwnFrame)
          BY <1>0, <5>1, FramesAreOwn
        <5>3. QED BY <1>0, <5>2, QueuedTypes DEF WireTypes
      <4>2. WireTypes'
        BY <1>0, <3>1, <4>1, CloseSends DEF WireTypes, CloseBuckets
      <4>3. live' \in Nat
        BY <1>0, <3>1 DEF CountTypes, CloseBuckets
      <4>4. marred' \subseteq Tfs /\ lost' \in BOOLEAN
        BY <1>0, <1>m, <3>1, CloseSends DEF CountTypes, Overflows
      <4>5. QED BY <1>0, <4>2, <4>3, <4>4 DEF CountTypes, CloseBuckets
    <3>2. CASE ~(link /\ sub = t)
      BY <1>0, <3>2 DEF CloseBuckets, WireTypes, CountTypes
    <3>3. QED BY <3>1, <3>2
  <2>3. ClientTypes'
    BY <1>0 DEF CloseBuckets, ClientTypes
  <2>4. QED BY <2>1, <2>2, <2>3 DEF Types
<1>2. CASE HandleControl
  <2> USE <1>2 DEF HandleControl
  <2>1. Head(control) \in Tfs /\ Tail(control) \in Seq(Tfs)
    BY <1>0 DEF WireTypes
  <2>2. [tf |-> Head(control), started |-> FALSE, rest |-> <<>>] \in OwnTask
    BY <2>1, TaskIsOwn, EmptyIsOwn
  <2>3. DaemonTypes'
    BY <1>0, <2>1, <2>2 DEF DaemonTypes
  <2>4. WireTypes' /\ ClientTypes'
    BY <1>0, <2>1 DEF WireTypes, ClientTypes
  <2>5. CountTypes'
    BY <1>0, <2>1 DEF CountTypes
  <2>6. QED BY <2>3, <2>4, <2>5 DEF Types
<1>3. CASE BeginCatchup
  <2> DEFINE t == Head(tasks).tf
  <2>1. tasks # <<>> /\ t \in Tfs /\ Tail(tasks) \in Seq(OwnTask)
    BY <1>0, <1>3, FirstTask DEF BeginCatchup
  <2>2. Retained(t) \in Own(t)
    BY <1>0, <2>1, RetainedIsOwn DEF DaemonTypes
  <2>3. [tf |-> t, started |-> TRUE, rest |-> Rest(Retained(t))] \in OwnTask
    BY <2>1, <2>2, ChunksAreOwn, TaskIsOwn
  <2> HIDE DEF t
  <2>4. /\ queue' = Queued(BeginFrames(t)) /\ marred' = Marred(t, BeginFrames(t))
        /\ lost' = Overflows(BeginFrames(t)) /\ live' = 0
        /\ tasks' = IF Retained(t) = <<>> THEN Tail(tasks)
                    ELSE Append(Tail(tasks), [tf |-> t, started |-> TRUE, rest |-> Rest(Retained(t))])
    BY <1>3, BeginSends DEF t
  <2>5. tasks' \in Seq(OwnTask)
    BY <2>1, <2>3, <2>4
  <2>6. Queued(BeginFrames(t)) \in Seq(OwnFrame) /\ Len(Queued(BeginFrames(t))) <= QueueMax
    BY <1>0, <2>1, FramesAreOwn, QueuedTypes DEF WireTypes
  <2>7. DaemonTypes'
    BY <1>0, <1>3, <2>5 DEF DaemonTypes, BeginCatchup
  <2>8. WireTypes' /\ ClientTypes'
    BY <1>0, <1>3, <2>4, <2>6 DEF WireTypes, ClientTypes, BeginCatchup
  <2>9. CountTypes'
    BY <1>0, <1>3, <1>m, <2>1, <2>4 DEF CountTypes, BeginCatchup, Overflows
  <2>10. QED BY <2>7, <2>8, <2>9 DEF Types
<1>4. CASE ContinueCatchup
  <2> DEFINE t == Head(tasks).tf
             rest == Head(tasks).rest
  <2>1. /\ tasks # <<>> /\ t \in Tfs /\ Tail(tasks) \in Seq(OwnTask)
        /\ Head(tasks) \in OwnTask /\ rest \in Own(t)
    BY <1>0, <1>4, FirstTask DEF ContinueCatchup
  <2>2. Rest(rest) \in Own(t)
    BY <2>1, ChunksAreOwn
  <2>3. [Head(tasks) EXCEPT !.rest = Rest(rest)] \in OwnTask
    BY <2>1, <2>2, OwnIsBuckets DEF OwnTask, Task
  <2> HIDE DEF t, rest
  <2>4. /\ queue' = Queued(ContinueFrames(t, rest))
        /\ marred' = Marred(t, ContinueFrames(t, rest))
        /\ lost' = (lost \/ Overflows(ContinueFrames(t, rest)))
        /\ tasks' = IF rest = <<>> THEN Tail(tasks)
                    ELSE Append(Tail(tasks), [Head(tasks) EXCEPT !.rest = Rest(rest)])
    BY <1>4, ContinueSends DEF t, rest
  <2>5. tasks' \in Seq(OwnTask)
    BY <2>1, <2>3, <2>4
  <2>6. Queued(ContinueFrames(t, rest)) \in Seq(OwnFrame)
        /\ Len(Queued(ContinueFrames(t, rest))) <= QueueMax
    BY <1>0, <2>1, FramesAreOwn, QueuedTypes DEF WireTypes
  <2>7. DaemonTypes'
    BY <1>0, <1>4, <2>5 DEF DaemonTypes, ContinueCatchup
  <2>8. WireTypes' /\ ClientTypes'
    BY <1>0, <1>4, <2>4, <2>6 DEF WireTypes, ClientTypes, ContinueCatchup
  <2>9. CountTypes'
    BY <1>0, <1>4, <1>m, <2>1, <2>4 DEF CountTypes, ContinueCatchup, Overflows
  <2>10. QED BY <2>7, <2>8, <2>9 DEF Types
<1>5. QED BY <1>1, <1>2, <1>3, <1>4

(* The first frame of the queue.                                           *)
LEMMA FirstFrame ==
  ASSUME WireTypes, queue # <<>>
  PROVE  /\ Head(queue) \in OwnFrame /\ Head(queue) = queue[1]
         /\ Tail(queue) \in Seq(OwnFrame) /\ Len(Tail(queue)) <= QueueMax
<1>1. queue \in Seq(OwnFrame) /\ Len(queue) <= QueueMax /\ QueueMax \in Nat
  BY CatchupAssumption DEF WireTypes
<1>2. Head(queue) \in OwnFrame /\ Tail(queue) \in Seq(OwnFrame) /\ Head(queue) = queue[1]
  BY <1>1
<1>3. Len(Tail(queue)) = Len(queue) - 1 /\ Len(queue) \in Nat
  BY <1>1
<1>4. QED BY <1>1, <1>2, <1>3

LEMMA OwnFrameParts ==
  ASSUME NEW f \in OwnFrame
  PROVE  /\ f.tf \in Tfs /\ f.buckets \in Own(f.tf) /\ f.buckets \in Seq(Bucket)
         /\ f.kind \in {"start", "chunk", "end", "close"}
BY DEF OwnFrame, Frame

(* What a frame makes of the history is of the timeframe it was of, and of *)
(* the frame's.                                                            *)
LEMMA HistoryGrows ==
  ASSUME NEW S, NEW h \in Seq(S), NEW b \in Seq(S)
  PROVE  LastCap(h \o b) \in Seq(S) /\ (h \o b) \in Seq(S) /\ LastCap(h) \in Seq(S)
<1>1. (h \o b) \in Seq(S)
  OBVIOUS
<1>2. QED BY <1>1, LastCapFacts

LEMMA TerminalKeepsTypes ==
  ASSUME Types,
         (\E t \in Tfs : SwitchTf(t)) \/ Connect \/ GuiBaseline \/ WorkerBaseline
             \/ Disconnect \/ Flush \/ Receive \/ ApplyHeld
  PROVE  Types'
<1>0. DaemonTypes /\ WireTypes /\ ClientTypes /\ CountTypes
  BY DEF Types
<1> USE DEF daemon, client, loads, ghosts
<1>1. ASSUME NEW t \in Tfs, SwitchTf(t) PROVE Types'
  <2> USE <1>1 DEF SwitchTf, Request, Announce
  <2>1. DaemonTypes'
    BY <1>0 DEF DaemonTypes
  <2>2. WireTypes'
    BY <1>0 DEF WireTypes
  <2>3. ClientTypes'
    BY <1>0 DEF ClientTypes
  <2>4. CountTypes'
    BY <1>0, CatchupAssumption DEF CountTypes
  <2>5. QED BY <2>1, <2>2, <2>3, <2>4 DEF Types
<1>2. CASE Connect
  <2> USE <1>2 DEF Connect, Request, Announce
  <2>1. DaemonTypes'
    BY <1>0 DEF DaemonTypes
  <2>2. WireTypes'
    <3>1. Append(outgoing, tf) \in Seq(Tfs)
      BY <1>0 DEF WireTypes, ClientTypes
    <3>2. <<>> \in Seq(OwnFrame) /\ Len(<<>>) <= QueueMax /\ <<>> \in Seq(Tfs)
      BY CatchupAssumption
    <3>3. queue' = <<>> /\ control' = <<>> /\ outgoing' = Append(outgoing, tf) /\ link' = TRUE
      OBVIOUS
    <3>4. QED BY <3>1, <3>2, <3>3 DEF WireTypes
  <2>3. ClientTypes'
    BY <1>0 DEF ClientTypes
  <2>4. CountTypes'
    BY <1>0 DEF CountTypes
  <2>5. QED BY <2>1, <2>2, <2>3, <2>4 DEF Types
<1>3. CASE GuiBaseline
  BY <1>0, <1>3 DEF GuiBaseline, Types, DaemonTypes, WireTypes, ClientTypes, CountTypes
<1>4. CASE WorkerBaseline
  BY <1>0, <1>4 DEF WorkerBaseline, Types, DaemonTypes, WireTypes, ClientTypes, CountTypes
<1>5. CASE Disconnect
  <2> USE <1>5 DEF Disconnect
  <2>1. DaemonTypes'
    BY <1>0 DEF DaemonTypes
  <2>2. WireTypes'
    <3>1. outgoing' \in Seq(Tfs)
      <4>1. outgoing' = outgoing \/ outgoing' = <<>>
        OBVIOUS
      <4>2. outgoing \in Seq(Tfs)
        BY <1>0 DEF WireTypes
      <4>3. <<>> \in Seq(Tfs)
        OBVIOUS
      <4>4. QED BY <4>1, <4>2, <4>3
    <3>2. <<>> \in Seq(OwnFrame) /\ Len(<<>>) <= QueueMax /\ <<>> \in Seq(Tfs)
      BY CatchupAssumption
    <3>3. queue' = <<>> /\ control' = <<>> /\ link' = FALSE
      OBVIOUS
    <3>4. QED BY <3>1, <3>2, <3>3 DEF WireTypes
  <2>3. ClientTypes'
    BY <1>0 DEF ClientTypes
  <2>4. CountTypes'
    BY <1>0, CatchupAssumption DEF CountTypes
  <2>5. QED BY <2>1, <2>2, <2>3, <2>4 DEF Types
<1>6. CASE Flush
  <2> USE <1>6 DEF Flush
  <2>1. DaemonTypes'
    BY <1>0 DEF DaemonTypes
  <2>2. WireTypes'
    BY <1>0 DEF WireTypes
  <2>3. ClientTypes' /\ CountTypes'
    BY <1>0 DEF ClientTypes, CountTypes
  <2>4. QED BY <2>1, <2>2, <2>3 DEF Types
<1>7. CASE Receive
  <2> USE <1>7 DEF Receive
  <2>1. /\ Head(queue) \in OwnFrame /\ Tail(queue) \in Seq(OwnFrame)
        /\ Len(Tail(queue)) <= QueueMax
    BY <1>0, FirstFrame
  <2>2. history' \in Seq(Bucket)
    BY <1>0, <2>1, OwnFrameParts, HistoryGrows DEF ClientTypes
  <2>3. held' \in CatchupFrame \cup {None}
    BY <1>0, <2>1 DEF ClientTypes, CatchupFrame
  <2>4. DaemonTypes' /\ WireTypes' /\ CountTypes'
    BY <1>0, <2>1 DEF DaemonTypes, WireTypes, CountTypes
  <2>5. ClientTypes'
    BY <1>0, <2>2, <2>3 DEF ClientTypes
  <2>6. QED BY <2>4, <2>5 DEF Types
<1>8. CASE ApplyHeld
  <2> USE <1>8 DEF ApplyHeld
  <2>1. held \in OwnFrame /\ held.kind # "close" /\ history \in Seq(Bucket)
    BY <1>0 DEF ClientTypes, CatchupFrame
  <2>2. held.buckets \in Seq(Bucket)
    BY <2>1, OwnFrameParts
  <2>3. (history \o held.buckets) \in Seq(Bucket) /\ LastCap(history) \in Seq(Bucket)
    BY <2>1, <2>2, HistoryGrows
  <2>4. held.kind \in {"start", "chunk", "end"}
    BY <2>1, OwnFrameParts
  <2>5. history' \in Seq(Bucket) /\ loading' \in BOOLEAN
    <3>1. loading \in BOOLEAN
      BY <1>0 DEF ClientTypes
    <3>2. CASE ~Wanted(held)
      BY <2>1, <3>1, <3>2
    <3>3. CASE Wanted(held) /\ held.kind = "start"
      BY <3>3 DEF ClearedHistory
    <3>4. CASE Wanted(held) /\ held.kind = "chunk"
      BY <2>3, <3>1, <3>4
    <3>5. CASE Wanted(held) /\ held.kind = "end"
      BY <2>3, <3>5 DEF Complete
    <3>6. QED BY <2>4, <3>2, <3>3, <3>4, <3>5
  <2>6. DaemonTypes' /\ WireTypes' /\ CountTypes'
    BY <1>0 DEF DaemonTypes, WireTypes, CountTypes
  <2>7. ClientTypes'
    BY <1>0, <2>5 DEF ClientTypes
  <2>8. QED BY <2>6, <2>7 DEF Types
<1>9. QED BY <1>1, <1>2, <1>3, <1>4, <1>5, <1>6, <1>7, <1>8

LEMMA NextTypes == Types /\ [Next]_vars => Types'
<1> SUFFICES ASSUME Types, [Next]_vars PROVE Types'
  OBVIOUS
<1>1. CASE UNCHANGED vars
  BY <1>1 DEF vars, daemon, client, loads, ghosts, Types, DaemonTypes, WireTypes,
              ClientTypes, CountTypes
<1>2. CASE Next
  BY <1>2, DaemonKeepsTypes, TerminalKeepsTypes DEF Next
<1>3. QED BY <1>1, <1>2

LEMMA TypesAreOK == Types => TypeOK
<1> SUFFICES ASSUME Types PROVE TypeOK
  OBVIOUS
<1>1. \A i \in DOMAIN tasks : tasks[i] \in Task
  BY DEF Types, DaemonTypes, OwnTask
<1>2. \A i \in DOMAIN queue : queue[i] \in Frame
  BY DEF Types, WireTypes, OwnFrame
<1>3. (\A i \in DOMAIN control : control[i] \in Tfs) /\ (\A i \in DOMAIN outgoing : outgoing[i] \in Tfs)
  BY DEF Types, WireTypes
<1>4. held \in Frame \cup {None}
  BY DEF Types, ClientTypes, CatchupFrame, OwnFrame
<1>5. QED
  BY <1>1, <1>2, <1>3, <1>4
     DEF TypeOK, Types, DaemonTypes, WireTypes, ClientTypes, CountTypes

(* Whatever overlaps, every variable keeps its type, and a frame or a task *)
(* never carries another timeframe's buckets than its own.                 *)
THEOREM TypesHold == Spec => []Types
  BY InitTypes, NextTypes, PTL DEF Spec

-----------------------------------------------------------------------------
(* The cache is of its timeframe, when the two threads are not in          *)
(* request_timeframe at once.                                              *)

LEMMA InitCacheIInv == Init => CacheIInv
BY InitTypes, EmptyIsOwn DEF Init, CacheIInv, LoadsAgree, RequestAgrees

(* The history stays of the timeframe shown: what is appended was looked   *)
(* at under the lock, and a switch clears it.                              *)
LEMMA HistoryStaysOwn ==
  ASSUME CacheIInv, Next
  PROVE  history' \in Own(tf')
<1>0. Types /\ history \in Own(tf) /\ LoadsAgree
  BY DEF CacheIInv
<1>h. WireTypes /\ ClientTypes
  BY <1>0 DEF Types
<1> USE DEF daemon, client, loads, ghosts
<1>1. CASE UNCHANGED <<history, tf>>
  BY <1>0, <1>1
<1>2. CASE history' = <<>>
  BY <1>2, EmptyIsOwn
<1>3. CASE Receive
  <2>1. Head(queue) \in OwnFrame /\ tf' = tf
    BY <1>3, <1>h, FirstFrame DEF Receive
  <2>2. CASE history' = history
    BY <1>0, <2>1, <2>2
  <2>3. CASE Head(queue).tf = tf /\ history' = LastCap(history \o Head(queue).buckets)
    <3>1. Head(queue).buckets \in Own(tf)
      BY <2>1, <2>3, OwnFrameParts
    <3>2. QED BY <1>0, <2>1, <2>3, <3>1, HistoryGrows DEF Own
  <2>4. QED BY <1>3, <2>2, <2>3 DEF Receive, Wanted
<1>4. CASE ApplyHeld
  <2>1. held \in OwnFrame /\ held.kind \in {"start", "chunk", "end"} /\ tf' = tf
    BY <1>h, <1>4, OwnFrameParts DEF ClientTypes, CatchupFrame, ApplyHeld
  <2>2. CASE ~Wanted(held)
    BY <1>0, <1>4, <2>1, <2>2 DEF ApplyHeld
  <2>3. CASE Wanted(held) /\ held.kind = "start"
    BY <1>4, <2>3, EmptyIsOwn DEF ApplyHeld, ClearedHistory
  <2>4. CASE Wanted(held) /\ held.kind = "chunk"
    <3>1. held.buckets \in Own(tf) /\ history' = history \o held.buckets
      BY <1>4, <2>1, <2>4, OwnFrameParts DEF ApplyHeld, Wanted
    <3>2. QED BY <1>0, <2>1, <3>1, HistoryGrows DEF Own
  <2>5. CASE Wanted(held) /\ held.kind = "end"
    <3>1. history' = LastCap(history)
      BY <1>4, <2>5 DEF ApplyHeld
    <3>2. QED BY <1>0, <2>1, <3>1, LastCapFacts DEF Own
  <2>6. QED BY <2>1, <2>2, <2>3, <2>4, <2>5
<1>5. CASE GuiBaseline \/ WorkerBaseline
  BY <1>0, <1>5 DEF GuiBaseline, WorkerBaseline, LoadsAgree
<1>6. CASE (\E t \in Tfs : SwitchTf(t)) \/ Connect
  BY <1>6, <1>2 DEF SwitchTf, Connect, Request
<1>7. CASE (\E t \in Tfs, k \in 1..2 : CloseBuckets(t, k)) \/ HandleControl
           \/ BeginCatchup \/ ContinueCatchup \/ Disconnect \/ Flush
  BY <1>7, <1>1 DEF CloseBuckets, HandleControl, BeginCatchup, ContinueCatchup, Disconnect, Flush
<1>8. QED BY <1>3, <1>4, <1>5, <1>6, <1>7 DEF Next

LEMMA LoadsKeepAgreeing ==
  ASSUME CacheIInv, Next, ~MayOverlap
  PROVE  LoadsAgree'
<1>0. LoadsAgree
  BY DEF CacheIInv
<1> USE DEF daemon, client, loads, ghosts
<1>1. CASE UNCHANGED <<tf, guiLoads, workerLoads>>
  BY <1>0, <1>1 DEF LoadsAgree
<1>2. CASE GuiBaseline \/ WorkerBaseline
  BY <1>0, <1>2 DEF GuiBaseline, WorkerBaseline, LoadsAgree
<1>3. CASE \E t \in Tfs : SwitchTf(t)
  BY <1>0, <1>3 DEF SwitchTf, Request, LoadsAgree
<1>4. CASE Connect
  BY <1>0, <1>4 DEF Connect, Request, LoadsAgree
<1>5. CASE (\E t \in Tfs, k \in 1..2 : CloseBuckets(t, k)) \/ HandleControl
           \/ BeginCatchup \/ ContinueCatchup \/ Disconnect \/ Flush \/ Receive \/ ApplyHeld
  BY <1>5, <1>1 DEF CloseBuckets, HandleControl, BeginCatchup, ContinueCatchup, Disconnect,
                    Flush, Receive, ApplyHeld
<1>6. QED BY <1>2, <1>3, <1>4, <1>5 DEF Next

(* The last request on its way is for the timeframe shown.                 *)
LEMMA RequestKeepsAgreeing ==
  ASSUME CacheIInv, Next
  PROVE  RequestAgrees'
<1>0. RequestAgrees /\ LoadsAgree
  BY DEF CacheIInv
<1>t. control \in Seq(Tfs) /\ outgoing \in Seq(Tfs) /\ tf \in Tfs
  BY DEF CacheIInv, Types, WireTypes, ClientTypes
<1> USE DEF daemon, client, loads, ghosts
<1>1. CASE UNCHANGED <<link, outgoing, control, sub, tf>>
  BY <1>0, <1>1 DEF RequestAgrees
<1>2. CASE GuiBaseline \/ WorkerBaseline
  BY <1>0, <1>1, <1>2 DEF GuiBaseline, WorkerBaseline, LoadsAgree
<1>3. ASSUME NEW t \in Tfs, outgoing' = Append(outgoing, t), tf' = t
      PROVE  RequestAgrees'
  <2>1. outgoing' # <<>> /\ outgoing'[Len(outgoing')] = t
    BY <1>t, <1>3
  <2>2. QED BY <1>3, <2>1 DEF RequestAgrees
<1>4. CASE (\E t \in Tfs : SwitchTf(t)) \/ Connect
  BY <1>t, <1>3, <1>4 DEF SwitchTf, Connect, Request, Announce
<1>5. CASE Disconnect
  BY <1>5 DEF Disconnect, RequestAgrees
<1>6. CASE Flush
  <2>1. /\ outgoing' = <<>> /\ control' = control \o outgoing /\ outgoing # <<>>
        /\ link /\ tf' = tf
    BY <1>6 DEF Flush, Receiving
  <2>2. control' # <<>> /\ control'[Len(control')] = outgoing[Len(outgoing)]
    BY <1>t, <2>1
  <2>3. QED BY <1>0, <2>1, <2>2 DEF RequestAgrees
<1>7. CASE HandleControl
  <2>1. /\ link /\ control # <<>> /\ sub' = Head(control) /\ control' = Tail(control)
        /\ outgoing' = outgoing /\ tf' = tf /\ link' = link
    BY <1>7 DEF HandleControl
  <2>2. CASE Len(control) = 1
    <3>1. control' = <<>> /\ sub' = control[Len(control)]
      BY <1>t, <2>1, <2>2
    <3>2. QED BY <1>0, <2>1, <3>1 DEF RequestAgrees
  <2>3. CASE Len(control) # 1
    <3>1. control' # <<>> /\ control'[Len(control')] = control[Len(control)]
      <4>1. Len(control) \in Nat /\ Len(control) > 1
        <5>1. Len(control) \in Nat /\ Len(control) # 0
          BY <1>t, <2>1
        <5>2. QED BY <5>1, <2>3
      <4>2. Tail(control) \in Seq(Tfs) /\ Len(Tail(control)) = Len(control) - 1
        BY <1>t, <2>1
      <4>3. Tail(control)[Len(control) - 1] = control[Len(control) - 1 + 1]
        BY <1>t, <2>1, <4>1, <4>2
      <4>4. Tail(control) # <<>>
        <5>1. \A n \in Nat : n > 1 => n - 1 >= 1 /\ n - 1 \in Nat
          OBVIOUS
        <5>2. Len(Tail(control)) >= 1
          BY <4>1, <4>2, <5>1
        <5>3. \A s \in Seq(Tfs) : Len(s) >= 1 => s # <<>>
          OBVIOUS
        <5>4. QED BY <4>2, <5>2, <5>3
      <4>5. Len(control) - 1 + 1 = Len(control)
        BY <4>1
      <4>6. QED BY <2>1, <4>2, <4>3, <4>4, <4>5
    <3>2. QED BY <1>0, <2>1, <3>1 DEF RequestAgrees
  <2>4. QED BY <2>2, <2>3
<1>8. CASE (\E t \in Tfs, k \in 1..2 : CloseBuckets(t, k)) \/ BeginCatchup \/ ContinueCatchup
           \/ Receive \/ ApplyHeld
  BY <1>8, <1>1 DEF CloseBuckets, BeginCatchup, ContinueCatchup, Receive, ApplyHeld
<1>9. QED BY <1>2, <1>4, <1>5, <1>6, <1>7, <1>8 DEF Next

LEMMA NextCacheIInv ==
  ASSUME ~MayOverlap
  PROVE  CacheIInv /\ [Next]_vars => CacheIInv'
<1> SUFFICES ASSUME CacheIInv, [Next]_vars PROVE CacheIInv'
  OBVIOUS
<1>1. CASE UNCHANGED vars
  <2>1. Types'
    BY NextTypes DEF CacheIInv
  <2>2. QED
    BY <1>1, <2>1 DEF vars, daemon, client, loads, ghosts, CacheIInv, LoadsAgree, RequestAgrees
<1>2. CASE Next
  BY <1>2, NextTypes, HistoryStaysOwn, LoadsKeepAgreeing, RequestKeepsAgreeing DEF CacheIInv
<1>3. QED BY <1>1, <1>2

LEMMA CacheIInvIsOfItsTimeframe == CacheIInv => CacheIsOfItsTimeframe
<1> SUFFICES ASSUME CacheIInv PROVE CacheIsOfItsTimeframe
  OBVIOUS
<1>1. TypeOK
  BY TypesAreOK DEF CacheIInv
<1>2. NoForeignBuckets
  <2>1. history \in Seq({tf} \X Nat)
    BY DEF CacheIInv, Own
  <2>2. \A i \in DOMAIN history : history[i] \in {tf} \X Nat
    BY <2>1
  <2>3. QED BY <2>2 DEF NoForeignBuckets
<1>3. SubscriptionAgrees
  BY DEF CacheIInv, RequestAgrees, SubscriptionAgrees, Settled
<1>4. QED BY <1>1, <1>2, <1>3 DEF CacheIsOfItsTimeframe

(* However switches, requests, frames, baselines and reconnects interleave *)
(* - a switch and a reconnect not overlapping, as the property assumes -   *)
(* the window shows the buckets of its own timeframe only, and the daemon  *)
(* comes to serve that one (request_timeframe, _apply, handle_control).    *)
THEOREM CacheHolds ==
  ASSUME ~MayOverlap
  PROVE  Spec => []CacheIsOfItsTimeframe
  BY InitCacheIInv, NextCacheIInv, CacheIInvIsOfItsTimeframe, PTL DEF Spec

-----------------------------------------------------------------------------
(* What the history is made of.  The line of a timeframe is all that is on *)
(* its way to the history, in the order in which it will be applied: the   *)
(* history itself at position -1, the frame held at 0, the queue from 1 to *)
(* its length, and what its task has not sent at the position after, the   *)
(* tip.                                                                    *)

Tip == Len(queue) + 1
Positions == -1..Tip

In(b, s) == \E e \in DOMAIN s : s[e] = b

(* The task of t has yet to send bucket n.                                 *)
Pending(t, n) == \E q \in DOMAIN tasks : tasks[q].tf = t /\ In(<<t, n>>, tasks[q].rest)

(* Position i of the line of t has bucket n of t.                          *)
Has(t, i, n) ==
    \/ i = -1 /\ tf = t /\ In(<<t, n>>, history)
    \/ i = 0 /\ held # None /\ held.tf = t /\ In(<<t, n>>, held.buckets)
    \/ i \in 1..Len(queue) /\ queue[i].tf = t /\ In(<<t, n>>, queue[i].buckets)
    \/ i = Tip /\ Pending(t, n)

(* Position i of the line of t is a frame of this kind.                    *)
IsFrame(t, i, kind) ==
    \/ i = 0 /\ held # None /\ held.tf = t /\ held.kind = kind
    \/ i \in 1..Len(queue) /\ queue[i].tf = t /\ queue[i].kind = kind

(* No START follows: what is there will be in the history in the end.      *)
Late(t, i) == \A k \in Positions : k > i => ~IsFrame(t, k, "start")

(* The daemon has handled the last request and begun its catch-up, no      *)
(* other of the timeframe was at work, and nothing was dropped since.      *)
Steady(t) ==
    /\ link /\ outgoing = <<>> /\ control = <<>>
    /\ sub = t /\ ~doubled /\ ~lost
    /\ \A q \in DOMAIN tasks : tasks[q].started

(* Consecutive buckets that have closed.                                   *)
RunFrom(base, t, s) == \A e \in DOMAIN s : s[e] = <<t, base + e>>
IsRun(t, s) == \E base \in Nat : RunFrom(base, t, s)
IsPast(t, s) == \A e \in DOMAIN s : s[e] \in {t} \X (1..closed[t])

SoundFrame(f) ==
    /\ IsRun(f.tf, f.buckets) /\ IsPast(f.tf, f.buckets)
    /\ f.kind \in {"start", "end"} => f.buckets = <<>>

SoundTask(k) ==
    /\ IsRun(k.tf, k.rest) /\ IsPast(k.tf, k.rest)
    /\ ~k.started => k.rest = <<>>

FramesAreSound ==
    /\ \A i \in DOMAIN queue : SoundFrame(queue[i])
    /\ held # None => SoundFrame(held)
    /\ \A q \in DOMAIN tasks : SoundTask(tasks[q])
    /\ IsPast(tf, history)

(* The tasks: one of a timeframe unless it is marred, or the last request  *)
(* met another; the last request's is the last to begin.                   *)
Alone(t) == \A p, q \in DOMAIN tasks : tasks[p].tf = t /\ tasks[q].tf = t => p = q
OneTask == \A t \in Tfs : t \notin marred \/ (sub = t /\ ~doubled) => Alone(t)
LastBegins ==
    (\E q \in DOMAIN tasks : ~tasks[q].started) =>
        \E p \in DOMAIN tasks :
            /\ tasks[p].tf = sub /\ ~tasks[p].started
            /\ \A q \in DOMAIN tasks : q > p => tasks[q].started
DownIsEmpty == ~link => tasks = <<>> /\ queue = <<>> /\ held = None

(* A bucket is twice on the line only with a START between.                *)
Clean(t) ==
    \A i, j \in Positions, n \in 1..closed[t] :
        i < j /\ Has(t, i, n) /\ Has(t, j, n) =>
            \E k \in Positions : i < k /\ k < j /\ IsFrame(t, k, "start")
NotMarred(t) == t \notin marred => Clean(t) /\ (tf = t => IsInjective(history))

(* After the last START, no bucket is twice on the line.                   *)
Apart(t) ==
    /\ \A i, j \in Positions, n \in 1..closed[t] :
           i < j /\ Late(t, i) => ~(Has(t, i, n) /\ Has(t, j, n))
    /\ Late(t, -1) => IsInjective(history)

(* What the daemon keeps is on the line.                                   *)
Covers(t) ==
    \A n \in 1..closed[t] : n + Cap > closed[t] =>
        \E i \in Positions : Late(t, i) /\ Has(t, i, n)

(* The line is in order and without gaps, up to the last bucket closed.    *)
Ordered(t) ==
    \A i, j \in Positions, n, m \in 1..closed[t] :
        i < j /\ Late(t, i) /\ Has(t, i, n) /\ Has(t, j, m) => n < m
Gapless(t) ==
    /\ Late(t, -1) => IsRun(t, history)
    /\ \A i \in Positions, n, m \in 1..closed[t] :
           Late(t, i) /\ Has(t, i, n) /\ n <= m =>
               \E j \in Positions : Late(t, j) /\ Has(t, j, m)

(* END is still to come, or has cut the history to the cap.                *)
Ends(t) ==
    (\A q \in DOMAIN tasks : tasks[q].tf # t) =>
        /\ \A i \in Positions : Late(t, i) /\ IsFrame(t, i, "chunk") =>
               \E j \in Positions : j > i /\ IsFrame(t, j, "end")
        /\ Late(t, -1) /\ (\A j \in Positions : ~IsFrame(t, j, "end")) =>
               Len(history) <= Cap

(* Closes that overtook a chunk may push out what the cap still allows, or *)
(* arrive before it: they leave the line complete up to the cap, or there  *)
(* were none.                                                              *)
Download(t) ==
    /\ Apart(t) /\ Ends(t)
    /\ closed[t] <= Cap \/ live = 0 => Covers(t)
    /\ live = 0 => Ordered(t) /\ Gapless(t)

LineIsSound == FramesAreSound /\ OneTask /\ LastBegins /\ DownIsEmpty
LineIInv ==
    /\ CacheIInv /\ LineIsSound
    /\ \A t \in Tfs : NotMarred(t) /\ (Steady(t) => Download(t))

-----------------------------------------------------------------------------
(* Runs of buckets: what they have, and what is cut from them.             *)

LEMMA RunHas ==
  ASSUME NEW t, NEW s \in Own(t), NEW base \in Nat, RunFrom(base, t, s), NEW n \in Nat
  PROVE  In(<<t, n>>, s) <=> base < n /\ n <= base + Len(s)
<1>1. Len(s) \in Nat /\ DOMAIN s = 1..Len(s)
  BY DEF Own
<1>2. ASSUME In(<<t, n>>, s) PROVE base < n /\ n <= base + Len(s)
  <2>1. PICK e \in 1..Len(s) : s[e] = <<t, n>>
    BY <1>1, <1>2 DEF In
  <2>2. n = base + e
    BY <1>1, <2>1 DEF RunFrom
  <2>3. QED BY <1>1, <2>2
<1>3. ASSUME base < n, n <= base + Len(s) PROVE In(<<t, n>>, s)
  <2>1. n - base \in 1..Len(s) /\ base + (n - base) = n
    BY <1>1, <1>3
  <2>2. s[n - base] = <<t, n>>
    BY <1>1, <2>1 DEF RunFrom
  <2>3. QED BY <1>1, <2>1, <2>2 DEF In
<1>4. QED BY <1>2, <1>3

(* A part of a run is a run.                                               *)
LEMMA PartOfRun ==
  ASSUME NEW t, NEW s \in Own(t), NEW base \in Nat, RunFrom(base, t, s),
         NEW a \in Nat, NEW b \in Nat, a <= b, b <= Len(s)
  PROVE  /\ SubSeq(s, a + 1, b) \in Own(t) /\ Len(SubSeq(s, a + 1, b)) = b - a
         /\ RunFrom(base + a, t, SubSeq(s, a + 1, b))
<1>1. s \in Seq({t} \X Nat) /\ Len(s) \in Nat /\ DOMAIN s = 1..Len(s)
  BY DEF Own
<1>2. SubSeq(s, a + 1, b) \in Seq({t} \X Nat) /\ Len(SubSeq(s, a + 1, b)) = b - a
  BY <1>1
<1>3. ASSUME NEW e \in 1..(b - a)
      PROVE  SubSeq(s, a + 1, b)[e] = s[a + e] /\ a + e \in 1..Len(s)
  <2>1. a + e \in 1..Len(s)
    BY <1>1
  <2>2. SubSeq(s, a + 1, b)[e] = s[(a + 1) + e - 1]
    BY <1>1
  <2>3. (a + 1) + e - 1 = a + e
    OBVIOUS
  <2>4. QED BY <2>1, <2>2, <2>3
<1>4. ASSUME NEW e \in 1..(b - a) PROVE SubSeq(s, a + 1, b)[e] = <<t, (base + a) + e>>
  <2>1. SubSeq(s, a + 1, b)[e] = <<t, base + (a + e)>>
    BY <1>1, <1>3 DEF RunFrom
  <2>2. base + (a + e) = (base + a) + e
    OBVIOUS
  <2>3. QED BY <2>1, <2>2
<1>5. DOMAIN SubSeq(s, a + 1, b) = 1..(b - a)
  BY <1>2
<1>6. QED BY <1>2, <1>4, <1>5 DEF RunFrom, Own

(* What the cap leaves of a run.                                           *)
LEMMA CappedRun ==
  ASSUME NEW t, NEW s \in Own(t), NEW base \in Nat, RunFrom(base, t, s)
  PROVE  /\ LastCap(s) \in Own(t) /\ Len(LastCap(s)) = Smaller(Cap, Len(s))
         /\ RunFrom(base + (Len(s) - Smaller(Cap, Len(s))), t, LastCap(s))
         /\ Smaller(Cap, Len(s)) \in 0..Len(s)
<1>1. Len(s) \in Nat /\ Cap \in Nat
  BY CatchupAssumption DEF Own
<1> DEFINE c == Smaller(Cap, Len(s))
<1>2. c \in 0..Len(s) /\ c \in Nat
  BY <1>1 DEF Smaller
<1>3. LastCap(s) = SubSeq(s, (Len(s) - c) + 1, Len(s))
  BY DEF LastCap
<1> HIDE DEF c
<1>4. Len(s) - c \in Nat /\ Len(s) - c <= Len(s) /\ Len(s) - (Len(s) - c) = c
  BY <1>1, <1>2
<1> DEFINE cut == SubSeq(s, (Len(s) - c) + 1, Len(s))
<1>5. cut \in Own(t) /\ Len(cut) = Len(s) - (Len(s) - c) /\ RunFrom(base + (Len(s) - c), t, cut)
  BY <1>1, <1>4, PartOfRun
<1>6. LastCap(s) \in Own(t) /\ Len(LastCap(s)) = c /\ RunFrom(base + (Len(s) - c), t, LastCap(s))
  BY <1>3, <1>4, <1>5
<1>7. QED BY <1>2, <1>6 DEF c

(* A run is cut into its first chunk and the rest.                         *)
LEMMA ChunksOfRun ==
  ASSUME NEW t, NEW s \in Own(t), NEW base \in Nat, RunFrom(base, t, s)
  PROVE  \E c \in 0..Len(s) :
             /\ FirstChunk(s) \in Own(t) /\ Len(FirstChunk(s)) = c
             /\ RunFrom(base, t, FirstChunk(s))
             /\ Rest(s) \in Own(t) /\ Len(Rest(s)) = Len(s) - c
             /\ RunFrom(base + c, t, Rest(s))
<1>1. Len(s) \in Nat /\ ChunkSize \in Nat
  BY CatchupAssumption DEF Own
<1> DEFINE c == Smaller(ChunkSize, Len(s))
<1>2. c \in 0..Len(s) /\ c \in Nat
  BY <1>1 DEF Smaller
<1>3. FirstChunk(s) = SubSeq(s, 0 + 1, c)
  BY DEF FirstChunk
<1>4. Rest(s) = SubSeq(s, c + 1, Len(s))
  <2>1. CASE c = ChunkSize
    BY <2>1 DEF Rest
  <2>2. CASE c # ChunkSize
    <3>1. c = Len(s) /\ Len(s) < ChunkSize
      BY <1>1, <2>2 DEF Smaller
    <3>2. s \in Seq({t} \X Nat)
      BY DEF Own
    <3>3. SubSeq(s, ChunkSize + 1, Len(s)) = <<>> /\ SubSeq(s, c + 1, Len(s)) = <<>>
      BY <1>1, <3>1, <3>2
    <3>4. QED BY <3>3 DEF Rest
  <2>3. QED BY <2>1, <2>2
<1> HIDE DEF c
<1>5. SubSeq(s, 0 + 1, c) \in Own(t) /\ Len(SubSeq(s, 0 + 1, c)) = c - 0
      /\ RunFrom(base + 0, t, SubSeq(s, 0 + 1, c))
  BY <1>1, <1>2, PartOfRun
<1>6. SubSeq(s, c + 1, Len(s)) \in Own(t) /\ Len(SubSeq(s, c + 1, Len(s))) = Len(s) - c
      /\ RunFrom(base + c, t, SubSeq(s, c + 1, Len(s)))
  BY <1>1, <1>2, PartOfRun
<1>7. c - 0 = c /\ base + 0 = base
  BY <1>2
<1>8. QED BY <1>2, <1>3, <1>4, <1>5, <1>6, <1>7

(* What the daemon keeps: the last Cap of the buckets closed.              *)
LEMMA RetainedIsRun ==
  ASSUME closed \in [Tfs -> Nat], NEW t \in Tfs
  PROVE  /\ Retained(t) \in Own(t) /\ Len(Retained(t)) = Smaller(Cap, closed[t])
         /\ closed[t] - Smaller(Cap, closed[t]) \in Nat
         /\ RunFrom(closed[t] - Smaller(Cap, closed[t]), t, Retained(t))
         /\ \A n \in Nat : In(<<t, n>>, Retained(t)) <=> n \in 1..closed[t] /\ n + Cap > closed[t]
<1> DEFINE c == closed[t]
           all == [n \in 1..c |-> <<t, n>>]
           k == Smaller(Cap, c)
<1>1. c \in Nat /\ Cap \in Nat
  BY CatchupAssumption
<1>2. all \in Own(t) /\ Len(all) = c
  BY <1>1 DEF Own
<1>3. RunFrom(0, t, all)
  BY <1>1 DEF RunFrom
<1>4. Retained(t) = LastCap(all)
  BY DEF Retained
<1>5. k \in 0..c /\ k <= Cap /\ (k = Cap \/ k = c) /\ 0 + (c - k) = c - k /\ c - k \in Nat
  BY <1>1 DEF Smaller
<1> HIDE DEF all, c
<1>6. Retained(t) \in Own(t) /\ Len(Retained(t)) = k /\ RunFrom(0 + (c - k), t, Retained(t))
  BY <1>2, <1>3, <1>4, CappedRun
<1> HIDE DEF k
<1>7. RunFrom(c - k, t, Retained(t))
  BY <1>5, <1>6
<1>8. ASSUME NEW n \in Nat PROVE In(<<t, n>>, Retained(t)) <=> n \in 1..c /\ n + Cap > c
  <2>1. In(<<t, n>>, Retained(t)) <=> c - k < n /\ n <= (c - k) + k
    BY <1>5, <1>6, <1>7, RunHas
  <2>2. QED BY <1>1, <1>5, <2>1
<1>9. QED BY <1>5, <1>6, <1>7, <1>8 DEF c, k

LEMMA RunIsInjective ==
  ASSUME NEW t, NEW s \in Own(t), IsRun(t, s)
  PROVE  IsInjective(s)
<1>1. PICK base \in Nat : RunFrom(base, t, s)
  BY DEF IsRun
<1>2. DOMAIN s = 1..Len(s) /\ Len(s) \in Nat
  BY DEF Own
<1>3. QED BY <1>1, <1>2 DEF IsInjective, RunFrom

LEMMA EmptyRun == \A t : IsRun(t, <<>>) /\ IsInjective(<<>>)
<1>1. DOMAIN <<>> = {}
  OBVIOUS
<1>2. QED BY <1>1 DEF IsRun, RunFrom, IsInjective

(* One run continued by another is a run.                                  *)
LEMMA RunGoesOn ==
  ASSUME NEW t, NEW s \in Own(t), NEW u \in Own(t), NEW base \in Nat,
         RunFrom(base, t, s), RunFrom(base + Len(s), t, u)
  PROVE  RunFrom(base, t, s \o u)
<1>1. /\ s \in Seq({t} \X Nat) /\ u \in Seq({t} \X Nat)
      /\ Len(s) \in Nat /\ Len(u) \in Nat
      /\ DOMAIN s = 1..Len(s) /\ DOMAIN u = 1..Len(u)
  BY DEF Own
<1>2. DOMAIN (s \o u) = 1..(Len(s) + Len(u))
  BY <1>1
<1>3. ASSUME NEW e \in DOMAIN (s \o u) PROVE (s \o u)[e] = <<t, base + e>>
  <2>1. CASE e <= Len(s)
    <3>1. e \in DOMAIN s /\ (s \o u)[e] = s[e]
      BY <1>1, <1>2, <2>1
    <3>2. QED BY <3>1 DEF RunFrom
  <2>2. CASE e > Len(s)
    <3>1. e - Len(s) \in DOMAIN u /\ (s \o u)[e] = u[e - Len(s)]
      BY <1>1, <1>2, <2>2
    <3>2. (base + Len(s)) + (e - Len(s)) = base + e
      BY <1>1, <1>2
    <3>3. QED BY <3>1, <3>2 DEF RunFrom
  <2>3. QED BY <1>1, <1>2, <2>1, <2>2
<1>4. QED BY <1>3 DEF RunFrom

(* What a concatenation has, and what the cap leaves. *)
LEMMA InConcat ==
  ASSUME NEW S, NEW s \in Seq(S), NEW u \in Seq(S), NEW b
  PROVE  In(b, s \o u) <=> In(b, s) \/ In(b, u)
<1>1. /\ Len(s) \in Nat /\ Len(u) \in Nat
      /\ DOMAIN s = 1..Len(s) /\ DOMAIN u = 1..Len(u)
      /\ DOMAIN (s \o u) = 1..(Len(s) + Len(u))
  OBVIOUS
<1>2. ASSUME NEW e \in 1..Len(s) PROVE e \in DOMAIN (s \o u) /\ (s \o u)[e] = s[e]
  BY <1>1
<1>3. ASSUME NEW e \in 1..Len(u)
      PROVE  e + Len(s) \in DOMAIN (s \o u) /\ (s \o u)[e + Len(s)] = u[e]
  BY <1>1
<1>4. ASSUME NEW e \in DOMAIN (s \o u), e > Len(s)
      PROVE  e - Len(s) \in 1..Len(u) /\ (s \o u)[e] = u[e - Len(s)]
  BY <1>1, <1>4
<1>5. In(b, s) => In(b, s \o u)
  BY <1>1, <1>2 DEF In
<1>6. In(b, u) => In(b, s \o u)
  BY <1>1, <1>3 DEF In
<1>7. ASSUME In(b, s \o u) PROVE In(b, s) \/ In(b, u)
  <2>1. PICK e \in DOMAIN (s \o u) : (s \o u)[e] = b
    BY <1>7 DEF In
  <2>2. CASE e > Len(s)
    BY <1>1, <1>4, <2>1, <2>2 DEF In
  <2>3. CASE ~(e > Len(s))
    <3>1. e \in 1..Len(s)
      BY <1>1, <2>3
    <3>2. QED BY <1>1, <1>2, <2>1, <3>1 DEF In
  <2>4. QED BY <2>2, <2>3
<1>8. QED BY <1>5, <1>6, <1>7

LEMMA InLastCap ==
  ASSUME NEW S, NEW s \in Seq(S), NEW b, In(b, LastCap(s))
  PROVE  In(b, s)
<1>1. PICK e \in 1..Len(LastCap(s)) : LastCap(s)[e] = b
  BY LastCapFacts DEF In
<1>2. QED BY <1>1, LastCapFacts DEF In

LEMMA InEmpty == \A b : ~In(b, <<>>)
BY DEF In

LEMMA SuffixOfInjective ==
  ASSUME NEW S, NEW s \in Seq(S), IsInjective(s)
  PROVE  IsInjective(LastCap(s))
<1> DEFINE d == Len(s) - Len(LastCap(s))
<1>1. d \in Int /\ Len(LastCap(s)) \in Nat /\ DOMAIN LastCap(s) = 1..Len(LastCap(s))
  BY LastCapFacts
<1>2. \A e \in 1..Len(LastCap(s)) : LastCap(s)[e] = s[e + d] /\ e + d \in DOMAIN s
  BY LastCapFacts
<1> HIDE DEF d
<1>3. ASSUME NEW e \in DOMAIN LastCap(s), NEW f \in DOMAIN LastCap(s),
             LastCap(s)[e] = LastCap(s)[f]
      PROVE  e = f
  <2>1. e + d = f + d
    BY <1>1, <1>2, <1>3 DEF IsInjective
  <2>2. QED BY <1>1, <2>1
<1>4. QED BY <1>3 DEF IsInjective

(* Two injective sequences without a common member make an injective one.  *)
LEMMA ConcatIsInjective ==
  ASSUME NEW S, NEW s \in Seq(S), NEW u \in Seq(S), IsInjective(s), IsInjective(u),
         \A b \in S : ~(In(b, s) /\ In(b, u))
  PROVE  IsInjective(s \o u)
<1>1. /\ Len(s) \in Nat /\ Len(u) \in Nat
      /\ DOMAIN s = 1..Len(s) /\ DOMAIN u = 1..Len(u)
      /\ DOMAIN (s \o u) = 1..(Len(s) + Len(u))
  OBVIOUS
<1>2. \A e \in 1..Len(s) : (s \o u)[e] = s[e] /\ In(s[e], s) /\ s[e] \in S
  BY <1>1 DEF In
<1>3. \A e \in DOMAIN (s \o u) : e > Len(s) =>
          e - Len(s) \in 1..Len(u) /\ (s \o u)[e] = u[e - Len(s)] /\ In(u[e - Len(s)], u)
  BY <1>1 DEF In
<1>4. ASSUME NEW e \in DOMAIN (s \o u), NEW f \in DOMAIN (s \o u),
             (s \o u)[e] = (s \o u)[f]
      PROVE  e = f
  <2>1. CASE e <= Len(s) /\ f <= Len(s)
    <3>1. e \in 1..Len(s) /\ f \in 1..Len(s)
      BY <1>1, <2>1
    <3>2. QED BY <1>1, <1>2, <1>4, <3>1 DEF IsInjective
  <2>2. CASE e > Len(s) /\ f > Len(s)
    <3>1. e - Len(s) = f - Len(s)
      BY <1>1, <1>3, <1>4, <2>2 DEF IsInjective
    <3>2. QED BY <1>1, <3>1
  <2>3. CASE e <= Len(s) /\ f > Len(s)
    <3>1. e \in 1..Len(s)
      BY <1>1, <2>3
    <3>2. QED BY <1>2, <1>3, <1>4, <2>3, <3>1
  <2>4. CASE e > Len(s) /\ f <= Len(s)
    <3>1. f \in 1..Len(s)
      BY <1>1, <2>4
    <3>2. QED BY <1>2, <1>3, <1>4, <2>4, <3>1
  <2>5. QED BY <1>1, <2>1, <2>2, <2>3, <2>4
<1>5. QED BY <1>4 DEF IsInjective

-----------------------------------------------------------------------------
(* The positions of a line.                                                *)

LEMMA PositionsAre ==
  ASSUME Types
  PROVE  /\ Tip \in Nat /\ Tip >= 1 /\ Len(queue) = Tip - 1 /\ Positions = -1..Tip
         /\ DOMAIN queue = 1..(Tip - 1)
<1>1. queue \in Seq(OwnFrame)
  BY DEF Types, WireTypes
<1>2. QED BY <1>1 DEF Tip, Positions

LEMMA PositionsNextAre ==
  ASSUME Types'
  PROVE  /\ Tip' \in Nat /\ Tip' >= 1 /\ Len(queue') = Tip' - 1 /\ Positions' = -1..Tip'
         /\ DOMAIN queue' = 1..(Tip' - 1)
<1>1. queue' \in Seq(OwnFrame)
  BY DEF Types, WireTypes
<1>2. QED BY <1>1 DEF Tip, Positions

LEMMA HasPosition ==
  ASSUME Types, NEW t, NEW i, NEW n, Has(t, i, n)
  PROVE  i \in Positions
BY PositionsAre DEF Has

LEMMA FramePosition ==
  ASSUME Types, NEW t, NEW i, NEW kind, IsFrame(t, i, kind)
  PROVE  i \in Positions /\ 0 <= i /\ i < Tip
BY PositionsAre DEF IsFrame

LEMMA LateFollows ==
  ASSUME Types, NEW t, NEW i \in Int, NEW j \in Int, i <= j, Late(t, i)
  PROVE  Late(t, j)
<1>1. \A k \in Positions : k \in Int
  BY PositionsAre
<1>2. QED BY <1>1 DEF Late

(* Whatever is on a line has closed.                                       *)
LEMMA InPast ==
  ASSUME NEW t, NEW s, IsPast(t, s), NEW n, In(<<t, n>>, s)
  PROVE  n \in 1..closed[t]
BY DEF IsPast, In

LEMMA HasPast ==
  ASSUME Types, FramesAreSound, NEW t, NEW i, NEW n, Has(t, i, n)
  PROVE  n \in 1..closed[t]
<1>1. CASE i = -1 /\ tf = t /\ In(<<t, n>>, history)
  BY <1>1, InPast DEF FramesAreSound
<1>2. CASE i = 0 /\ held # None /\ held.tf = t /\ In(<<t, n>>, held.buckets)
  BY <1>2, InPast DEF FramesAreSound, SoundFrame
<1>3. CASE i \in 1..Len(queue) /\ queue[i].tf = t /\ In(<<t, n>>, queue[i].buckets)
  BY <1>3, InPast, PositionsAre DEF FramesAreSound, SoundFrame
<1>4. CASE i = Tip /\ Pending(t, n)
  BY <1>4, InPast DEF FramesAreSound, SoundTask, Pending
<1>5. QED BY <1>1, <1>2, <1>3, <1>4 DEF Has

-----------------------------------------------------------------------------
(* A step that moves the line of t: position i in D becomes m[i], and      *)
(* nothing else is on the line after it.                                   *)
Moves(t, D, m) ==
    /\ D \subseteq Positions /\ m \in [D -> Positions']
    /\ \A i, j \in D : i < j <=> m[i] < m[j]
    /\ \A i \in D : \A kind : IsFrame(t, m[i], kind)' <=> IsFrame(t, i, kind)
    /\ \A j \in Positions', n \in Nat : Has(t, j, n)' => \E i \in D : m[i] = j /\ Has(t, i, n)
    /\ \A i \in D, k \in Positions, n \in Nat :
           Has(t, i, n) /\ i < k /\ IsFrame(t, k, "start") => k \in D

(* It leaves nothing behind that counts, and puts no frame anywhere.       *)
MovesAll(t, D, m) ==
    /\ \A i \in Positions, n \in Nat : Late(t, i) /\ Has(t, i, n) => i \in D /\ Has(t, m[i], n)'
    /\ \A i \in Positions : \A kind :
           Late(t, i) /\ IsFrame(t, i, kind) /\ kind # "start" => i \in D
    /\ \A i \in D, k \in Positions : i < k /\ IsFrame(t, k, "start") => k \in D
    /\ \A j \in Positions' : \A kind : IsFrame(t, j, kind)' => \E i \in D : m[i] = j

LEMMA MovedIsClean ==
  ASSUME Types, Types', FramesAreSound, NEW t, NEW D, NEW m, Moves(t, D, m), Clean(t),
         closed'[t] \in Nat
  PROVE  Clean(t)'
<1> SUFFICES ASSUME NEW i \in Positions', NEW j \in Positions', NEW n \in 1..closed'[t],
                    i < j, Has(t, i, n)', Has(t, j, n)'
             PROVE  \E k \in Positions' : i < k /\ k < j /\ IsFrame(t, k, "start")'
  BY DEF Clean
<1>1. n \in Nat
  OBVIOUS
<1>2. PICK a \in D : m[a] = i /\ Has(t, a, n)
  BY <1>1 DEF Moves
<1>3. PICK b \in D : m[b] = j /\ Has(t, b, n)
  BY <1>1 DEF Moves
<1>4. a < b /\ a \in Positions /\ b \in Positions
  BY <1>2, <1>3 DEF Moves
<1>5. n \in 1..closed[t]
  BY <1>2, HasPast
<1>6. PICK k \in Positions : a < k /\ k < b /\ IsFrame(t, k, "start")
  BY <1>2, <1>3, <1>4, <1>5 DEF Clean
<1>7. k \in D
  BY <1>1, <1>2, <1>6 DEF Moves
<1>8. m[k] \in Positions' /\ i < m[k] /\ m[k] < j /\ IsFrame(t, m[k], "start")'
  BY <1>2, <1>3, <1>6, <1>7 DEF Moves
<1>9. QED BY <1>8

LEMMA MovedIsLate ==
  ASSUME Types, Types', NEW t, NEW D, NEW m, Moves(t, D, m), MovesAll(t, D, m), NEW i \in D
  PROVE  Late(t, m[i])' <=> Late(t, i)
<1>1. ASSUME Late(t, i), NEW k \in Positions', k > m[i], IsFrame(t, k, "start")' PROVE FALSE
  <2>1. PICK j \in D : m[j] = k
    BY <1>1 DEF MovesAll
  <2>2. j \in Positions /\ IsFrame(t, j, "start")
    BY <1>1, <2>1 DEF Moves
  <2>3. i < j
    <3>1. m[i] < m[j]
      BY <1>1, <2>1
    <3>2. QED BY <3>1, <2>1 DEF Moves
  <2>4. QED BY <1>1, <2>2, <2>3 DEF Late
<1>2. ASSUME Late(t, m[i])', NEW k \in Positions, k > i, IsFrame(t, k, "start") PROVE FALSE
  <2>1. k \in D
    BY <1>2 DEF MovesAll
  <2>2. m[k] \in Positions' /\ IsFrame(t, m[k], "start")' /\ m[k] > m[i]
    BY <1>2, <2>1 DEF Moves
  <2>3. QED BY <1>2, <2>2 DEF Late
<1>3. QED BY <1>1, <1>2 DEF Late

(* The history moves along, or was cleared.                                *)
HistoryMoves(D, m) == history' = <<>> \/ (history' = history /\ -1 \in D /\ m[-1] = -1)

LEMMA MovedDownload ==
  ASSUME Types, Types', FramesAreSound, NEW t, NEW D, NEW m,
         Moves(t, D, m), MovesAll(t, D, m), HistoryMoves(D, m),
         Download(t), closed[t] \in Nat, closed'[t] = closed[t], live' = live,
         (\A q \in DOMAIN tasks' : tasks'[q].tf # t) => \A q \in DOMAIN tasks : tasks[q].tf # t
  PROVE  Download(t)'
<1>p. \A i \in D : i \in Positions /\ m[i] \in Positions'
  BY DEF Moves
<1>l. \A i \in D : Late(t, m[i])' <=> Late(t, i)
  BY MovedIsLate
<1>b. \A j \in Positions', n \in Nat : Has(t, j, n)' => \E i \in D : m[i] = j /\ Has(t, i, n)
  BY DEF Moves
<1>f. \A i \in Positions, n \in Nat : Late(t, i) /\ Has(t, i, n) =>
          /\ i \in D /\ m[i] \in Positions' /\ Late(t, m[i])' /\ Has(t, m[i], n)'
  BY <1>l, <1>p DEF MovesAll
<1>h. Late(t, -1)' /\ history' # <<>> => Late(t, -1) /\ history' = history
  BY <1>l DEF HistoryMoves
<1>1. Apart(t)'
  <2>1. ASSUME NEW i \in Positions', NEW j \in Positions', NEW n \in 1..closed'[t],
               i < j, Late(t, i)', Has(t, i, n)', Has(t, j, n)'
        PROVE  FALSE
    <3>1. PICK a \in D : m[a] = i /\ Has(t, a, n)
      BY <2>1, <1>b
    <3>2. PICK b \in D : m[b] = j /\ Has(t, b, n)
      BY <2>1, <1>b
    <3>3. a < b
      BY <2>1, <3>1, <3>2 DEF Moves
    <3>4. Late(t, a)
      BY <2>1, <3>1, <1>l
    <3>5. QED BY <1>p, <3>1, <3>2, <3>3, <3>4 DEF Apart, Download
  <2>2. Late(t, -1)' => IsInjective(history')
    BY <1>h, EmptyRun DEF Apart, Download
  <2>3. QED BY <2>1, <2>2 DEF Apart
<1>2. Ends(t)'
  <2> SUFFICES ASSUME \A q \in DOMAIN tasks' : tasks'[q].tf # t
               PROVE  /\ \A i \in Positions' : Late(t, i)' /\ IsFrame(t, i, "chunk")' =>
                             \E j \in Positions' : j > i /\ IsFrame(t, j, "end")'
                      /\ Late(t, -1)' /\ (\A j \in Positions' : ~IsFrame(t, j, "end")') =>
                             Len(history') <= Cap
    BY DEF Ends
  <2>1. /\ \A i \in Positions : Late(t, i) /\ IsFrame(t, i, "chunk") =>
               \E j \in Positions : j > i /\ IsFrame(t, j, "end")
        /\ Late(t, -1) /\ (\A j \in Positions : ~IsFrame(t, j, "end")) => Len(history) <= Cap
    BY DEF Download, Ends
  <2>i. \A i \in Positions : i \in Int
    BY PositionsAre
  <2>2. ASSUME NEW i \in Positions', Late(t, i)', IsFrame(t, i, "chunk")'
        PROVE  \E j \in Positions' : j > i /\ IsFrame(t, j, "end")'
    <3>1. PICK a \in D : m[a] = i
      BY <2>2 DEF MovesAll
    <3>2. IsFrame(t, a, "chunk") /\ Late(t, a) /\ a \in Positions
      BY <1>l, <1>p, <2>2, <3>1 DEF Moves
    <3>3. PICK b \in Positions : b > a /\ IsFrame(t, b, "end")
      BY <2>1, <3>2
    <3>4. Late(t, b)
      BY <2>i, <3>2, <3>3, LateFollows
    <3>5. b \in D
      BY <3>3, <3>4 DEF MovesAll
    <3>6. m[b] \in Positions' /\ m[b] > i /\ IsFrame(t, m[b], "end")'
      BY <3>1, <3>3, <3>5 DEF Moves
    <3>7. QED BY <3>6
  <2>3. ASSUME Late(t, -1)', \A j \in Positions' : ~IsFrame(t, j, "end")'
        PROVE  Len(history') <= Cap
    <3>1. CASE history' = <<>>
      BY <3>1, CatchupAssumption
    <3>2. CASE history' # <<>>
      <4>1. Late(t, -1) /\ history' = history
        BY <1>h, <2>3, <3>2
      <4>2. ASSUME NEW j \in Positions, IsFrame(t, j, "end") PROVE FALSE
        <5>1. Late(t, j)
          BY <2>i, <4>1, <4>2, LateFollows, PositionsAre
        <5>2. j \in D
          BY <4>2, <5>1 DEF MovesAll
        <5>3. IsFrame(t, m[j], "end")' /\ m[j] \in Positions'
          BY <4>2, <5>2 DEF Moves
        <5>4. QED BY <2>3, <5>3
      <4>3. QED BY <2>1, <4>1, <4>2
    <3>3. QED BY <3>1, <3>2
  <2>4. QED BY <2>2, <2>3
<1>3. Covers(t) => Covers(t)'
  BY <1>f DEF Covers
<1>4. Ordered(t) => Ordered(t)'
  <2> SUFFICES ASSUME Ordered(t), NEW i \in Positions', NEW j \in Positions',
                      NEW n \in 1..closed'[t], NEW k \in 1..closed'[t],
                      i < j, Late(t, i)', Has(t, i, n)', Has(t, j, k)'
               PROVE  n < k
    BY DEF Ordered
  <2>1. PICK a \in D : m[a] = i /\ Has(t, a, n)
    BY <1>b
  <2>2. PICK b \in D : m[b] = j /\ Has(t, b, k)
    BY <1>b
  <2>3. a < b /\ Late(t, a)
    BY <2>1, <2>2, <1>l DEF Moves
  <2>4. QED BY <1>p, <2>1, <2>2, <2>3 DEF Ordered
<1>5. Gapless(t) => Gapless(t)'
  <2> SUFFICES ASSUME Gapless(t) PROVE Gapless(t)'
    OBVIOUS
  <2>1. Late(t, -1)' => IsRun(t, history')
    BY <1>h, EmptyRun DEF Gapless
  <2>2. ASSUME NEW i \in Positions', NEW n \in 1..closed'[t], NEW k \in 1..closed'[t],
               Late(t, i)', Has(t, i, n)', n <= k
        PROVE  \E j \in Positions' : Late(t, j)' /\ Has(t, j, k)'
    <3>1. PICK a \in D : m[a] = i /\ Has(t, a, n)
      BY <1>b, <2>2
    <3>2. Late(t, a)
      BY <1>l, <2>2, <3>1
    <3>3. PICK b \in Positions : Late(t, b) /\ Has(t, b, k)
      BY <1>p, <2>2, <3>1, <3>2 DEF Gapless
    <3>4. QED BY <1>f, <3>3
  <2>3. QED BY <2>1, <2>2 DEF Gapless, IsRun, RunFrom
<1>6. QED BY <1>1, <1>2, <1>3, <1>4, <1>5 DEF Download

-----------------------------------------------------------------------------
(* A step that applies position p of the line of t, the first after the    *)
(* history, to the history: all of it, or cut to the cap.                  *)
Merges(t, p, b) ==
    /\ tf = t /\ tf' = t /\ b \in Own(t) /\ IsRun(t, b)
    /\ p \in {0, 1} /\ p < Tip /\ Tip' = Tip - p
    /\ \A n \in Nat : Has(t, p, n) <=> In(<<t, n>>, b)
    /\ ~IsFrame(t, p, "start")
    /\ p = 1 => \A kind : ~IsFrame(t, 0, kind)
    /\ p = 1 => \A n \in Nat : ~Has(t, 0, n)
    /\ history' = LastCap(history \o b) \/ (history' = history \o b /\ IsFrame(t, p, "chunk"))
    /\ \A n \in Nat : ~Has(t, 0, n)'
    /\ \A kind : ~IsFrame(t, 0, kind)'
    /\ \A i \in 1..Tip', n \in Nat : Has(t, i, n)' <=> Has(t, i + p, n)
    /\ \A i \in 1..Tip' : \A kind : IsFrame(t, i, kind)' <=> IsFrame(t, i + p, kind)

LEMMA MergedParts ==
  ASSUME Types, Types', NEW t, NEW p, NEW b, Merges(t, p, b), history \in Own(t)
  PROVE  /\ history \o b \in Own(t) /\ history' \in Own(t) /\ p \in Int /\ Tip \in Int
         /\ \A i \in Positions' : i = -1 \/ i = 0 \/ i \in 1..Tip'
         /\ \A i \in 1..Tip' : i + p \in Positions /\ i + p > p
         /\ \A i \in Positions : i > p => i - p \in 1..Tip' /\ (i - p) + p = i
         /\ \A i \in Positions : i = -1 \/ i = p \/ i > p \/ (i = 0 /\ p = 1)
         /\ 1..Tip' \subseteq Positions' /\ -1 \in Positions' /\ -1 \in Positions /\ p \in Positions
<1>1. Tip \in Nat /\ Tip >= 1 /\ Positions = -1..Tip /\ Tip' \in Nat /\ Tip' >= 1 /\ Positions' = -1..Tip'
  BY PositionsAre, PositionsNextAre
<1>2. p \in {0, 1} /\ p < Tip /\ Tip' = Tip - p
  BY DEF Merges
<1>3. history \o b \in Own(t)
  BY HistoryGrows DEF Merges, Own
<1>4. history' \in Own(t)
  BY <1>3, LastCapFacts DEF Merges, Own
<1>5. p \in Int /\ Tip \in Int
  BY <1>1, <1>2
<1>6. \A i \in Positions' : i = -1 \/ i = 0 \/ i \in 1..Tip'
  BY <1>1
<1>7. \A i \in 1..Tip' : i + p \in Positions /\ i + p > p
  BY <1>1, <1>2
<1>8. \A i \in Positions : i > p => i - p \in 1..Tip' /\ (i - p) + p = i
  BY <1>1, <1>2
<1>9. \A i \in Positions : i = -1 \/ i = p \/ i > p \/ (i = 0 /\ p = 1)
  BY <1>1, <1>2
<1>10. 1..Tip' \subseteq Positions' /\ -1 \in Positions' /\ -1 \in Positions /\ p \in Positions
  BY <1>1, <1>2
<1>11. QED BY <1>3, <1>4, <1>5, <1>6, <1>7, <1>8, <1>9, <1>10

(* The history gets what was applied, and nothing else.                    *)
LEMMA MergedHistory ==
  ASSUME Types, Types', NEW t, NEW p, NEW b, Merges(t, p, b), history \in Own(t)
  PROVE  /\ \A n : In(<<t, n>>, history \o b) <=> In(<<t, n>>, history) \/ In(<<t, n>>, b)
         /\ \A n \in Nat : Has(t, -1, n) <=> In(<<t, n>>, history)
         /\ \A n \in Nat : Has(t, -1, n)' <=> In(<<t, n>>, history')
         /\ \A n \in Nat : Has(t, -1, n)' => Has(t, -1, n) \/ Has(t, p, n)
<1>1. tf = t /\ tf' = t /\ history \in Seq({t} \X Nat) /\ b \in Seq({t} \X Nat)
      /\ (\A n \in Nat : Has(t, p, n) <=> In(<<t, n>>, b))
      /\ (history' = LastCap(history \o b) \/ history' = history \o b)
  BY DEF Merges, Own
<1>2. \A n : In(<<t, n>>, history \o b) <=> In(<<t, n>>, history) \/ In(<<t, n>>, b)
  BY <1>1, InConcat
<1>3. Tip >= 1 /\ Tip' >= 1
  BY PositionsAre, PositionsNextAre
<1>4. \A n \in Nat : Has(t, -1, n) <=> In(<<t, n>>, history)
  BY <1>1, <1>3 DEF Has
<1>5. \A n \in Nat : Has(t, -1, n)' <=> In(<<t, n>>, history')
  BY <1>1, <1>3 DEF Has
<1>6. history \o b \in Seq({t} \X Nat)
  BY <1>1
<1>7. \A n \in Nat : In(<<t, n>>, history') => In(<<t, n>>, history \o b)
  BY <1>1, <1>6, InLastCap
<1>8. QED BY <1>1, <1>2, <1>4, <1>5, <1>7

LEMMA MergedIsInjective ==
  ASSUME Types, Types', NEW t, NEW p, NEW b, Merges(t, p, b), history \in Own(t),
         IsInjective(history), \A n \in Nat : ~(Has(t, -1, n) /\ Has(t, p, n))
  PROVE  IsInjective(history \o b) /\ IsInjective(history')
<1>1. IsInjective(b)
  BY RunIsInjective DEF Merges
<1>2. \A n \in Nat : ~(In(<<t, n>>, history) /\ In(<<t, n>>, b))
  BY MergedHistory DEF Merges
<1>3. \A x \in {t} \X Nat : ~(In(x, history) /\ In(x, b))
  BY <1>2
<1>4. history \in Seq({t} \X Nat) /\ b \in Seq({t} \X Nat)
  BY DEF Merges, Own
<1>5. IsInjective(history \o b)
  BY <1>1, <1>3, <1>4, ConcatIsInjective
<1>6. history \o b \in Seq({t} \X Nat)
  BY <1>4
<1>7. IsInjective(LastCap(history \o b))
  BY <1>5, <1>6, SuffixOfInjective
<1>8. QED BY <1>5, <1>7 DEF Merges

LEMMA MergedIsClean ==
  ASSUME Types, Types', FramesAreSound, NEW t, NEW p, NEW b, Merges(t, p, b),
         history \in Own(t), Clean(t), IsInjective(history), closed'[t] \in Nat
  PROVE  Clean(t)' /\ IsInjective(history')
<1>m. /\ p \in {0, 1} /\ p \in Int /\ 1..Tip' \subseteq Positions' /\ -1 \in Positions /\ p \in Positions
      /\ \A i \in Positions : i \in Int /\ (i = -1 \/ i = p \/ i > p \/ (i = 0 /\ p = 1))
      /\ \A i \in Positions' : i = -1 \/ i = 0 \/ i \in 1..Tip'
      /\ \A i \in 1..Tip' : i + p \in Positions /\ i + p > p
      /\ \A i \in Positions : i > p => i - p \in 1..Tip' /\ (i - p) + p = i
  <2>1. p \in {0, 1} /\ \A i \in Positions : i \in Int
    BY PositionsAre DEF Merges
  <2>2. QED BY <2>1, MergedParts
<1>1. \A n \in Nat : ~(Has(t, -1, n) /\ Has(t, p, n))
  <2> SUFFICES ASSUME NEW n \in Nat, Has(t, -1, n), Has(t, p, n) PROVE FALSE
    OBVIOUS
  <2>1. n \in 1..closed[t]
    BY HasPast
  <2>2. -1 < p
    BY DEF Merges
  <2>3. PICK k \in Positions : -1 < k /\ k < p /\ IsFrame(t, k, "start")
    BY <1>m, <2>1, <2>2 DEF Clean
  <2>4. k = 0 /\ p = 1
    BY <1>m, <2>3
  <2>5. QED BY <2>3, <2>4 DEF Merges
<1>2. IsInjective(history')
  BY <1>1, MergedIsInjective
<1>3. ASSUME NEW i \in Positions', NEW j \in Positions', NEW n \in 1..closed'[t],
             i < j, Has(t, i, n)', Has(t, j, n)'
      PROVE  \E k \in Positions' : i < k /\ k < j /\ IsFrame(t, k, "start")'
  <2>0. n \in Nat /\ i # 0 /\ j # 0 /\ j # -1 /\ \A k \in Positions' : k \in Int /\ k >= -1
    <3>1. n \in Nat
      OBVIOUS
    <3>2. i # 0 /\ j # 0
      BY <1>3, <3>1 DEF Merges
    <3>3. \A k \in Positions' : k \in Int /\ k >= -1
      BY PositionsNextAre
    <3>4. QED BY <1>3, <3>1, <3>2, <3>3
  <2>1. j \in 1..Tip'
    BY <2>0, MergedParts
  <2>2. Has(t, j + p, n) /\ j + p \in Positions /\ j + p > p
    <3>1. Has(t, j, n)' <=> Has(t, j + p, n)
      BY <2>0, <2>1 DEF Merges
    <3>2. QED BY <1>3, <1>m, <2>1, <3>1
  <2>n. n \in 1..closed[t]
    BY <2>2, HasPast
  <2>3. PICK a \in Positions : /\ Has(t, a, n) /\ a < j + p
                               /\ (i = -1 /\ a \in {-1, p}) \/ (i \in 1..Tip' /\ a = i + p)
    <3>1. CASE i = -1
      <4>1. PICK a \in {-1, p} : Has(t, a, n)
        BY <1>3, <2>0, <3>1, MergedHistory
      <4>2. a \in Positions /\ a < j + p
        BY <1>m, <2>1, <2>2, <4>1
      <4>3. QED BY <3>1, <4>1, <4>2
    <3>2. CASE i \in 1..Tip'
      <4>1. Has(t, i + p, n) /\ i + p \in Positions
        <5>1. Has(t, i, n)' <=> Has(t, i + p, n)
          BY <2>0, <3>2 DEF Merges
        <5>2. QED BY <1>3, <1>m, <3>2, <5>1
      <4>2. i + p < j + p
        BY <1>3, <2>1, <3>2, MergedParts
      <4>3. QED BY <3>2, <4>1, <4>2
    <3>3. QED BY <2>0, <3>1, <3>2, MergedParts
  <2>4. PICK k \in Positions : a < k /\ k < j + p /\ IsFrame(t, k, "start")
    BY <2>2, <2>3, <2>n DEF Clean
  <2>5. k > p
    <3>1. k # p /\ ~(k = 0 /\ p = 1) /\ k # -1
      BY <2>4, FramePosition DEF Merges
    <3>2. QED BY <3>1, MergedParts
  <2>6. k - p \in 1..Tip' /\ (k - p) + p = k /\ k \in Int /\ p \in Int
    BY <2>5, MergedParts, PositionsAre
  <2>7. IsFrame(t, k - p, "start")' /\ k - p \in Positions'
    <3>1. k - p \in Positions'
      BY <1>m, <2>6
    <3>2. IsFrame(t, k - p, "start")' <=> IsFrame(t, (k - p) + p, "start")
      BY <2>6 DEF Merges
    <3>3. QED BY <2>4, <2>6, <3>1, <3>2
  <2>8. k - p < j /\ i < k - p
    BY <2>1, <2>3, <2>4, <2>5, <2>6
  <2>9. QED BY <2>7, <2>8
<1>4. QED BY <1>2, <1>3 DEF Clean

LEMMA MergedIsLate ==
  ASSUME Types, Types', NEW t, NEW p, NEW b, Merges(t, p, b), history \in Own(t)
  PROVE  /\ Late(t, -1)' <=> Late(t, -1)
         /\ Late(t, -1) <=> Late(t, p)
         /\ \A i \in 1..Tip' : Late(t, i)' <=> Late(t, i + p)
<1>m. /\ p \in {0, 1} /\ p \in Int /\ 1..Tip' \subseteq Positions' /\ -1 \in Positions /\ p \in Positions
      /\ \A i \in Positions : i \in Int /\ (i = -1 \/ i = p \/ i > p \/ (i = 0 /\ p = 1))
      /\ \A i \in Positions' : i = -1 \/ i = 0 \/ i \in 1..Tip'
      /\ \A i \in 1..Tip' : i + p \in Positions /\ i + p > p
      /\ \A i \in Positions : i > p => i - p \in 1..Tip' /\ (i - p) + p = i
  <2>1. p \in {0, 1} /\ \A i \in Positions : i \in Int
    BY PositionsAre DEF Merges
  <2>2. QED BY <2>1, MergedParts
<1>i. (\A k \in Positions : k \in Int /\ k >= -1) /\ (\A k \in Positions' : k \in Int /\ k >= -1)
      /\ p \in {0, 1}
  BY PositionsAre, PositionsNextAre DEF Merges
<1>1. \A k \in Positions : IsFrame(t, k, "start") =>
          k > p /\ k - p \in 1..Tip' /\ k - p \in Positions' /\ IsFrame(t, k - p, "start")'
  <2> SUFFICES ASSUME NEW k \in Positions, IsFrame(t, k, "start")
               PROVE  k > p /\ k - p \in 1..Tip' /\ k - p \in Positions' /\ IsFrame(t, k - p, "start")'
    OBVIOUS
  <2>1. k # p /\ ~(k = 0 /\ p = 1) /\ k # -1
    BY FramePosition DEF Merges
  <2>2. k > p
    BY <1>m, <2>1
  <2>3. k - p \in 1..Tip' /\ (k - p) + p = k
    BY <1>m, <2>2
  <2>4. IsFrame(t, k - p, "start")' <=> IsFrame(t, (k - p) + p, "start")
    BY <2>3 DEF Merges
  <2>5. QED BY <1>m, <2>2, <2>3, <2>4
<1>2. \A k \in Positions' : IsFrame(t, k, "start")' =>
          k \in 1..Tip' /\ k + p \in Positions /\ IsFrame(t, k + p, "start")
  <2> SUFFICES ASSUME NEW k \in Positions', IsFrame(t, k, "start")'
               PROVE  k \in 1..Tip' /\ k + p \in Positions /\ IsFrame(t, k + p, "start")
    OBVIOUS
  <2>1. k # 0
    BY DEF Merges
  <2>2. k # -1
    BY PositionsNextAre DEF IsFrame
  <2>3. k \in 1..Tip'
    BY <1>m, <2>1, <2>2
  <2>4. IsFrame(t, k, "start")' <=> IsFrame(t, k + p, "start")
    BY <2>3 DEF Merges
  <2>5. QED BY <1>m, <2>3, <2>4
<1>3. Late(t, -1)' <=> Late(t, -1)
  <2>1. ASSUME Late(t, -1)', NEW k \in Positions, IsFrame(t, k, "start") PROVE FALSE
    BY <1>1, <1>i, <2>1 DEF Late
  <2>2. ASSUME Late(t, -1), NEW k \in Positions', IsFrame(t, k, "start")' PROVE FALSE
    BY <1>2, <1>i, <2>2 DEF Late
  <2>3. QED BY <2>1, <2>2 DEF Late
<1>4. Late(t, -1) <=> Late(t, p)
  BY <1>1, <1>i DEF Late
<1>5. ASSUME NEW i \in 1..Tip' PROVE Late(t, i)' <=> Late(t, i + p)
  <2>1. ASSUME Late(t, i)', NEW k \in Positions, k > i + p, IsFrame(t, k, "start") PROVE FALSE
    <3>1. k - p > i
      BY <1>i, <2>1
    <3>2. QED BY <1>1, <2>1, <3>1 DEF Late
  <2>2. ASSUME Late(t, i + p), NEW k \in Positions', k > i, IsFrame(t, k, "start")' PROVE FALSE
    <3>1. k + p > i + p
      BY <1>i, <2>2
    <3>2. QED BY <1>2, <2>2, <3>1 DEF Late
  <2>3. QED BY <2>1, <2>2 DEF Late
<1>6. QED BY <1>3, <1>4, <1>5

-----------------------------------------------------------------------------
(* What the cap leaves of the history.                                     *)

LEMMA ShortIsWhole ==
  ASSUME NEW S, NEW s \in Seq(S), Len(s) <= Cap
  PROVE  LastCap(s) = s
<1>1. Cap \in Nat /\ Len(s) \in Nat
  BY CatchupAssumption
<1>2. Smaller(Cap, Len(s)) = Len(s)
  BY <1>1 DEF Smaller
<1>3. LastCap(s) \in Seq(S) /\ Len(LastCap(s)) = Len(s)
      /\ \A i \in 1..Len(s) : LastCap(s)[i] = s[i + (Len(s) - Len(s))]
  BY <1>2, LastCapFacts
<1>4. \A i \in 1..Len(s) : i + (Len(s) - Len(s)) = i
  BY <1>1
<1>5. QED BY <1>3, <1>4

(* No more buckets than have closed, if none is there twice.               *)
LEMMA InjectiveIsShort ==
  ASSUME NEW t, closed[t] \in Nat, NEW s \in Own(t), IsInjective(s), IsPast(t, s)
  PROVE  Len(s) <= closed[t]
<1> DEFINE c == closed[t]
           f == [e \in 1..Len(s) |-> s[e][2]]
<1>1. Len(s) \in Nat /\ DOMAIN s = 1..Len(s) /\ \A e \in 1..Len(s) : s[e] = <<t, s[e][2]>> /\ s[e][2] \in 1..c
  <2>1. Len(s) \in Nat /\ DOMAIN s = 1..Len(s)
    BY DEF Own
  <2>2. \A e \in 1..Len(s) : s[e] \in {t} \X (1..c)
    BY <2>1 DEF IsPast
  <2>3. QED BY <2>1, <2>2
<1>2. f \in [1..Len(s) -> 1..c]
  BY <1>1
<1>3. ASSUME NEW x \in 1..Len(s), NEW y \in 1..Len(s), x # y PROVE f[x] # f[y]
  <2>1. s[x] # s[y]
    BY <1>1, <1>3 DEF IsInjective
  <2>2. QED BY <1>1, <2>1
<1> HIDE DEF f
<1>4. /\ IsFiniteSet(1..Len(s)) /\ Cardinality(1..Len(s)) = Len(s)
      /\ IsFiniteSet(1..c) /\ Cardinality(1..c) = c
  <2>1. IsFiniteSet(1..Len(s)) /\ Cardinality(1..Len(s)) = IF 1 > Len(s) THEN 0 ELSE Len(s) - 1 + 1
    <3>1. 1 \in Int /\ Len(s) \in Int
      BY <1>1
    <3>2. QED BY <3>1, FS_Interval
  <2>2. IsFiniteSet(1..c) /\ Cardinality(1..c) = IF 1 > c THEN 0 ELSE c - 1 + 1
    <3>1. 1 \in Int /\ c \in Int
      OBVIOUS
    <3> HIDE DEF c
    <3>2. QED BY <3>1, FS_Interval
  <2>3. QED BY <1>1, <2>1, <2>2
<1>5. ~(Cardinality(1..c) < Cardinality(1..Len(s)))
  BY <1>2, <1>3, <1>4, FS_PigeonHole
<1>6. QED BY <1>1, <1>4, <1>5

LEMMA ConcatIsPast ==
  ASSUME NEW t, NEW s \in Own(t), NEW u \in Own(t), IsPast(t, s), IsPast(t, u)
  PROVE  IsPast(t, s \o u)
<1>1. /\ s \in Seq({t} \X Nat) /\ u \in Seq({t} \X Nat)
      /\ Len(s) \in Nat /\ Len(u) \in Nat
      /\ DOMAIN s = 1..Len(s) /\ DOMAIN u = 1..Len(u)
  BY DEF Own
<1>2. DOMAIN (s \o u) = 1..(Len(s) + Len(u))
  BY <1>1
<1>3. ASSUME NEW e \in DOMAIN (s \o u) PROVE (s \o u)[e] \in {t} \X (1..closed[t])
  <2>1. CASE e <= Len(s)
    <3>1. e \in DOMAIN s /\ (s \o u)[e] = s[e]
      BY <1>1, <1>2, <2>1
    <3>2. QED BY <3>1 DEF IsPast
  <2>2. CASE e > Len(s)
    <3>1. e - Len(s) \in DOMAIN u /\ (s \o u)[e] = u[e - Len(s)]
      BY <1>1, <1>2, <2>2
    <3>2. QED BY <3>1 DEF IsPast
  <2>3. QED BY <1>1, <1>2, <2>1, <2>2
<1>4. QED BY <1>3 DEF IsPast

LEMMA CappedIsPast ==
  ASSUME NEW t, NEW s \in Own(t), IsPast(t, s)
  PROVE  IsPast(t, LastCap(s))
<1>1. s \in Seq({t} \X Nat) /\ DOMAIN s = 1..Len(s)
  BY DEF Own
<1>2. DOMAIN LastCap(s) = 1..Len(LastCap(s))
  BY <1>1, LastCapFacts
<1>3. ASSUME NEW e \in 1..Len(LastCap(s)) PROVE LastCap(s)[e] \in {t} \X (1..closed[t])
  <2>1. PICK d \in 1..Len(s) : LastCap(s)[e] = s[d]
    BY <1>1, LastCapFacts
  <2>2. QED BY <1>1, <2>1 DEF IsPast
<1>4. QED BY <1>2, <1>3 DEF IsPast

(* The last bucket of a run has closed.                                    *)
LEMMA RunEnds ==
  ASSUME NEW t, closed[t] \in Nat, NEW s \in Own(t), NEW base \in Nat, RunFrom(base, t, s),
         IsPast(t, s), s # <<>>
  PROVE  base + Len(s) <= closed[t]
<1>1. Len(s) \in Nat /\ DOMAIN s = 1..Len(s) /\ Len(s) > 0
  BY DEF Own
<1>2. s[Len(s)] = <<t, base + Len(s)>>
  BY <1>1 DEF RunFrom
<1>3. QED BY <1>1, <1>2 DEF IsPast

-----------------------------------------------------------------------------
(* Where what is on the line after a merge was before.                     *)
LEMMA MergedSource ==
  ASSUME Types, Types', NEW t, NEW p, NEW b, Merges(t, p, b), history \in Own(t),
         NEW i \in Positions', NEW n \in Nat, Has(t, i, n)'
  PROVE  \E a \in Positions :
             /\ Has(t, a, n) /\ (Late(t, i)' <=> Late(t, a))
             /\ (i = -1 /\ a \in {-1, p}) \/ (i \in 1..Tip' /\ a = i + p)
<1>1. i # 0
  BY DEF Merges
<1>2. CASE i = -1
  <2>1. PICK a \in {-1, p} : Has(t, a, n)
    BY <1>2, MergedHistory
  <2>2. a \in Positions /\ (Late(t, -1)' <=> Late(t, a))
    BY MergedParts, MergedIsLate
  <2>3. QED BY <1>2, <2>1, <2>2
<1>3. CASE i \in 1..Tip'
  <2>1. Has(t, i, n)' <=> Has(t, i + p, n)
    BY <1>3 DEF Merges
  <2>2. i + p \in Positions /\ (Late(t, i)' <=> Late(t, i + p))
    BY <1>3, MergedParts, MergedIsLate
  <2>3. QED BY <1>3, <2>1, <2>2
<1>4. QED BY <1>1, <1>2, <1>3, MergedParts

(* What was on the line beyond what was merged stays on it.                *)
LEMMA MergedKeeps ==
  ASSUME Types, Types', NEW t, NEW p, NEW b, Merges(t, p, b), history \in Own(t),
         NEW a \in Positions, NEW n \in Nat, Has(t, a, n), Late(t, a)
  PROVE  \/ a \in {-1, p} /\ Late(t, -1) /\ In(<<t, n>>, history \o b)
         \/ a > p /\ \E i \in Positions' : Late(t, i)' /\ Has(t, i, n)'
<1>1. CASE a > p
  <2>1. a - p \in 1..Tip' /\ (a - p) + p = a /\ 1..Tip' \subseteq Positions'
    BY <1>1, MergedParts
  <2>2. Has(t, a - p, n)' <=> Has(t, (a - p) + p, n)
    BY <2>1 DEF Merges
  <2>3. Late(t, a - p)' <=> Late(t, (a - p) + p)
    BY <2>1, MergedIsLate
  <2>4. QED BY <1>1, <2>1, <2>2, <2>3
<1>2. CASE a = -1 \/ a = p
  <2>1. Late(t, -1)
    BY <1>2, MergedIsLate
  <2>2. In(<<t, n>>, history) \/ In(<<t, n>>, b)
    <3>1. CASE a = -1
      BY <3>1, MergedHistory
    <3>2. CASE a = p
      BY <3>2 DEF Merges
    <3>3. QED BY <1>2, <3>1, <3>2
  <2>3. QED BY <1>2, <2>1, <2>2, MergedHistory
<1>3. CASE a = 0 /\ p = 1
  BY <1>3 DEF Merges
<1>4. QED BY <1>1, <1>2, <1>3, MergedParts

(* In a line in order and without gaps, what is applied continues the      *)
(* history.                                                                *)
LEMMA MergedRun ==
  ASSUME Types, Types', FramesAreSound, NEW t, NEW p, NEW b, Merges(t, p, b),
         history \in Own(t), closed[t] \in Nat, Ordered(t), Gapless(t), Late(t, -1)
  PROVE  \E base \in Nat : RunFrom(base, t, history \o b)
<1>1. PICK h \in Nat : RunFrom(h, t, history)
  BY DEF Gapless, IsRun
<1>2. PICK c \in Nat : RunFrom(c, t, b)
  BY DEF Merges, IsRun
<1>3. /\ b \in Own(t) /\ Len(history) \in Nat /\ Len(b) \in Nat
      /\ history \in Seq({t} \X Nat) /\ b \in Seq({t} \X Nat)
  BY DEF Own, Merges
<1>4. CASE history = <<>>
  <2>1. history \o b = b
    BY <1>3, <1>4
  <2>2. QED BY <1>2, <2>1
<1>5. CASE b = <<>>
  <2>1. history \o b = history
    BY <1>3, <1>5
  <2>2. QED BY <1>1, <2>1
<1>6. CASE history # <<>> /\ b # <<>>
  <2> DEFINE l == h + Len(history)
  <2>1. l \in Nat /\ Len(history) > 0 /\ Len(b) > 0 /\ l + 1 \in Nat /\ c + 1 \in Nat
    BY <1>3, <1>6
  <2>2. \A n \in Nat : Has(t, -1, n) <=> h < n /\ n <= l
    BY <1>1, RunHas, MergedHistory
  <2>3. \A n \in Nat : Has(t, p, n) <=> c < n /\ n <= c + Len(b)
    <3>1. \A n \in Nat : In(<<t, n>>, b) <=> c < n /\ n <= c + Len(b)
      BY <1>2, <1>3, RunHas
    <3>2. QED BY <3>1 DEF Merges
  <2> HIDE DEF l
  <2>4. Has(t, -1, l)
    <3>1. h < l
      BY <1>3, <1>6, <2>1 DEF l
    <3>2. QED BY <2>1, <2>2, <3>1
  <2>5. Has(t, p, c + 1)
    BY <2>1, <2>3
  <2>6. l \in 1..closed[t] /\ c + 1 \in 1..closed[t]
    BY <2>4, <2>5, HasPast
  <2>7. -1 \in Positions /\ p \in Positions /\ -1 < p /\ p \in Int
    <3>1. -1 < p
      BY DEF Merges
    <3>2. QED BY <3>1, MergedParts
  <2>8. l < c + 1
    BY <2>4, <2>5, <2>6, <2>7 DEF Ordered
  <2>9. l + 1 \in 1..closed[t] /\ l <= l + 1
    BY <2>1, <2>6, <2>8
  <2>10. PICK j \in Positions : Late(t, j) /\ Has(t, j, l + 1)
    BY <2>4, <2>6, <2>7, <2>9 DEF Gapless
  <2>11. j # -1
    BY <2>1, <2>2, <2>10
  <2>12. ~(j = 0 /\ p = 1)
    BY <2>1, <2>10 DEF Merges
  <2>13. ~(j > p)
    <3>1. ASSUME j > p PROVE c + 1 < l + 1
      <4>1. Late(t, p)
        BY MergedIsLate
      <4>2. QED BY <2>5, <2>6, <2>7, <2>9, <2>10, <3>1, <4>1 DEF Ordered
    <3>2. QED BY <2>1, <2>8, <3>1
  <2>14. j = p
    BY <2>11, <2>12, <2>13, MergedParts
  <2>15. c = l
    <3>1. c < l + 1
      BY <2>1, <2>3, <2>10, <2>14
    <3>2. QED BY <2>1, <2>8, <3>1
  <2>16. QED BY <1>1, <1>2, <1>3, <2>15, RunGoesOn DEF l
<1>7. QED BY <1>4, <1>5, <1>6

(* What was applied and not cut off is in the history.                     *)
LEMMA CapKeeps ==
  ASSUME Types, Types', FramesAreSound, NEW t, NEW p, NEW b, Merges(t, p, b),
         history \in Own(t), closed[t] \in Nat, Late(t, -1),
         IsInjective(history \o b), IsPast(t, history \o b),
         NEW n \in Nat, In(<<t, n>>, history \o b), n + Cap > closed[t],
         closed[t] <= Cap \/ (Ordered(t) /\ Gapless(t))
  PROVE  In(<<t, n>>, history')
<1> DEFINE all == history \o b
<1>0. all \in Own(t)
  BY MergedParts
<1>1. all \in Own(t) /\ all \in Seq({t} \X Nat) /\ Len(all) \in Nat /\ Cap \in Nat
  BY <1>0, CatchupAssumption DEF Own
<1>2. history' = all \/ history' = LastCap(all)
  BY DEF Merges
<1> HIDE DEF all
<1>3. CASE closed[t] <= Cap
  <2>1. Len(all) <= closed[t]
    BY <1>1, InjectiveIsShort DEF all
  <2>2. Len(all) <= Cap
    BY <1>1, <1>3, <2>1
  <2>3. LastCap(all) = all
    BY <1>1, <2>2, ShortIsWhole
  <2>4. QED BY <1>2, <2>3 DEF all
<1>4. CASE Ordered(t) /\ Gapless(t)
  <2>1. PICK base \in Nat : RunFrom(base, t, all)
    BY <1>4, MergedRun DEF all
  <2>2. base < n /\ n <= base + Len(all)
    BY <1>1, <2>1, RunHas DEF all
  <2>3. base + Len(all) <= closed[t]
    <3>1. all # <<>>
      BY InEmpty DEF all
    <3>2. QED BY <1>1, <2>1, <3>1, RunEnds DEF all
  <2> DEFINE k == Smaller(Cap, Len(all))
             d == Len(all) - k
  <2>4. LastCap(all) \in Own(t) /\ Len(LastCap(all)) = k
        /\ RunFrom(base + d, t, LastCap(all)) /\ k \in 0..Len(all)
    BY <1>1, <2>1, CappedRun
  <2>5. k = Cap \/ k = Len(all)
    BY DEF Smaller
  <2> HIDE DEF k
  <2>6. d \in Nat /\ base + d \in Nat /\ base + d < n /\ n <= (base + d) + k
    BY <1>1, <2>2, <2>3, <2>4, <2>5
  <2> HIDE DEF d
  <2>7. In(<<t, n>>, LastCap(all))
    BY <2>4, <2>6, RunHas
  <2>8. QED BY <1>2, <2>7 DEF all
<1>5. QED BY <1>3, <1>4

(* The history after a merge in a line without gaps: a run, which a cut    *)
(* shortens at its beginning.                                              *)
LEMMA MergedRunIsRun ==
  ASSUME Types, Types', FramesAreSound, NEW t, NEW p, NEW b, Merges(t, p, b),
         history \in Own(t), closed[t] \in Nat, Ordered(t), Gapless(t), Late(t, -1)
  PROVE  /\ IsRun(t, history')
         /\ \A n, k \in Nat : In(<<t, n>>, history') /\ n <= k /\ In(<<t, k>>, history \o b) =>
                In(<<t, k>>, history')
<1> DEFINE all == history \o b
<1>0. all \in Own(t)
  BY MergedParts
<1>1. all \in Own(t) /\ Len(all) \in Nat
  BY <1>0 DEF Own
<1>2. history' = all \/ history' = LastCap(all)
  BY DEF Merges
<1>3. PICK base \in Nat : RunFrom(base, t, all)
  BY MergedRun
<1> HIDE DEF all
<1>4. CASE history' = all
  BY <1>3, <1>4 DEF IsRun, all
<1>5. CASE history' = LastCap(all)
  <2> DEFINE l == Smaller(Cap, Len(all))
             d == Len(all) - l
  <2>1. LastCap(all) \in Own(t) /\ Len(LastCap(all)) = l
        /\ RunFrom(base + d, t, LastCap(all)) /\ l \in 0..Len(all)
    BY <1>1, <1>3, CappedRun
  <2> HIDE DEF l
  <2>2. d \in Nat /\ base + d \in Nat /\ (base + d) + l = base + Len(all)
    BY <1>1, <2>1
  <2> HIDE DEF d
  <2>3. IsRun(t, history')
    BY <1>5, <2>1, <2>2 DEF IsRun
  <2>4. ASSUME NEW n \in Nat, NEW k \in Nat, In(<<t, n>>, history'), n <= k, In(<<t, k>>, all)
        PROVE  In(<<t, k>>, history')
    <3>1. base + d < n
      BY <1>5, <2>1, <2>2, <2>4, RunHas
    <3>2. k <= base + Len(all)
      BY <1>1, <1>3, <2>4, RunHas
    <3>3. base + d < k /\ k <= (base + d) + l
      BY <1>1, <2>2, <3>1, <3>2, <2>4
    <3>4. QED BY <1>5, <2>1, <2>2, <3>3, RunHas
  <2>5. QED BY <2>3, <2>4 DEF all
<1>6. QED BY <1>2, <1>4, <1>5

LEMMA MergedDownload ==
  ASSUME Types, Types', FramesAreSound, NEW t, NEW p, NEW b, Merges(t, p, b),
         history \in Own(t), IsPast(t, history), IsPast(t, b),
         Download(t), closed[t] \in Nat, closed' = closed, live' = live, tasks' = tasks
  PROVE  Download(t)'
<1>m. /\ p \in {0, 1} /\ p \in Int /\ 1..Tip' \subseteq Positions' /\ -1 \in Positions' /\ -1 \in Positions
      /\ p \in Positions
      /\ \A i \in Positions : i \in Int /\ (i = -1 \/ i = p \/ i > p \/ (i = 0 /\ p = 1))
      /\ \A i \in Positions' : i \in Int /\ i >= -1 /\ (i = -1 \/ i = 0 \/ i \in 1..Tip')
      /\ \A i \in 1..Tip' : i \in Int /\ i + p \in Positions /\ i + p > p
      /\ \A i \in Positions : i > p => i - p \in 1..Tip' /\ (i - p) + p = i
  <2>1. p \in {0, 1} /\ \A i \in Positions : i \in Int
    BY PositionsAre DEF Merges
  <2>2. \A i \in Positions' : i \in Int /\ i >= -1
    BY PositionsNextAre
  <2>3. QED BY <2>1, <2>2, MergedParts
<1>s. \A i \in Positions', n \in Nat : Has(t, i, n)' =>
          \E a \in Positions :
             /\ Has(t, a, n) /\ (Late(t, i)' <=> Late(t, a))
             /\ (i = -1 /\ a \in {-1, p}) \/ (i \in 1..Tip' /\ a = i + p)
  BY MergedSource
<1>n. 1..closed'[t] = 1..closed[t] /\ \A n \in 1..closed[t] : n \in Nat
  OBVIOUS
<1>a. IsPast(t, history \o b)
  BY ConcatIsPast DEF Merges
<1>i. Late(t, -1) => IsInjective(history \o b) /\ IsInjective(history')
  <2> SUFFICES ASSUME Late(t, -1) PROVE IsInjective(history \o b) /\ IsInjective(history')
    OBVIOUS
  <2>1. IsInjective(history)
    BY DEF Download, Apart
  <2>2. ASSUME NEW n \in Nat, Has(t, -1, n), Has(t, p, n) PROVE FALSE
    <3>1. n \in 1..closed[t]
      BY <2>2, HasPast
    <3>2. QED BY <1>m, <2>2, <3>1 DEF Download, Apart
  <2>3. QED BY <2>1, <2>2, MergedIsInjective
<1>1. Apart(t)'
  <2>1. ASSUME NEW i \in Positions', NEW j \in Positions', NEW n \in 1..closed'[t],
               i < j, Late(t, i)', Has(t, i, n)', Has(t, j, n)'
        PROVE  FALSE
    <3>1. PICK x \in Positions : /\ Has(t, x, n) /\ (Late(t, i)' <=> Late(t, x))
                                 /\ (i = -1 /\ x \in {-1, p}) \/ (i \in 1..Tip' /\ x = i + p)
      BY <1>n, <1>s, <2>1
    <3>2. PICK y \in Positions : /\ Has(t, y, n) /\ (Late(t, j)' <=> Late(t, y))
                                 /\ (j = -1 /\ y \in {-1, p}) \/ (j \in 1..Tip' /\ y = j + p)
      BY <1>n, <1>s, <2>1
    <3>3. x < y
      BY <1>m, <2>1, <3>1, <3>2
    <3>4. QED BY <1>n, <2>1, <3>1, <3>2, <3>3 DEF Download, Apart
  <2>2. QED BY <1>i, <2>1, MergedIsLate DEF Apart
<1>2. Ordered(t) => Ordered(t)'
  <2> SUFFICES ASSUME Ordered(t), NEW i \in Positions', NEW j \in Positions',
                      NEW n \in 1..closed'[t], NEW k \in 1..closed'[t],
                      i < j, Late(t, i)', Has(t, i, n)', Has(t, j, k)'
               PROVE  n < k
    BY DEF Ordered
  <2>1. PICK x \in Positions : /\ Has(t, x, n) /\ (Late(t, i)' <=> Late(t, x))
                               /\ (i = -1 /\ x \in {-1, p}) \/ (i \in 1..Tip' /\ x = i + p)
    BY <1>n, <1>s
  <2>2. PICK y \in Positions : /\ Has(t, y, k) /\ (Late(t, j)' <=> Late(t, y))
                               /\ (j = -1 /\ y \in {-1, p}) \/ (j \in 1..Tip' /\ y = j + p)
    BY <1>n, <1>s
  <2>3. x < y
    BY <1>m, <2>1, <2>2
  <2>4. QED BY <1>n, <2>1, <2>2, <2>3 DEF Ordered
<1>3. Covers(t) /\ (closed[t] <= Cap \/ (Ordered(t) /\ Gapless(t))) => Covers(t)'
  <2> SUFFICES ASSUME Covers(t), closed[t] <= Cap \/ (Ordered(t) /\ Gapless(t)),
                      NEW n \in 1..closed[t], n + Cap > closed[t]
               PROVE  \E i \in Positions' : Late(t, i)' /\ Has(t, i, n)'
    BY <1>n DEF Covers
  <2>1. PICK a \in Positions : Late(t, a) /\ Has(t, a, n)
    BY DEF Covers
  <2>2. CASE a \in {-1, p} /\ Late(t, -1) /\ In(<<t, n>>, history \o b)
    <3>1. In(<<t, n>>, history')
      BY <1>a, <1>i, <2>2, CapKeeps
    <3>2. Has(t, -1, n)'
      BY <3>1, MergedHistory
    <3>3. QED BY <1>m, <2>2, <3>2, MergedIsLate
  <2>3. QED BY <2>1, <2>2, MergedKeeps
<1>4. Ordered(t) /\ Gapless(t) => Gapless(t)'
  <2> SUFFICES ASSUME Ordered(t), Gapless(t) PROVE Gapless(t)'
    OBVIOUS
  <2>1. Late(t, -1)' => IsRun(t, history')
    BY MergedIsLate, MergedRunIsRun
  <2>2. ASSUME NEW i \in Positions', NEW n \in 1..closed[t], NEW k \in 1..closed[t],
               Late(t, i)', Has(t, i, n)', n <= k
        PROVE  \E j \in Positions' : Late(t, j)' /\ Has(t, j, k)'
    <3>1. PICK x \in Positions : /\ Has(t, x, n) /\ (Late(t, i)' <=> Late(t, x))
                                 /\ (i = -1 /\ x \in {-1, p}) \/ (i \in 1..Tip' /\ x = i + p)
      BY <1>n, <1>s, <2>2
    <3>2. PICK y \in Positions : Late(t, y) /\ Has(t, y, k)
      BY <2>2, <3>1 DEF Gapless
    <3>3. CASE y \in {-1, p} /\ Late(t, -1) /\ In(<<t, k>>, history \o b)
      <4>1. i = -1
        <5>1. ASSUME i \in 1..Tip', x = i + p PROVE FALSE
          <6>1. y < x
            BY <1>m, <3>3, <5>1
          <6>2. k < n
            BY <2>2, <3>1, <3>2, <6>1 DEF Ordered
          <6>3. QED BY <2>2, <6>2
        <5>2. QED BY <3>1, <5>1
      <4>2. In(<<t, n>>, history')
        BY <1>n, <2>2, <4>1, MergedHistory
      <4>3. In(<<t, k>>, history')
        BY <1>n, <2>2, <3>3, <4>2, MergedRunIsRun
      <4>4. Has(t, -1, k)'
        BY <1>n, <4>3, MergedHistory
      <4>5. QED BY <1>m, <3>3, <4>4, MergedIsLate
    <3>4. QED BY <1>n, <3>2, <3>3, MergedKeeps
  <2>3. QED BY <1>n, <2>1, <2>2 DEF Gapless, IsRun, RunFrom
<1>5. Ends(t)'
  <2> SUFFICES ASSUME \A q \in DOMAIN tasks : tasks[q].tf # t
               PROVE  /\ \A i \in Positions' : Late(t, i)' /\ IsFrame(t, i, "chunk")' =>
                             \E j \in Positions' : j > i /\ IsFrame(t, j, "end")'
                      /\ Late(t, -1)' /\ (\A j \in Positions' : ~IsFrame(t, j, "end")') =>
                             Len(history') <= Cap
    BY DEF Ends
  <2>1. /\ \A i \in Positions : Late(t, i) /\ IsFrame(t, i, "chunk") =>
               \E j \in Positions : j > i /\ IsFrame(t, j, "end")
        /\ Late(t, -1) /\ (\A j \in Positions : ~IsFrame(t, j, "end")) => Len(history) <= Cap
    BY DEF Download, Ends
  <2>f. \A j \in Positions : \A kind : j > p /\ IsFrame(t, j, kind) =>
            j - p \in 1..Tip' /\ (j - p) + p = j /\ IsFrame(t, j - p, kind)'
    <3> SUFFICES ASSUME NEW j \in Positions, NEW kind, j > p, IsFrame(t, j, kind)
                 PROVE  j - p \in 1..Tip' /\ (j - p) + p = j /\ IsFrame(t, j - p, kind)'
      OBVIOUS
    <3>1. j - p \in 1..Tip' /\ (j - p) + p = j
      BY <1>m
    <3>2. IsFrame(t, j - p, kind)' <=> IsFrame(t, (j - p) + p, kind)
      BY <3>1 DEF Merges
    <3>3. QED BY <3>1, <3>2
  <2>2. ASSUME NEW i \in Positions', Late(t, i)', IsFrame(t, i, "chunk")'
        PROVE  \E j \in Positions' : j > i /\ IsFrame(t, j, "end")'
    <3>1. i \in 1..Tip'
      <4>1. i # -1
        BY <2>2, PositionsNextAre DEF IsFrame
      <4>2. i # 0
        BY <2>2 DEF Merges
      <4>3. QED BY <1>m, <4>1, <4>2
    <3>2. IsFrame(t, i + p, "chunk") /\ Late(t, i + p)
      <4>1. IsFrame(t, i, "chunk")' <=> IsFrame(t, i + p, "chunk")
        BY <3>1 DEF Merges
      <4>2. QED BY <2>2, <3>1, <4>1, MergedIsLate
    <3>3. PICK j \in Positions : j > i + p /\ IsFrame(t, j, "end")
      BY <1>m, <2>1, <3>1, <3>2
    <3>4. j > p /\ j - p > i
      BY <1>m, <3>1, <3>3
    <3>5. QED BY <1>m, <2>f, <3>3, <3>4
  <2>3. ASSUME Late(t, -1)', \A j \in Positions' : ~IsFrame(t, j, "end")'
        PROVE  Len(history') <= Cap
    <3>1. Late(t, -1) /\ Late(t, p)
      BY <2>3, MergedIsLate
    <3>2. CASE history' = LastCap(history \o b)
      <4>1. history \o b \in Seq({t} \X Nat) /\ Len(history \o b) \in Nat /\ Cap \in Nat
        <5>1. history \o b \in Own(t)
          BY MergedParts
        <5>2. QED BY <5>1, CatchupAssumption DEF Own
      <4>2. Len(history') = Smaller(Cap, Len(history \o b))
        BY <3>2, <4>1, LastCapFacts
      <4>3. QED BY <4>1, <4>2 DEF Smaller
    <3>3. CASE IsFrame(t, p, "chunk")
      <4>1. PICK j \in Positions : j > p /\ IsFrame(t, j, "end")
        BY <1>m, <2>1, <3>1, <3>3
      <4>2. QED BY <1>m, <2>3, <2>f, <4>1
    <3>4. QED BY <3>2, <3>3 DEF Merges
  <2>4. QED BY <2>2, <2>3
<1>6. QED BY <1>1, <1>2, <1>3, <1>4, <1>5 DEF Download

-----------------------------------------------------------------------------
(* What the daemon sends is appended to the queue.                         *)
LEMMA QueuedParts ==
  ASSUME queue \in Seq(OwnFrame), Len(queue) <= QueueMax, NEW frames \in Seq(OwnFrame)
  PROVE  \E k \in 0..Len(frames) :
             /\ Queued(frames) \in Seq(OwnFrame) /\ Len(Queued(frames)) = Len(queue) + k
             /\ \A i \in 1..Len(queue) : Queued(frames)[i] = queue[i]
             /\ \A e \in 1..k : Queued(frames)[Len(queue) + e] = frames[e]
             /\ ~Overflows(frames) => k = Len(frames)
<1>1. /\ QueueMax \in Nat /\ Len(queue) \in Nat /\ Len(frames) \in Nat
      /\ Room \in Nat /\ Len(queue) + Room = QueueMax
  BY CatchupAssumption DEF Room
<1> DEFINE k == Smaller(Room, Len(frames))
           sent == SubSeq(frames, 1, k)
<1>2. k \in 0..Len(frames)
  BY <1>1 DEF Smaller
<1>3. ~Overflows(frames) => k = Len(frames)
  BY <1>1 DEF Smaller, Overflows
<1>4. Queued(frames) = queue \o sent
  BY DEF Queued
<1> HIDE DEF k
<1>5. sent \in Seq(OwnFrame) /\ Len(sent) = k /\ \A e \in 1..k : sent[e] = frames[e]
  BY <1>1, <1>2
<1> HIDE DEF sent
<1>6. /\ queue \o sent \in Seq(OwnFrame) /\ Len(queue \o sent) = Len(queue) + k
      /\ \A i \in 1..Len(queue) : (queue \o sent)[i] = queue[i]
  BY <1>1, <1>2, <1>5
<1>7. ASSUME NEW e \in 1..k PROVE (queue \o sent)[Len(queue) + e] = frames[e]
  <2>1. Len(queue) + e \in (Len(queue) + 1)..(Len(queue) + k) /\ (Len(queue) + e) - Len(queue) = e
    BY <1>1, <1>2
  <2>2. (queue \o sent)[Len(queue) + e] = sent[(Len(queue) + e) - Len(queue)]
    BY <1>1, <1>2, <1>5, <2>1
  <2>3. QED BY <1>5, <2>1, <2>2
<1>8. QED BY <1>2, <1>3, <1>4, <1>6, <1>7

(* The queue grows by k frames.                                            *)
GrowsBy(k) ==
    /\ UNCHANGED <<tf, history, held>>
    /\ Len(queue') = Len(queue) + k
    /\ \A i \in 1..Len(queue) : queue'[i] = queue[i]

(* Up to its tip the line is what it was.                                  *)
LEMMA GrownParts ==
  ASSUME Types, Types', NEW t, NEW k \in Nat, GrowsBy(k)
  PROVE  /\ Tip \in Nat /\ Tip >= 1 /\ Tip' = Tip + k
         /\ Positions = -1..Tip /\ Positions' = -1..(Tip + k)
         /\ \A i \in Positions : i < Tip => \A n : Has(t, i, n)' <=> Has(t, i, n)
         /\ \A i \in Positions : i < Tip => \A kind : IsFrame(t, i, kind)' <=> IsFrame(t, i, kind)
         /\ \A i \in Positions : i = Tip => \A n : Has(t, i, n) <=> Pending(t, n)
         /\ \A i \in Positions : i = Tip => \A kind : ~IsFrame(t, i, kind)
         /\ \A i \in Positions' : i = Tip + k => \A n : Has(t, i, n)' <=> Pending(t, n)'
         /\ \A i \in Positions' : i = Tip + k => \A kind : ~IsFrame(t, i, kind)'
         /\ \A i \in Tip..(Tip + k - 1) :
               /\ \A n : Has(t, i, n)' <=> queue'[i].tf = t /\ In(<<t, n>>, queue'[i].buckets)
               /\ \A kind : IsFrame(t, i, kind)' <=> queue'[i].tf = t /\ queue'[i].kind = kind
<1>1. /\ Tip \in Nat /\ Tip >= 1 /\ Tip = Len(queue) + 1 /\ Positions = -1..Tip
      /\ Len(queue') = Len(queue) + k /\ Tip' = Len(queue') + 1 /\ Positions' = -1..Tip'
      /\ Len(queue) \in Nat
  BY PositionsAre DEF GrowsBy, Tip, Positions
<1>2. Tip' = Tip + k
  BY <1>1
<1>3. ASSUME NEW i \in Positions, i < Tip, NEW n PROVE Has(t, i, n)' <=> Has(t, i, n)
  <2>1. i # Tip /\ i # Tip' /\ (i \in 1..Len(queue') <=> i \in 1..Len(queue))
    BY <1>1, <1>2, <1>3
  <2>2. QED BY <2>1 DEF GrowsBy, Has
<1>4. ASSUME NEW i \in Positions, i < Tip, NEW kind
      PROVE  IsFrame(t, i, kind)' <=> IsFrame(t, i, kind)
  <2>1. i \in 1..Len(queue') <=> i \in 1..Len(queue)
    BY <1>1, <1>2, <1>4
  <2>2. QED BY <2>1 DEF GrowsBy, IsFrame
<1>5. ASSUME NEW i \in Positions, i = Tip
      PROVE  /\ \A n : Has(t, i, n) <=> Pending(t, n)
             /\ \A kind : ~IsFrame(t, i, kind)
  <2>1. i # -1 /\ i # 0 /\ i \notin 1..Len(queue)
    BY <1>1, <1>5
  <2>2. QED BY <1>5, <2>1 DEF Has, IsFrame
<1>6. ASSUME NEW i \in Positions', i = Tip + k
      PROVE  /\ \A n : Has(t, i, n)' <=> Pending(t, n)'
             /\ \A kind : ~IsFrame(t, i, kind)'
  <2>1. i # -1 /\ i # 0 /\ i \notin 1..Len(queue') /\ i = Tip'
    BY <1>1, <1>2, <1>6
  <2>2. QED BY <2>1 DEF Has, IsFrame
<1>8. ASSUME NEW i \in Tip..(Tip + k - 1)
      PROVE  /\ \A n : Has(t, i, n)' <=> queue'[i].tf = t /\ In(<<t, n>>, queue'[i].buckets)
             /\ \A kind : IsFrame(t, i, kind)' <=> queue'[i].tf = t /\ queue'[i].kind = kind
  <2>1. i # -1 /\ i # 0 /\ i # Tip' /\ i \in 1..Len(queue')
    BY <1>1, <1>2
  <2>2. QED BY <2>1 DEF Has, IsFrame
<1>9. QED BY <1>1, <1>2, <1>3, <1>4, <1>5, <1>6, <1>8

(* Frames of another timeframe leave the line of t as it was.              *)
LEMMA SendMoves ==
  ASSUME Types, Types', NEW t, NEW k \in Nat, GrowsBy(k),
         \A i \in Tip..(Tip + k - 1) : queue'[i].tf # t,
         \A n \in Nat : Pending(t, n)' <=> Pending(t, n)
  PROVE  \E D, m : Moves(t, D, m) /\ MovesAll(t, D, m) /\ HistoryMoves(D, m)
<1>0. PICK D, m, tip : D = Positions /\ tip = Tip /\ m = [i \in D |-> IF i = tip THEN tip + k ELSE i]
  OBVIOUS
<1>p. /\ Tip \in Nat /\ Tip >= 1 /\ Tip' = Tip + k
      /\ Positions = -1..Tip /\ Positions' = -1..(Tip + k)
      /\ \A i \in Positions : i < Tip => \A n : Has(t, i, n)' <=> Has(t, i, n)
      /\ \A i \in Positions : i < Tip => \A kind : IsFrame(t, i, kind)' <=> IsFrame(t, i, kind)
      /\ \A i \in Positions : i = Tip => \A n : Has(t, i, n) <=> Pending(t, n)
      /\ \A i \in Positions : i = Tip => \A kind : ~IsFrame(t, i, kind)
      /\ \A i \in Positions' : i = Tip + k => \A n : Has(t, i, n)' <=> Pending(t, n)'
      /\ \A i \in Positions' : i = Tip + k => \A kind : ~IsFrame(t, i, kind)'
      /\ \A i \in Tip..(Tip + k - 1) :
            /\ \A n : Has(t, i, n)' <=> queue'[i].tf = t /\ In(<<t, n>>, queue'[i].buckets)
            /\ \A kind : IsFrame(t, i, kind)' <=> queue'[i].tf = t /\ queue'[i].kind = kind
  BY GrownParts
<1>g. /\ tip \in Nat /\ tip >= 1
      /\ D = -1..tip /\ Positions' = -1..(tip + k)
      /\ \A i \in D : i < tip => \A n : Has(t, i, n)' <=> Has(t, i, n)
      /\ \A i \in D : i < tip => \A kind : IsFrame(t, i, kind)' <=> IsFrame(t, i, kind)
      /\ \A i \in D : i = tip => \A n : Has(t, i, n) <=> Pending(t, n)
      /\ \A i \in D : i = tip => \A kind : ~IsFrame(t, i, kind)
      /\ \A i \in Positions' : i = tip + k => \A n : Has(t, i, n)' <=> Pending(t, n)'
      /\ \A i \in Positions' : i = tip + k => \A kind : ~IsFrame(t, i, kind)'
  BY <1>0, <1>p
<1>n. \A i \in tip..(tip + k - 1) :
          /\ \A n : ~Has(t, i, n)'
          /\ \A kind : ~IsFrame(t, i, kind)'
  BY <1>0, <1>p
<1>c. \A j \in Positions' : (j \in D /\ j < tip) \/ j \in tip..(tip + k - 1) \/ j = tip + k
  BY <1>g
<1>d. \A i \in D : i < tip \/ i = tip
  BY <1>g
<1>1. m \in [D -> Positions'] /\ \A i, j \in D : i < j <=> m[i] < m[j]
  BY <1>0, <1>g
<1>2. (\A i \in D : i < tip => m[i] = i) /\ m[tip] = tip + k /\ tip \in D /\ tip + k \in Positions'
  BY <1>0, <1>g
<1>3. -1 \in D /\ m[-1] = -1
  BY <1>0, <1>g
<1>4. ASSUME NEW i \in D, NEW kind PROVE IsFrame(t, m[i], kind)' <=> IsFrame(t, i, kind)
  BY <1>2, <1>d, <1>g
<1>5. ASSUME NEW j \in Positions', NEW n \in Nat, Has(t, j, n)'
      PROVE  \E i \in D : m[i] = j /\ Has(t, i, n)
  <2>1. CASE j \in D /\ j < tip
    BY <1>2, <1>5, <1>g, <2>1
  <2>2. CASE j = tip + k
    BY <1>2, <1>5, <1>g, <2>2
  <2>3. QED BY <1>5, <1>c, <1>n, <2>1, <2>2
<1>6. Moves(t, D, m)
  BY <1>0, <1>1, <1>4, <1>5 DEF Moves
<1>7. ASSUME NEW i \in D, NEW n \in Nat, Has(t, i, n) PROVE Has(t, m[i], n)'
  <2>1. CASE i < tip
    BY <1>2, <1>7, <1>g, <2>1
  <2>2. CASE i = tip
    BY <1>2, <1>7, <1>g, <2>2
  <2>3. QED BY <1>d, <2>1, <2>2
<1>8. ASSUME NEW j \in Positions', NEW kind, IsFrame(t, j, kind)' PROVE \E i \in D : m[i] = j
  BY <1>2, <1>8, <1>c, <1>g, <1>n
<1>9. MovesAll(t, D, m)
  BY <1>0, <1>7, <1>8 DEF MovesAll
<1>10. HistoryMoves(D, m)
  BY <1>3 DEF HistoryMoves, GrowsBy
<1>11. QED BY <1>6, <1>9, <1>10

-----------------------------------------------------------------------------
(* The terminal takes the first frame: the positions of the queue move up. *)
LEMMA ShiftParts ==
  ASSUME Types, Types', Receive, NEW t
  PROVE  /\ Tip \in Nat /\ Tip >= 2 /\ Tip' = Tip - 1 /\ Positions = -1..Tip /\ Positions' = -1..(Tip - 1)
         /\ \A n : ~Has(t, 0, n)
         /\ \A kind : ~IsFrame(t, 0, kind) /\ ~IsFrame(t, -1, kind) /\ ~IsFrame(t, -1, kind)'
         /\ \A n : Has(t, 1, n) <=> Head(queue).tf = t /\ In(<<t, n>>, Head(queue).buckets)
         /\ \A kind : IsFrame(t, 1, kind) <=> Head(queue).tf = t /\ Head(queue).kind = kind
         /\ \A i \in 1..(Tip - 1) : \A n : Has(t, i, n)' <=> Has(t, i + 1, n)
         /\ \A i \in 1..(Tip - 1) : \A kind : IsFrame(t, i, kind)' <=> IsFrame(t, i + 1, kind)
         /\ \A n : Has(t, -1, n) <=> tf = t /\ In(<<t, n>>, history)
         /\ \A n : Has(t, -1, n)' <=> tf = t /\ In(<<t, n>>, history')
         /\ held' = None => /\ \A n : ~Has(t, 0, n)'
                            /\ \A kind : ~IsFrame(t, 0, kind)'
         /\ held' = Head(queue) /\ held' # None =>
               /\ \A n : Has(t, 0, n)' <=> Has(t, 1, n)
               /\ \A kind : IsFrame(t, 0, kind)' <=> IsFrame(t, 1, kind)
<1>1. /\ queue \in Seq(OwnFrame) /\ queue # <<>> /\ queue' = Tail(queue) /\ held = None
      /\ tf' = tf /\ tasks' = tasks
  BY DEF Types, WireTypes, Receive, Receiving, daemon
<1>2. /\ Len(queue) \in Nat /\ Len(queue) >= 1 /\ Len(queue') = Len(queue) - 1
      /\ Head(queue) = queue[1] /\ \A i \in 1..(Len(queue) - 1) : queue'[i] = queue[i + 1]
  BY <1>1
<1>3. /\ Tip \in Nat /\ Tip >= 2 /\ Tip' = Tip - 1 /\ Positions = -1..Tip /\ Positions' = -1..(Tip - 1)
      /\ Tip = Len(queue) + 1 /\ Tip' = Len(queue') + 1
  BY <1>2 DEF Tip, Positions
<1>4. \A n : ~Has(t, 0, n)
  BY <1>1, <1>3 DEF Has
<1>5. \A kind : ~IsFrame(t, 0, kind) /\ ~IsFrame(t, -1, kind) /\ ~IsFrame(t, -1, kind)'
  BY <1>1, <1>3 DEF IsFrame
<1>6. /\ \A n : Has(t, 1, n) <=> Head(queue).tf = t /\ In(<<t, n>>, Head(queue).buckets)
      /\ \A kind : IsFrame(t, 1, kind) <=> Head(queue).tf = t /\ Head(queue).kind = kind
  BY <1>2, <1>3 DEF Has, IsFrame
<1>7. ASSUME NEW i \in 1..(Tip - 1)
      PROVE  /\ \A n : Has(t, i, n)' <=> Has(t, i + 1, n)
             /\ \A kind : IsFrame(t, i, kind)' <=> IsFrame(t, i + 1, kind)
  <2>1. CASE i = Tip - 1
    <3>1. /\ i # -1 /\ i # 0 /\ i \notin 1..Len(queue') /\ i = Tip'
          /\ i + 1 # -1 /\ i + 1 # 0 /\ i + 1 \notin 1..Len(queue) /\ i + 1 = Tip
      BY <1>2, <1>3, <2>1
    <3>2. \A n : Pending(t, n)' <=> Pending(t, n)
      BY <1>1 DEF Pending
    <3>3. QED BY <3>1, <3>2 DEF Has, IsFrame
  <2>2. CASE i # Tip - 1
    <3>1. /\ i # -1 /\ i # 0 /\ i \in 1..Len(queue') /\ i # Tip'
          /\ i + 1 # -1 /\ i + 1 # 0 /\ i + 1 \in 1..Len(queue) /\ i + 1 # Tip
          /\ queue'[i] = queue[i + 1]
      BY <1>2, <1>3, <2>2
    <3>2. QED BY <3>1 DEF Has, IsFrame
  <2>3. QED BY <2>1, <2>2
<1>8. /\ \A n : Has(t, -1, n) <=> tf = t /\ In(<<t, n>>, history)
      /\ \A n : Has(t, -1, n)' <=> tf = t /\ In(<<t, n>>, history')
  <2>1. -1 # Tip /\ -1 # Tip' /\ -1 \notin 1..Len(queue) /\ -1 \notin 1..Len(queue')
    BY <1>2, <1>3
  <2>2. QED BY <1>1, <2>1 DEF Has
<1>9. 0 # Tip' /\ 0 \notin 1..Len(queue')
  BY <1>2, <1>3
<1>10. held' = None => (\A n : ~Has(t, 0, n)') /\ \A kind : ~IsFrame(t, 0, kind)'
  BY <1>9 DEF Has, IsFrame
<1>11. ASSUME held' = Head(queue), held' # None
       PROVE  /\ \A n : Has(t, 0, n)' <=> Has(t, 1, n)
              /\ \A kind : IsFrame(t, 0, kind)' <=> IsFrame(t, 1, kind)
  <2>1. \A n : Has(t, 0, n)' <=> Head(queue).tf = t /\ In(<<t, n>>, Head(queue).buckets)
    BY <1>9, <1>11 DEF Has
  <2>2. \A kind : IsFrame(t, 0, kind)' <=> Head(queue).tf = t /\ Head(queue).kind = kind
    BY <1>9, <1>11 DEF IsFrame
  <2>3. QED BY <1>6, <2>1, <2>2
<1>12. QED BY <1>3, <1>4, <1>5, <1>6, <1>7, <1>8, <1>10, <1>11

(* A frame that is held, or dropped, or a close of another timeframe.      *)
LEMMA ReceiveMoves ==
  ASSUME Types, Types', Receive, NEW t,
         tf = t => history' = history,
         held' = Head(queue) \/ (held' = None /\ (t = Head(queue).tf => t # tf))
  PROVE  \E D, m : /\ Moves(t, D, m)
                   /\ held' = Head(queue) \/ t # Head(queue).tf => MovesAll(t, D, m)
                   /\ tf = t => HistoryMoves(D, m)
<1>0. PICK kept \in BOOLEAN : kept <=> held' = Head(queue) /\ held' # None
  OBVIOUS
<1>1. PICK D, m, tip : /\ tip = Tip /\ D = {i \in Positions : i # 0 /\ (i = 1 => kept)}
                       /\ m = [i \in D |-> IF i = -1 THEN -1 ELSE i - 1]
  OBVIOUS
<1>t. held' = Head(queue) => kept
  <2>1. Head(queue) \in OwnFrame
    BY FirstFrame DEF Types, Receive
  <2>2. Head(queue) # None
    BY <2>1, NoneIsNoFrame DEF OwnFrame
  <2>3. QED BY <1>0, <2>2
<1>g. /\ tip \in Nat /\ tip >= 2 /\ Positions = -1..tip /\ Positions' = -1..(tip - 1)
      /\ \A n : ~Has(t, 0, n)
      /\ \A kind : ~IsFrame(t, 0, kind) /\ ~IsFrame(t, -1, kind) /\ ~IsFrame(t, -1, kind)'
      /\ \A i \in 1..(tip - 1) : \A n : Has(t, i, n)' <=> Has(t, i + 1, n)
      /\ \A i \in 1..(tip - 1) : \A kind : IsFrame(t, i, kind)' <=> IsFrame(t, i + 1, kind)
  BY <1>1, ShiftParts
<1>h. /\ \A n : Has(t, -1, n)' <=> Has(t, -1, n)
      /\ t # tf => \A n : ~Has(t, -1, n)
  <2>1. /\ \A n : Has(t, -1, n) <=> tf = t /\ In(<<t, n>>, history)
        /\ \A n : Has(t, -1, n)' <=> tf = t /\ In(<<t, n>>, history')
    BY ShiftParts
  <2>2. QED BY <2>1
<1>k. /\ kept => (\A n : Has(t, 0, n)' <=> Has(t, 1, n)) /\ \A kind : IsFrame(t, 0, kind)' <=> IsFrame(t, 1, kind)
      /\ ~kept => (\A n : ~Has(t, 0, n)') /\ \A kind : ~IsFrame(t, 0, kind)'
      /\ t # Head(queue).tf => (\A n : ~Has(t, 1, n)) /\ \A kind : ~IsFrame(t, 1, kind)
  BY <1>0, <1>t, ShiftParts
<1>2. m \in [D -> Positions'] /\ \A i, j \in D : i < j <=> m[i] < m[j]
  BY <1>1, <1>g
<1>3. /\ D \subseteq Positions /\ -1 \in D /\ m[-1] = -1 /\ \A i \in D : i # -1 => m[i] = i - 1
      /\ (1 \in D <=> kept)
      /\ \A i \in Positions : i = -1 \/ i = 0 \/ (i = 1 /\ (i \in D <=> kept))
                                \/ (i \in D /\ i - 1 \in 1..(tip - 1) /\ (i - 1) + 1 = i)
      /\ \A i \in 1..(tip - 1) : i + 1 \in D /\ m[i + 1] = i
      /\ \A j \in Positions' : j = -1 \/ j = 0 \/ j \in 1..(tip - 1)
  BY <1>1, <1>g

<1>4. ASSUME NEW i \in D, NEW kind PROVE IsFrame(t, m[i], kind)' <=> IsFrame(t, i, kind)
  <2>1. CASE i = -1
    BY <1>3, <1>g, <2>1
  <2>2. CASE i = 1
    BY <1>3, <1>k, <2>2
  <2>3. CASE i # -1 /\ i # 1
    <3>1. i - 1 \in 1..(tip - 1) /\ (i - 1) + 1 = i /\ m[i] = i - 1
      BY <1>1, <1>3, <2>3
    <3>2. IsFrame(t, i - 1, kind)' <=> IsFrame(t, (i - 1) + 1, kind)
      BY <1>g, <3>1
    <3>3. QED BY <3>1, <3>2
  <2>4. QED BY <2>1, <2>2, <2>3
<1>5. ASSUME NEW j \in Positions', NEW n \in Nat, Has(t, j, n)'
      PROVE  \E i \in D : m[i] = j /\ Has(t, i, n)
  <2>1. CASE j = -1
    BY <1>3, <1>5, <1>h, <2>1
  <2>2. CASE j = 0
    <3>1. kept
      BY <1>5, <1>k, <2>2
    <3>2. Has(t, 1, n) /\ 1 \in D /\ m[1] = 1 - 1 /\ 1 - 1 = 0
      BY <1>3, <1>5, <1>k, <2>2, <3>1
    <3>3. QED BY <2>2, <3>2
  <2>3. CASE j \in 1..(tip - 1)
    BY <1>3, <1>5, <1>g, <2>3
  <2>4. QED BY <1>3, <2>1, <2>2, <2>3
<1>6. ASSUME NEW i \in D, NEW k \in Positions, NEW n \in Nat, Has(t, i, n), i < k,
             IsFrame(t, k, "start")
      PROVE  k \in D
  <2>1. CASE k = 1 /\ ~kept
    <3>1. t = Head(queue).tf
      BY <1>6, <1>k, <2>1
    <3>2. t # tf
      BY <1>t, <2>1, <3>1
    <3>3. i = -1
      BY <1>3, <1>6, <2>1, <1>g
    <3>4. QED BY <1>6, <1>h, <3>2, <3>3
  <2>2. QED BY <1>3, <1>6, <1>g, <2>1
<1>7. Moves(t, D, m)
  BY <1>2, <1>3, <1>4, <1>5, <1>6 DEF Moves
<1>8. ASSUME held' = Head(queue) \/ t # Head(queue).tf PROVE MovesAll(t, D, m)
  <2>1. ASSUME NEW i \in Positions, NEW n \in Nat, Has(t, i, n)
        PROVE  i \in D /\ Has(t, m[i], n)'
    <3>1. CASE i = -1
      BY <1>3, <1>h, <2>1, <3>1
    <3>2. CASE i = 1
      <4>1. kept
        BY <1>8, <1>k, <1>t, <2>1, <3>2
      <4>2. i \in D /\ m[i] = 1 - 1 /\ 1 - 1 = 0
        BY <1>3, <3>2, <4>1
      <4>3. QED BY <1>k, <2>1, <3>2, <4>1, <4>2
    <3>3. CASE i \in D /\ i - 1 \in 1..(tip - 1) /\ (i - 1) + 1 = i
      <4>1. m[i] = i - 1
        BY <1>3, <3>3
      <4>2. Has(t, i - 1, n)' <=> Has(t, (i - 1) + 1, n)
        BY <1>g, <3>3
      <4>3. QED BY <2>1, <3>3, <4>1, <4>2
    <3>4. QED BY <1>3, <1>g, <2>1, <3>1, <3>2, <3>3
  <2>2. ASSUME NEW i \in Positions, NEW kind, IsFrame(t, i, kind) PROVE i \in D
    <3>1. CASE i = 1
      BY <1>3, <1>8, <1>k, <1>t, <2>2, <3>1
    <3>2. QED BY <1>3, <1>g, <2>2, <3>1
  <2>3. ASSUME NEW j \in Positions', NEW kind, IsFrame(t, j, kind)' PROVE \E i \in D : m[i] = j
    <3>1. CASE j = 0
      <4>1. kept
        BY <1>k, <2>3, <3>1
      <4>2. 1 \in D /\ m[1] = 1 - 1 /\ 1 - 1 = 0
        BY <1>3, <4>1
      <4>3. QED BY <3>1, <4>2
    <3>2. QED BY <1>3, <2>3, <3>1
  <2>4. QED BY <2>1, <2>2, <2>3 DEF MovesAll
<1>9. tf = t => HistoryMoves(D, m)
  BY <1>3 DEF HistoryMoves
<1>10. QED BY <1>7, <1>8, <1>9

(* A close of the timeframe shown is applied at once.                      *)
LEMMA ReceiveMerges ==
  ASSUME Types, Types', Receive, FramesAreSound, NEW t, t = tf,
         Head(queue).tf = t, Head(queue).kind = "close"
  PROVE  Merges(t, 1, Head(queue).buckets)
<1> DEFINE b == Head(queue).buckets
<1>1. tf' = tf /\ history' = LastCap(history \o b) /\ held' = None
  BY DEF Receive, Receiving, Wanted
<1>2. b \in Own(t) /\ IsRun(t, b)
  <2>1. Head(queue) \in OwnFrame /\ Head(queue) = queue[1] /\ 1 \in DOMAIN queue
    <3>1. queue \in Seq(OwnFrame) /\ queue # <<>>
      BY DEF Types, WireTypes, Receive
    <3>2. QED BY <3>1
  <2>2. SoundFrame(Head(queue))
    BY <2>1 DEF FramesAreSound
  <2>3. QED BY <2>1, <2>2, OwnFrameParts DEF SoundFrame
<1>3. /\ Tip \in Nat /\ Tip >= 2 /\ Tip' = Tip - 1
      /\ \A n : ~Has(t, 0, n)
      /\ \A kind : ~IsFrame(t, 0, kind)
      /\ \A n : Has(t, 1, n) <=> In(<<t, n>>, b)
      /\ \A kind : IsFrame(t, 1, kind) <=> Head(queue).kind = kind
      /\ \A i \in 1..(Tip - 1) : \A n : Has(t, i, n)' <=> Has(t, i + 1, n)
      /\ \A i \in 1..(Tip - 1) : \A kind : IsFrame(t, i, kind)' <=> IsFrame(t, i + 1, kind)
      /\ \A n : ~Has(t, 0, n)'
      /\ \A kind : ~IsFrame(t, 0, kind)'
  BY <1>1, ShiftParts
<1>4. ~IsFrame(t, 1, "start")
  BY <1>3
<1>5. QED BY <1>1, <1>2, <1>3, <1>4 DEF Merges

-----------------------------------------------------------------------------
(* Steps of the terminal that leave queue and tasks alone.                 *)
LEMMA ClientParts ==
  ASSUME Types, Types', UNCHANGED <<queue, tasks>>, NEW t
  PROVE  /\ Tip \in Nat /\ Tip >= 1 /\ Tip' = Tip /\ Positions = -1..Tip /\ Positions' = -1..Tip
         /\ \A i \in 1..Tip : \A n : Has(t, i, n)' <=> Has(t, i, n)
         /\ \A i \in 1..Tip : \A kind : IsFrame(t, i, kind)' <=> IsFrame(t, i, kind)
         /\ \A kind : ~IsFrame(t, -1, kind) /\ ~IsFrame(t, -1, kind)'
         /\ \A n : Has(t, -1, n) <=> tf = t /\ In(<<t, n>>, history)
         /\ \A n : Has(t, -1, n)' <=> tf' = t /\ In(<<t, n>>, history')
         /\ \A n : Has(t, 0, n) <=> held # None /\ held.tf = t /\ In(<<t, n>>, held.buckets)
         /\ \A n : Has(t, 0, n)' <=> held' # None /\ held'.tf = t /\ In(<<t, n>>, held'.buckets)
         /\ \A kind : IsFrame(t, 0, kind) <=> held # None /\ held.tf = t /\ held.kind = kind
         /\ \A kind : IsFrame(t, 0, kind)' <=> held' # None /\ held'.tf = t /\ held'.kind = kind
<1>1. /\ Tip \in Nat /\ Tip >= 1 /\ Tip' = Tip /\ Positions = -1..Tip /\ Positions' = -1..Tip
      /\ Len(queue) \in Nat /\ Tip = Len(queue) + 1
  <2>1. Tip' = Tip
    BY DEF Tip
  <2>2. QED BY <2>1, PositionsAre DEF Tip, Positions
<1>2. /\ -1 # Tip /\ -1 \notin 1..Len(queue) /\ 0 # Tip /\ 0 \notin 1..Len(queue)
      /\ \A i \in 1..Tip : i # -1 /\ i # 0
  BY <1>1
<1>3. \A n : Pending(t, n)' <=> Pending(t, n)
  BY DEF Pending
<1>4. \A i \in 1..Tip : \A n : Has(t, i, n)' <=> Has(t, i, n)
  BY <1>1, <1>2, <1>3 DEF Has
<1>5. \A i \in 1..Tip : \A kind : IsFrame(t, i, kind)' <=> IsFrame(t, i, kind)
  BY <1>2 DEF IsFrame
<1>6. \A kind : ~IsFrame(t, -1, kind) /\ ~IsFrame(t, -1, kind)'
  BY <1>2 DEF IsFrame
<1>7. /\ \A n : Has(t, -1, n) <=> tf = t /\ In(<<t, n>>, history)
      /\ \A n : Has(t, -1, n)' <=> tf' = t /\ In(<<t, n>>, history')
  BY <1>1, <1>2 DEF Has
<1>8. /\ \A n : Has(t, 0, n) <=> held # None /\ held.tf = t /\ In(<<t, n>>, held.buckets)
      /\ \A n : Has(t, 0, n)' <=> held' # None /\ held'.tf = t /\ In(<<t, n>>, held'.buckets)
  BY <1>1, <1>2 DEF Has
<1>9. /\ \A kind : IsFrame(t, 0, kind) <=> held # None /\ held.tf = t /\ held.kind = kind
      /\ \A kind : IsFrame(t, 0, kind)' <=> held' # None /\ held'.tf = t /\ held'.kind = kind
  BY <1>2 DEF IsFrame
<1>10. QED BY <1>1, <1>4, <1>5, <1>6, <1>7, <1>8, <1>9

(* The held frame is of another timeframe, was looked at too early, or is  *)
(* a START: its position is given up, with the history at a START.         *)
LEMMA ClientMoves ==
  ASSUME Types, Types', UNCHANGED <<queue, tasks>>, NEW t,
         held' = None \/ held' = held,
         history' = <<>> \/ (history' = history /\ tf' = tf),
         history' # <<>> /\ held' # held => \A n \in Nat : ~(Has(t, -1, n) /\ IsFrame(t, 0, "start"))
  PROVE  \E D, m :
            /\ Moves(t, D, m) /\ HistoryMoves(D, m)
            /\ (\A i \in {-1, 0}, n \in Nat : Late(t, i) /\ Has(t, i, n) =>
                    \/ i = -1 /\ history' = history /\ tf' = tf /\ history' # <<>>
                    \/ i = 0 /\ held' = held)
               /\ (\A kind : Late(t, 0) /\ IsFrame(t, 0, kind) /\ kind # "start" => held' = held)
               /\ (history' # <<>> /\ held' # held => ~IsFrame(t, 0, "start"))
               => MovesAll(t, D, m)
<1>g. /\ Tip \in Nat /\ Tip >= 1 /\ Tip' = Tip /\ Positions = -1..Tip /\ Positions' = -1..Tip
      /\ \A i \in 1..Tip : \A n : Has(t, i, n)' <=> Has(t, i, n)
      /\ \A i \in 1..Tip : \A kind : IsFrame(t, i, kind)' <=> IsFrame(t, i, kind)
      /\ \A kind : ~IsFrame(t, -1, kind) /\ ~IsFrame(t, -1, kind)'
      /\ \A n : Has(t, -1, n) <=> tf = t /\ In(<<t, n>>, history)
      /\ \A n : Has(t, -1, n)' <=> tf' = t /\ In(<<t, n>>, history')
  BY ClientParts
<1>h. /\ held' = held => /\ \A n : Has(t, 0, n)' <=> Has(t, 0, n)
                         /\ \A kind : IsFrame(t, 0, kind)' <=> IsFrame(t, 0, kind)
      /\ held' # held => (\A n : ~Has(t, 0, n)') /\ \A kind : ~IsFrame(t, 0, kind)'
  BY ClientParts
<1>1. PICK D, m : /\ D = {i \in Positions : (i = -1 => history' # <<>>) /\ (i = 0 => held' = held)}
                  /\ m = [i \in D |-> i]
  OBVIOUS
<1>2. /\ D \subseteq Positions /\ m \in [D -> Positions'] /\ \A i \in D : m[i] = i
      /\ \A i \in Positions : i = -1 \/ i = 0 \/ (i \in 1..Tip /\ i \in D)
      /\ \A i \in D : i \in Int
      /\ (-1 \in D <=> history' # <<>>) /\ (0 \in D <=> held' = held)
  BY <1>1, <1>g
<1>3. \A i, j \in D : i < j <=> m[i] < m[j]
  BY <1>2
<1>4. ASSUME NEW i \in D, NEW kind PROVE IsFrame(t, m[i], kind)' <=> IsFrame(t, i, kind)
  BY <1>2, <1>g, <1>h
<1>e. history' = <<>> => \A n : ~In(<<t, n>>, history')
  BY InEmpty
<1>5. ASSUME NEW j \in Positions', NEW n \in Nat, Has(t, j, n)'
      PROVE  \E i \in D : m[i] = j /\ Has(t, i, n)
  <2>1. CASE j = -1
    <3>1. history' # <<>>
      BY <1>5, <1>e, <1>g, <2>1
    <3>2. QED BY <1>2, <1>5, <1>g, <2>1, <3>1
  <2>2. CASE j = 0
    BY <1>2, <1>5, <1>h, <2>2
  <2>3. CASE j \in 1..Tip
    BY <1>2, <1>5, <1>g, <2>3
  <2>4. QED BY <1>g, <2>1, <2>2, <2>3
<1>6. ASSUME NEW i \in D, NEW k \in Positions, NEW n \in Nat, Has(t, i, n), i < k,
             IsFrame(t, k, "start")
      PROVE  k \in D
  <2>1. ASSUME k = 0, held' # held PROVE FALSE
    <3>1. i = -1
      BY <1>2, <1>6, <2>1
    <3>2. history' # <<>>
      BY <1>2, <3>1
    <3>3. QED BY <1>6, <2>1, <3>1, <3>2
  <2>2. k # -1
    BY <1>2, <1>6, <1>g
  <2>3. QED BY <1>2, <2>1, <2>2
<1>7. Moves(t, D, m)
  BY <1>2, <1>3, <1>4, <1>5, <1>6 DEF Moves
<1>8. HistoryMoves(D, m)
  BY <1>2 DEF HistoryMoves
<1>9. ASSUME \A i \in {-1, 0}, n \in Nat : Late(t, i) /\ Has(t, i, n) =>
                    \/ i = -1 /\ history' = history /\ tf' = tf /\ history' # <<>>
                    \/ i = 0 /\ held' = held,
             \A kind : Late(t, 0) /\ IsFrame(t, 0, kind) /\ kind # "start" => held' = held,
             history' # <<>> /\ held' # held => ~IsFrame(t, 0, "start")
      PROVE  MovesAll(t, D, m)
  <2>1. ASSUME NEW i \in Positions, NEW n \in Nat, Late(t, i), Has(t, i, n)
        PROVE  i \in D /\ Has(t, m[i], n)'
    <3>1. CASE i = -1
      BY <1>2, <1>9, <1>g, <2>1, <3>1
    <3>2. CASE i = 0
      BY <1>2, <1>9, <1>h, <2>1, <3>2
    <3>3. QED BY <1>2, <1>g, <2>1, <3>1, <3>2
  <2>2. ASSUME NEW i \in Positions, NEW kind, Late(t, i), IsFrame(t, i, kind), kind # "start"
        PROVE  i \in D
    <3>1. i # -1
      BY <1>g, <2>2
    <3>2. CASE i = 0
      BY <1>2, <1>9, <2>2, <3>2
    <3>3. QED BY <1>2, <3>1, <3>2
  <2>3. ASSUME NEW i \in D, NEW k \in Positions, i < k, IsFrame(t, k, "start") PROVE k \in D
    <3>1. k # -1
      BY <1>g, <2>3
    <3>2. ASSUME k = 0, held' # held PROVE FALSE
      BY <1>2, <1>9, <2>3, <3>2
    <3>3. QED BY <1>2, <3>1, <3>2
  <2>4. ASSUME NEW j \in Positions', NEW kind, IsFrame(t, j, kind)' PROVE \E i \in D : m[i] = j
    <3>1. j # -1
      BY <1>g, <2>4
    <3>2. CASE j = 0
      BY <1>2, <1>h, <2>4, <3>2
    <3>3. CASE j \in 1..Tip
      BY <1>2, <1>g, <3>3
    <3>4. QED BY <1>g, <3>1, <3>2, <3>3
  <2>5. QED BY <2>1, <2>2, <2>3, <2>4 DEF MovesAll
<1>10. QED BY <1>7, <1>8, <1>9

(* A chunk or END of the timeframe shown is applied.                       *)
LEMMA ApplyMerges ==
  ASSUME Types, Types', ApplyHeld, FramesAreSound, NEW t, t = tf, held.tf = t,
         held.kind # "start"
  PROVE  Merges(t, 0, held.buckets)
<1> DEFINE b == held.buckets
<1>1. /\ held # None /\ held' = None /\ tf' = tf /\ UNCHANGED <<queue, tasks>>
      /\ held \in OwnFrame /\ held.kind \in {"chunk", "end"}
  <2>1. held # None /\ held' = None /\ tf' = tf /\ UNCHANGED <<queue, tasks>>
    BY DEF ApplyHeld, daemon
  <2>2. held \in OwnFrame /\ held.kind # "close"
    BY <2>1 DEF Types, ClientTypes, CatchupFrame
  <2>3. QED BY <2>1, <2>2, OwnFrameParts
<1>2. b \in Own(t) /\ IsRun(t, b) /\ (held.kind = "end" => b = <<>>)
  BY <1>1, OwnFrameParts DEF FramesAreSound, SoundFrame
<1>3. history' = LastCap(history \o b) \/ (history' = history \o b /\ held.kind = "chunk")
  <2>1. CASE held.kind = "chunk"
    BY <2>1 DEF ApplyHeld, Wanted
  <2>2. CASE held.kind = "end"
    <3>1. history' = LastCap(history)
      BY <2>2 DEF ApplyHeld, Wanted
    <3>2. history \in Seq(Bucket) /\ b = <<>>
      BY <1>2, <2>2 DEF Types, ClientTypes
    <3>3. history \o b = history
      BY <3>2
    <3>4. QED BY <3>1, <3>3
  <2>3. QED BY <1>1, <2>1, <2>2
<1>4. /\ Tip \in Nat /\ Tip >= 1 /\ Tip' = Tip
      /\ \A i \in 1..Tip : \A n : Has(t, i, n)' <=> Has(t, i, n)
      /\ \A i \in 1..Tip : \A kind : IsFrame(t, i, kind)' <=> IsFrame(t, i, kind)
      /\ \A n : Has(t, 0, n) <=> In(<<t, n>>, b)
      /\ \A kind : IsFrame(t, 0, kind) <=> held.kind = kind
      /\ \A n : ~Has(t, 0, n)'
      /\ \A kind : ~IsFrame(t, 0, kind)'
  BY <1>1, ClientParts
<1>5. ~IsFrame(t, 0, "start") /\ (held.kind = "chunk" => IsFrame(t, 0, "chunk"))
  BY <1>4
<1>6. \A i \in 1..Tip : i + 0 = i
  BY <1>4
<1>7. /\ \A i \in 1..Tip : \A n : Has(t, i, n)' <=> Has(t, i + 0, n)
      /\ \A i \in 1..Tip : \A kind : IsFrame(t, i, kind)' <=> IsFrame(t, i + 0, kind)
  BY <1>4, <1>6
<1>8. QED BY <1>1, <1>2, <1>3, <1>4, <1>5, <1>7 DEF Merges

-----------------------------------------------------------------------------
(* A frame g of t, no START, is put at the tip: with buckets of those its  *)
(* task had to send, or with those that close in this step.                *)
Sends(t, g) ==
    /\ GrowsBy(1) /\ queue'[Tip] = g /\ g.tf = t /\ g.kind # "start"
    /\ closed'[t] \in Nat /\ closed[t] <= closed'[t]
    /\ \A n \in Nat : Pending(t, n)' => Pending(t, n)
    /\ \A n \in Nat : In(<<t, n>>, g.buckets) => Pending(t, n) \/ n > closed[t]
    /\ \A n \in Nat : Pending(t, n) => Pending(t, n)' \/ In(<<t, n>>, g.buckets)
    /\ \A n \in Nat : ~(Pending(t, n)' /\ In(<<t, n>>, g.buckets))
    /\ \A n \in 1..closed'[t] : n > closed[t] => In(<<t, n>>, g.buckets)

(* The line after it, position by position.                                *)
LEMMA SentParts ==
  ASSUME Types, Types', NEW t, NEW g, Sends(t, g)
  PROVE  /\ Tip \in Nat /\ Tip >= 1 /\ Tip' = Tip + 1
         /\ Positions = -1..Tip /\ Positions' = -1..(Tip + 1)
         /\ \A i \in Positions : i < Tip => \A n : Has(t, i, n)' <=> Has(t, i, n)
         /\ \A n : Has(t, Tip, n) <=> Pending(t, n)
         /\ \A i \in Positions' : i = Tip => \A n : Has(t, i, n)' <=> In(<<t, n>>, g.buckets)
         /\ \A i \in Positions' : i = Tip + 1 => \A n : Has(t, i, n)' <=> Pending(t, n)'
         /\ \A i \in Positions : i < Tip => \A kind : IsFrame(t, i, kind)' <=> IsFrame(t, i, kind)
         /\ \A i \in Positions' : i = Tip => \A kind : IsFrame(t, i, kind)' <=> g.kind = kind
         /\ \A i \in Positions' : i = Tip + 1 => \A kind : ~IsFrame(t, i, kind)'
         /\ \A i \in Positions : i = Tip => \A kind : ~IsFrame(t, i, kind)
<1>0. PICK k \in Nat : k = 1 /\ GrowsBy(k)
  BY DEF Sends
<1>a. queue'[Tip] = g /\ g.tf = t
  BY DEF Sends
<1>b. /\ Tip \in Nat /\ Tip >= 1 /\ Tip' = Tip + k
      /\ Positions = -1..Tip /\ Positions' = -1..(Tip + k)
      /\ \A i \in Positions : i < Tip => \A n : Has(t, i, n)' <=> Has(t, i, n)
      /\ \A i \in Positions : i < Tip => \A kind : IsFrame(t, i, kind)' <=> IsFrame(t, i, kind)
      /\ \A i \in Positions : i = Tip => \A n : Has(t, i, n) <=> Pending(t, n)
      /\ \A i \in Positions : i = Tip => \A kind : ~IsFrame(t, i, kind)
      /\ \A i \in Positions' : i = Tip + k => \A n : Has(t, i, n)' <=> Pending(t, n)'
      /\ \A i \in Positions' : i = Tip + k => \A kind : ~IsFrame(t, i, kind)'
  BY <1>0, GrownParts
<1>d. \A i \in Tip..(Tip + k - 1) :
          /\ \A n : Has(t, i, n)' <=> queue'[i].tf = t /\ In(<<t, n>>, queue'[i].buckets)
          /\ \A kind : IsFrame(t, i, kind)' <=> queue'[i].tf = t /\ queue'[i].kind = kind
  BY <1>0, GrownParts
<1>1. /\ Tip \in Nat /\ Tip >= 1 /\ Tip' = Tip + 1
      /\ Positions = -1..Tip /\ Positions' = -1..(Tip + 1)
      /\ \A i \in Positions : i < Tip => \A n : Has(t, i, n)' <=> Has(t, i, n)
      /\ \A i \in Positions : i < Tip => \A kind : IsFrame(t, i, kind)' <=> IsFrame(t, i, kind)
      /\ \A i \in Positions : i = Tip => \A n : Has(t, i, n) <=> Pending(t, n)
      /\ \A i \in Positions : i = Tip => \A kind : ~IsFrame(t, i, kind)
      /\ \A i \in Positions' : i = Tip + 1 => \A n : Has(t, i, n)' <=> Pending(t, n)'
      /\ \A i \in Positions' : i = Tip + 1 => \A kind : ~IsFrame(t, i, kind)'
  BY <1>0, <1>b
<1>3. \A i : i = Tip => i \in Tip..(Tip + k - 1)
  BY <1>0, <1>1
<1>4. \A i \in Positions' : i = Tip =>
          /\ \A n : Has(t, i, n)' <=> In(<<t, n>>, g.buckets)
          /\ \A kind : IsFrame(t, i, kind)' <=> g.kind = kind
  BY <1>a, <1>d, <1>3
<1>5. Tip \in Positions
  BY <1>1
<1>6. QED BY <1>1, <1>4, <1>5

(* Where what is on the line then came from, and where what was on it is.  *)
LEMMA SentSource ==
  ASSUME Types, Types', FramesAreSound, NEW t, NEW g, Sends(t, g)
  PROVE  /\ \A j \in Positions', n \in Nat : Has(t, j, n)' =>
               \/ j < Tip /\ j \in Positions /\ Has(t, j, n)
               \/ j >= Tip /\ Has(t, Tip, n)
               \/ j = Tip /\ n > closed[t]
         /\ \A i, j \in Positions', n \in Nat :
               i < j /\ i >= Tip => ~(Has(t, i, n)' /\ Has(t, j, n)')
         /\ Tip \in Positions
         /\ \A j \in Positions' : j >= Tip => j = Tip \/ j = Tip + 1
         /\ \A j \in Positions' : Late(t, j)' <=> j >= Tip \/ Late(t, j)
         /\ Late(t, Tip)
         /\ \A i \in Positions, n \in Nat : Late(t, i) /\ Has(t, i, n) =>
               \E j \in Positions' : Late(t, j)' /\ Has(t, j, n)'
         /\ \A n \in 1..closed'[t] : n > closed[t] =>
               \E j \in Positions' : Late(t, j)' /\ Has(t, j, n)'
<1>0. PICK tip : tip = Tip
  OBVIOUS
<1>g. /\ tip \in Nat /\ tip >= 1 /\ Tip' = tip + 1
      /\ Positions = -1..tip /\ Positions' = -1..(tip + 1)
      /\ \A i \in Positions : i < tip => \A n : Has(t, i, n)' <=> Has(t, i, n)
      /\ \A n : Has(t, tip, n) <=> Pending(t, n)
      /\ \A n : Has(t, tip, n)' <=> In(<<t, n>>, g.buckets)
      /\ \A n : Has(t, tip + 1, n)' <=> Pending(t, n)'
  <2>1. /\ tip \in Nat /\ tip >= 1 /\ Tip' = tip + 1
        /\ Positions = -1..tip /\ Positions' = -1..(tip + 1)
        /\ \A i \in Positions : i < tip => \A n : Has(t, i, n)' <=> Has(t, i, n)
        /\ \A n : Has(t, tip, n) <=> Pending(t, n)
        /\ \A i \in Positions' : i = tip => \A n : Has(t, i, n)' <=> In(<<t, n>>, g.buckets)
        /\ \A i \in Positions' : i = tip + 1 => \A n : Has(t, i, n)' <=> Pending(t, n)'
    BY <1>0, SentParts
  <2>2. tip \in Positions' /\ tip + 1 \in Positions'
    BY <2>1
  <2>3. QED BY <2>1, <2>2
<1>k. /\ \A i \in Positions : i < tip => \A kind : IsFrame(t, i, kind)' <=> IsFrame(t, i, kind)
      /\ \A i \in Positions' : i = tip => ~IsFrame(t, i, "start")'
      /\ \A i \in Positions' : i = tip + 1 => \A kind : ~IsFrame(t, i, kind)'
      /\ \A i \in Positions : i = tip => \A kind : ~IsFrame(t, i, kind)
  <2>1. g.kind # "start"
    BY DEF Sends
  <2>2. QED BY <1>0, <2>1, SentParts
<1>c. /\ \A i \in Positions : i \in Int /\ i \in Positions' /\ (i < tip \/ i = tip)
      /\ \A i \in Positions' : i \in Int /\ ((i < tip /\ i \in Positions) \/ i = tip \/ i = tip + 1)
      /\ tip \in Positions /\ tip \in Positions' /\ tip + 1 \in Positions'
      /\ tip + 1 > tip /\ ~(tip < tip) /\ tip >= tip /\ tip + 1 >= tip
  BY <1>g
<1>s. /\ \A n \in Nat : Pending(t, n)' => Pending(t, n)
      /\ \A n \in Nat : In(<<t, n>>, g.buckets) => Pending(t, n) \/ n > closed[t]
      /\ \A n \in Nat : Pending(t, n) => Pending(t, n)' \/ In(<<t, n>>, g.buckets)
      /\ \A n \in Nat : ~(Pending(t, n)' /\ In(<<t, n>>, g.buckets))
      /\ \A n \in 1..closed'[t] : n > closed[t] => In(<<t, n>>, g.buckets)
  BY DEF Sends
<1>1. \A j \in Positions', n \in Nat : Has(t, j, n)' =>
         \/ j < tip /\ j \in Positions /\ Has(t, j, n)
         \/ j >= tip /\ Has(t, tip, n)
         \/ j = tip /\ n > closed[t]
  BY <1>c, <1>g, <1>s
<1>2. ASSUME NEW i \in Positions', NEW j \in Positions', NEW n \in Nat, i < j, i >= tip
      PROVE  ~(Has(t, i, n)' /\ Has(t, j, n)')
  <2>1. i = tip /\ j = tip + 1
    BY <1>2, <1>g
  <2>2. QED BY <2>1, <1>g, <1>s
<1>3. \A j \in Positions' : Late(t, j)' <=> j >= tip \/ Late(t, j)
  <2>1. ASSUME NEW j \in Positions', Late(t, j)', NEW k \in Positions, k > j,
               IsFrame(t, k, "start")
        PROVE  FALSE
    <3>1. k < tip /\ IsFrame(t, k, "start")' /\ k \in Positions'
      BY <1>c, <1>k, <2>1
    <3>2. QED BY <2>1, <3>1 DEF Late
  <2>2. ASSUME NEW j \in Positions', j >= tip \/ Late(t, j), NEW k \in Positions', k > j,
               IsFrame(t, k, "start")'
        PROVE  FALSE
    <3>1. k < tip /\ k \in Positions /\ IsFrame(t, k, "start")
      BY <1>c, <1>k, <2>2
    <3>2. j \in Int /\ k \in Int /\ tip \in Int
      BY <1>c
    <3>3. ~(j >= tip)
      BY <2>2, <3>1, <3>2
    <3>4. QED BY <2>2, <3>1, <3>3 DEF Late
  <2>3. QED BY <2>1, <2>2 DEF Late
<1>4. Late(t, tip)
  <2>1. ASSUME NEW k \in Positions, k > tip PROVE FALSE
    BY <1>g, <2>1
  <2>2. QED BY <2>1 DEF Late
<1>5. ASSUME NEW i \in Positions, NEW n \in Nat, Late(t, i), Has(t, i, n)
      PROVE  \E j \in Positions' : Late(t, j)' /\ Has(t, j, n)'
  <2>1. CASE i < tip
    BY <1>3, <1>5, <1>c, <1>g, <2>1
  <2>2. CASE i = tip
    BY <1>3, <1>5, <1>c, <1>g, <1>s, <2>2
  <2>3. QED BY <1>c, <2>1, <2>2
<1>6. ASSUME NEW n \in 1..closed'[t], n > closed[t]
      PROVE  \E j \in Positions' : Late(t, j)' /\ Has(t, j, n)'
  BY <1>3, <1>6, <1>c, <1>g, <1>s
<1>7. \A j \in Positions' : j >= tip => j = tip \/ j = tip + 1
  BY <1>g
<1>8. tip \in Positions
  BY <1>c
<1> HIDE DEF Sends
<1>9. QED BY <1>0, <1>1, <1>2, <1>3, <1>4, <1>5, <1>6, <1>7, <1>8

LEMMA SentIsClean ==
  ASSUME Types, Types', FramesAreSound, NEW t, NEW g, Sends(t, g), Clean(t),
         closed[t] \in Nat
  PROVE  Clean(t)'
<1>s. /\ \A j \in Positions', n \in Nat : Has(t, j, n)' =>
            \/ j < Tip /\ j \in Positions /\ Has(t, j, n)
            \/ j >= Tip /\ Has(t, Tip, n)
            \/ j = Tip /\ n > closed[t]
      /\ \A i, j \in Positions', n \in Nat :
            i < j /\ i >= Tip => ~(Has(t, i, n)' /\ Has(t, j, n)')
      /\ Tip \in Positions
  BY SentSource
<1>c. /\ Tip \in Nat /\ \A i \in Positions : i \in Int /\ i <= Tip
      /\ \A i \in Positions' : i \in Int
      /\ \A i \in Positions : i < Tip => i \in Positions'
      /\ \A i \in Positions : i < Tip => \A kind : IsFrame(t, i, kind)' <=> IsFrame(t, i, kind)
  BY SentParts
<1> SUFFICES ASSUME NEW i \in Positions', NEW j \in Positions', NEW n \in 1..closed'[t],
                    i < j, Has(t, i, n)', Has(t, j, n)'
             PROVE  \E k \in Positions' : i < k /\ k < j /\ IsFrame(t, k, "start")'
  BY DEF Clean
<1>1. i < Tip /\ i \in Positions /\ Has(t, i, n)
  <2>1. n \in Nat /\ i \in Int /\ j \in Int
    BY <1>c
  <2>2. ~(i >= Tip)
    BY <1>s, <2>1
  <2>3. i # Tip
    BY <1>c, <2>1, <2>2
  <2>4. QED BY <1>s, <2>1, <2>2, <2>3
<1>2. n \in 1..closed[t] /\ n \in Nat
  BY <1>1, HasPast
<1>3. ~(n > closed[t])
  BY <1>2
<1>4. CASE j < Tip
  <2>1. j \in Positions /\ Has(t, j, n)
    <3>1. ~(j >= Tip) /\ j # Tip
      BY <1>4, <1>c
    <3>2. QED BY <1>s, <1>2, <1>3, <3>1
  <2>2. PICK k \in Positions : i < k /\ k < j /\ IsFrame(t, k, "start")
    BY <1>1, <1>2, <2>1 DEF Clean
  <2>3. k < Tip
    BY <1>4, <1>c, <2>1, <2>2
  <2>4. QED BY <1>c, <2>2, <2>3
<1>5. CASE ~(j < Tip)
  <2>1. Has(t, Tip, n)
    BY <1>s, <1>2, <1>3, <1>5
  <2>2. PICK k \in Positions : i < k /\ k < Tip /\ IsFrame(t, k, "start")
    BY <1>s, <1>1, <1>2, <2>1 DEF Clean
  <2>3. k < j
    BY <1>5, <1>c, <2>2
  <2>4. QED BY <1>c, <2>2, <2>3
<1>6. QED BY <1>4, <1>5

(* A frame does not disturb the download it is part of: what it leaves to  *)
(* send comes after it, and it is END, or a close after that, or some of   *)
(* the task is left.                                                       *)
LEMMA SentDownload ==
  ASSUME Types, Types', FramesAreSound, NEW t, NEW g, Sends(t, g), Download(t), closed[t] \in Nat,
         live' = 0 => live = 0,
         live' = 0 => \A n, m \in Nat : In(<<t, n>>, g.buckets) /\ Pending(t, m)' => n < m,
         \/ g.kind = "end"
         \/ g.kind = "close" /\ tasks' = tasks
         \/ \E q \in DOMAIN tasks' : tasks'[q].tf = t
  PROVE  Download(t)'
<1>s. /\ \A j \in Positions', n \in Nat : Has(t, j, n)' =>
            \/ j < Tip /\ j \in Positions /\ Has(t, j, n)
            \/ j >= Tip /\ Has(t, Tip, n)
            \/ j = Tip /\ n > closed[t]
      /\ \A i, j \in Positions', n \in Nat :
            i < j /\ i >= Tip => ~(Has(t, i, n)' /\ Has(t, j, n)')
      /\ Tip \in Positions /\ Late(t, Tip)
      /\ \A j \in Positions' : j >= Tip => j = Tip \/ j = Tip + 1
      /\ \A j \in Positions' : Late(t, j)' <=> j >= Tip \/ Late(t, j)
  BY SentSource
<1>k. /\ \A i \in Positions, n \in Nat : Late(t, i) /\ Has(t, i, n) =>
            \E j \in Positions' : Late(t, j)' /\ Has(t, j, n)'
      /\ \A n \in 1..closed'[t] : n > closed[t] =>
            \E j \in Positions' : Late(t, j)' /\ Has(t, j, n)'
  BY SentSource
<1>c. /\ Tip \in Nat /\ Tip >= 1 /\ (\A i \in Positions : i \in Int /\ i <= Tip)
      /\ (\A i \in Positions' : i \in Int) /\ -1 \in Positions' /\ -1 \in Positions
      /\ Tip \in Positions'
      /\ \A i \in Positions : i < Tip => i \in Positions'
      /\ \A i \in Positions : i < Tip => \A kind : IsFrame(t, i, kind)' <=> IsFrame(t, i, kind)
      /\ \A i \in Positions' : i = Tip => \A kind : IsFrame(t, i, kind)' <=> g.kind = kind
  BY SentParts
<1>r. /\ \A i \in Positions' : i = Tip + 1 => \A kind : ~IsFrame(t, i, kind)'
      /\ \A i \in Positions : i = Tip => \A kind : ~IsFrame(t, i, kind)
      /\ \A i \in Positions' : i = Tip => \A n : Has(t, i, n)' <=> In(<<t, n>>, g.buckets)
      /\ \A i \in Positions' : i = Tip + 1 => \A n : Has(t, i, n)' <=> Pending(t, n)'
      /\ \A i \in Positions' : (i < Tip /\ i \in Positions) \/ i = Tip \/ i = Tip + 1
  BY SentParts
<1>h. history' = history /\ (Late(t, -1)' => Late(t, -1))
  <2>1. ~(-1 >= Tip)
    BY <1>c
  <2>2. QED BY <1>c, <1>s, <2>1 DEF Sends, GrowsBy
<1>n. closed[t] <= closed'[t] /\ closed[t] \in Nat /\ closed'[t] \in Nat
  BY DEF Sends
<1>o. \A n \in Nat, i \in Positions : Has(t, i, n) => n \in 1..closed[t] /\ ~(n > closed[t])
  BY HasPast
<1>1. Apart(t)'
  <2>1. ASSUME NEW i \in Positions', NEW j \in Positions', NEW n \in 1..closed'[t],
               i < j, Late(t, i)', Has(t, i, n)', Has(t, j, n)'
        PROVE  FALSE
    <3>1. n \in Nat /\ i \in Int /\ j \in Int
      BY <1>c
    <3>2. ~(i >= Tip) /\ i # Tip
      <4>1. ~(i >= Tip)
        BY <1>s, <2>1, <3>1
      <4>2. QED BY <1>c, <3>1, <4>1
    <3>3. i \in Positions /\ Has(t, i, n) /\ Late(t, i) /\ i < Tip
      BY <1>s, <2>1, <3>1, <3>2
    <3>4. n \in 1..closed[t] /\ ~(n > closed[t])
      BY <1>o, <3>1, <3>3
    <3>5. (j \in Positions /\ Has(t, j, n)) \/ Has(t, Tip, n)
      BY <1>s, <2>1, <3>1, <3>4
    <3>6. QED BY <1>s, <2>1, <3>3, <3>4, <3>5 DEF Apart, Download
  <2>2. Late(t, -1)' => IsInjective(history')
    BY <1>h DEF Apart, Download
  <2>3. QED BY <2>1, <2>2 DEF Apart
<1>2. Ends(t)'
  <2> SUFFICES ASSUME \A q \in DOMAIN tasks' : tasks'[q].tf # t
               PROVE  /\ \A i \in Positions' : Late(t, i)' /\ IsFrame(t, i, "chunk")' =>
                             \E j \in Positions' : j > i /\ IsFrame(t, j, "end")'
                      /\ Late(t, -1)' /\ (\A j \in Positions' : ~IsFrame(t, j, "end")') =>
                             Len(history') <= Cap
    BY DEF Ends
  <2>1. CASE g.kind = "end"
    <3>1. PICK j \in Positions' : j = Tip /\ IsFrame(t, j, "end")'
      BY <1>c, <2>1
    <3>2. ASSUME NEW i \in Positions', IsFrame(t, i, "chunk")' PROVE j > i
      <4>1. i < Tip
        BY <1>c, <1>r, <2>1, <3>2
      <4>2. i \in Int /\ j \in Int
        BY <1>c
      <4>3. QED BY <3>1, <4>1, <4>2
    <3>3. QED BY <3>1, <3>2
  <2>2. CASE g.kind = "close" /\ tasks' = tasks
    <3>1. /\ \A i \in Positions : Late(t, i) /\ IsFrame(t, i, "chunk") =>
                 \E j \in Positions : j > i /\ IsFrame(t, j, "end")
          /\ Late(t, -1) /\ (\A j \in Positions : ~IsFrame(t, j, "end")) => Len(history) <= Cap
      BY <2>2 DEF Download, Ends
    <3>2. ASSUME NEW i \in Positions', Late(t, i)', IsFrame(t, i, "chunk")'
          PROVE  \E j \in Positions' : j > i /\ IsFrame(t, j, "end")'
      <4>1. i < Tip /\ i \in Positions
        BY <1>c, <1>r, <2>2, <3>2
      <4>2. ~(i >= Tip)
        <5>1. i \in Int /\ Tip \in Int
          BY <1>c
        <5>2. QED BY <4>1, <5>1
      <4>3. Late(t, i) /\ IsFrame(t, i, "chunk")
        BY <1>c, <1>s, <3>2, <4>1, <4>2
      <4>4. PICK j \in Positions : j > i /\ IsFrame(t, j, "end")
        BY <3>1, <4>1, <4>3
      <4>5. j < Tip
        BY <1>c, <1>r, <4>4
      <4>6. QED BY <1>c, <4>4, <4>5
    <3>3. ASSUME Late(t, -1)', \A j \in Positions' : ~IsFrame(t, j, "end")'
          PROVE  Len(history') <= Cap
      <4>1. ASSUME NEW j \in Positions, IsFrame(t, j, "end") PROVE FALSE
        <5>1. j < Tip
          BY <1>c, <1>r, <4>1
        <5>2. QED BY <1>c, <3>3, <4>1, <5>1
      <4>2. QED BY <1>h, <3>1, <3>3, <4>1
    <3>4. QED BY <3>2, <3>3
  <2>3. QED BY <2>1, <2>2
<1>3. Covers(t) => Covers(t)'
  <2> SUFFICES ASSUME Covers(t), NEW n \in 1..closed'[t], n + Cap > closed'[t]
               PROVE  \E i \in Positions' : Late(t, i)' /\ Has(t, i, n)'
    BY DEF Covers
  <2>1. CASE n > closed[t]
    BY <1>k, <2>1
  <2>2. CASE ~(n > closed[t])
    <3>1. n \in 1..closed[t] /\ n + Cap > closed[t] /\ n \in Nat
      BY <1>n, <2>2, CatchupAssumption
    <3>2. PICK i \in Positions : Late(t, i) /\ Has(t, i, n)
      BY <3>1 DEF Covers
    <3>3. QED BY <1>k, <3>1, <3>2
  <2>3. QED BY <2>1, <2>2
<1>4. live' = 0 /\ Ordered(t) => Ordered(t)'
  <2> SUFFICES ASSUME live' = 0, Ordered(t), NEW i \in Positions', NEW j \in Positions',
                      NEW n \in 1..closed'[t], NEW k \in 1..closed'[t],
                      i < j, Late(t, i)', Has(t, i, n)', Has(t, j, k)'
               PROVE  n < k
    BY DEF Ordered
  <2>0. n \in Nat /\ k \in Nat /\ i \in Int /\ j \in Int
    BY <1>c
  <2>1. CASE i >= Tip
    <3>1. i = Tip /\ j = Tip + 1
      BY <1>c, <1>s, <2>0, <2>1
    <3>2. In(<<t, n>>, g.buckets) /\ Pending(t, k)'
      BY <1>r, <3>1
    <3>3. QED BY <2>0, <3>2
  <2>2. CASE ~(i >= Tip)
    <3>1. i # Tip
      BY <1>c, <2>0, <2>2
    <3>2. i \in Positions /\ Has(t, i, n) /\ Late(t, i) /\ i < Tip
      BY <1>s, <2>0, <2>2, <3>1
    <3>3. n \in 1..closed[t]
      BY <1>o, <2>0, <3>2
    <3>4. CASE k > closed[t]
      BY <1>n, <2>0, <3>3, <3>4
    <3>5. CASE ~(k > closed[t])
      <4>1. k \in 1..closed[t]
        BY <1>n, <2>0, <3>5
      <4>2. (j \in Positions /\ Has(t, j, k)) \/ Has(t, Tip, k)
        BY <1>s, <2>0, <3>5
      <4>3. QED BY <1>s, <3>2, <3>3, <4>1, <4>2 DEF Ordered
    <3>6. QED BY <3>4, <3>5
  <2>3. QED BY <2>1, <2>2
<1>5. Gapless(t) => Gapless(t)'
  <2> SUFFICES ASSUME Gapless(t) PROVE Gapless(t)'
    OBVIOUS
  <2>1. Late(t, -1)' => IsRun(t, history')
    BY <1>h DEF Gapless
  <2>2. ASSUME NEW i \in Positions', NEW n \in 1..closed'[t], NEW k \in 1..closed'[t],
               Late(t, i)', Has(t, i, n)', n <= k
        PROVE  \E j \in Positions' : Late(t, j)' /\ Has(t, j, k)'
    <3>0. n \in Nat /\ k \in Nat /\ i \in Int
      BY <1>c
    <3>1. CASE k > closed[t]
      BY <1>k, <3>1
    <3>2. CASE ~(k > closed[t])
      <4>1. k \in 1..closed[t] /\ n \in 1..closed[t] /\ ~(n > closed[t])
        BY <1>n, <2>2, <3>0, <3>2
      <4>2. \E a \in Positions : Late(t, a) /\ Has(t, a, n)
        <5>1. CASE i >= Tip
          <6>1. ~(i < Tip)
            BY <1>c, <3>0, <5>1
          <6>2. QED BY <1>s, <2>2, <3>0, <4>1, <6>1
        <5>2. CASE ~(i >= Tip)
          <6>1. i # Tip
            BY <1>c, <3>0, <5>2
          <6>2. QED BY <1>s, <2>2, <3>0, <4>1, <5>2, <6>1
        <5>3. QED BY <5>1, <5>2
      <4>3. PICK a \in Positions : Late(t, a) /\ Has(t, a, n)
        BY <4>2
      <4>4. PICK b \in Positions : Late(t, b) /\ Has(t, b, k)
        BY <2>2, <4>1, <4>3 DEF Gapless
      <4>5. QED BY <1>k, <3>0, <4>4
    <3>3. QED BY <3>1, <3>2
  <2>3. QED BY <2>1, <2>2 DEF Gapless
<1>6. closed'[t] <= Cap => closed[t] <= Cap
  BY <1>n, CatchupAssumption
<1>7. QED BY <1>1, <1>2, <1>3, <1>4, <1>5, <1>6 DEF Download

-----------------------------------------------------------------------------
(* A task of t begins: START and g are put at the tip, and g and the rest  *)
(* it has yet to send are what the daemon keeps, in order.                 *)
Begins(t, g, rest) ==
    /\ GrowsBy(2) /\ queue'[Tip] = F("start", t, <<>>)
    /\ queue'[Tip + 1] = g /\ g.tf = t /\ g.kind \in {"chunk", "end"}
    /\ closed'[t] = closed[t]
    /\ \A n \in Nat : Pending(t, n)' <=> In(<<t, n>>, rest)
    /\ \A n \in Nat : In(<<t, n>>, g.buckets) \/ In(<<t, n>>, rest)
                         <=> n \in 1..closed[t] /\ n + Cap > closed[t]
    /\ \A n, k \in Nat : In(<<t, n>>, g.buckets) /\ In(<<t, k>>, rest) => n < k
    /\ g.kind = "chunk" => \E q \in DOMAIN tasks' : tasks'[q].tf = t

LEMMA BegunParts ==
  ASSUME Types, Types', NEW t, NEW g, NEW rest, Begins(t, g, rest), NEW tip, tip = Tip
  PROVE  /\ tip \in Nat /\ tip >= 1
         /\ Positions = -1..tip /\ Positions' = -1..(tip + 2)
         /\ \A i \in Positions : i < tip => \A n : Has(t, i, n)' <=> Has(t, i, n)
         /\ \A i \in Positions : i < tip => \A kind : IsFrame(t, i, kind)' <=> IsFrame(t, i, kind)
         /\ \A n \in Nat : ~Has(t, tip, n)'
         /\ \A n \in Nat : Has(t, tip + 1, n)' <=> In(<<t, n>>, g.buckets)
         /\ \A n \in Nat : Has(t, tip + 2, n)' <=> In(<<t, n>>, rest)
         /\ IsFrame(t, tip, "start")'
         /\ \A kind : IsFrame(t, tip + 1, kind)' <=> g.kind = kind
         /\ \A kind : ~IsFrame(t, tip + 2, kind)'
         /\ \A kind : IsFrame(t, tip, kind)' => kind = "start"
<1>0. PICK k \in Nat : k = 2 /\ GrowsBy(k)
  BY DEF Begins
<1>1. /\ tip \in Nat /\ tip >= 1
      /\ Positions = -1..tip /\ Positions' = -1..(tip + k)
      /\ \A i \in Positions : i < tip => \A n : Has(t, i, n)' <=> Has(t, i, n)
      /\ \A i \in Positions : i < tip => \A kind : IsFrame(t, i, kind)' <=> IsFrame(t, i, kind)
      /\ \A i \in Positions' : i = tip + k => \A n : Has(t, i, n)' <=> Pending(t, n)'
      /\ \A i \in Positions' : i = tip + k => \A kind : ~IsFrame(t, i, kind)'
  BY <1>0, GrownParts
<1>2. \A i \in tip..(tip + k - 1) :
          /\ \A n : Has(t, i, n)' <=> queue'[i].tf = t /\ In(<<t, n>>, queue'[i].buckets)
          /\ \A kind : IsFrame(t, i, kind)' <=> queue'[i].tf = t /\ queue'[i].kind = kind
  <2>1. \A i \in Tip..(Tip + k - 1) :
            /\ \A n : Has(t, i, n)' <=> queue'[i].tf = t /\ In(<<t, n>>, queue'[i].buckets)
            /\ \A kind : IsFrame(t, i, kind)' <=> queue'[i].tf = t /\ queue'[i].kind = kind
    BY <1>0, GrownParts
  <2>2. QED BY <2>1
<1>3. tip \in tip..(tip + k - 1) /\ tip + 1 \in tip..(tip + k - 1)
  BY <1>0, <1>1
<1>4. queue'[tip] = F("start", t, <<>>) /\ queue'[tip + 1] = g /\ g.tf = t
  BY DEF Begins
<1>5. /\ queue'[tip].tf = t /\ queue'[tip].kind = "start" /\ queue'[tip].buckets = <<>>
  BY <1>4 DEF F
<1>6. /\ \A n : Has(t, tip, n)' <=> queue'[tip].tf = t /\ In(<<t, n>>, queue'[tip].buckets)
      /\ \A kind : IsFrame(t, tip, kind)' <=> queue'[tip].tf = t /\ queue'[tip].kind = kind
      /\ \A n : Has(t, tip + 1, n)' <=> queue'[tip + 1].tf = t /\ In(<<t, n>>, queue'[tip + 1].buckets)
      /\ \A kind : IsFrame(t, tip + 1, kind)' <=> queue'[tip + 1].tf = t /\ queue'[tip + 1].kind = kind
  BY <1>2, <1>3
<1>7. /\ \A n \in Nat : ~Has(t, tip, n)'
      /\ IsFrame(t, tip, "start")' /\ \A kind : IsFrame(t, tip, kind)' => kind = "start"
  BY <1>5, <1>6, InEmpty
<1>8. /\ \A n \in Nat : Has(t, tip + 1, n)' <=> In(<<t, n>>, g.buckets)
      /\ \A kind : IsFrame(t, tip + 1, kind)' <=> g.kind = kind
  BY <1>4, <1>6
<1>9. tip + 2 \in Positions' /\ tip + 2 = tip + k /\ Positions' = -1..(tip + 2)
  BY <1>0, <1>1
<1>10. \A n \in Nat : Pending(t, n)' <=> In(<<t, n>>, rest)
  BY DEF Begins
<1>11. /\ \A n \in Nat : Has(t, tip + 2, n)' <=> In(<<t, n>>, rest)
       /\ \A kind : ~IsFrame(t, tip + 2, kind)'
  BY <1>1, <1>9, <1>10
<1>12. QED BY <1>1, <1>7, <1>8, <1>9, <1>11

LEMMA BegunIsClean ==
  ASSUME Types, Types', FramesAreSound, NEW t, NEW g, NEW rest, Begins(t, g, rest), Clean(t),
         closed[t] \in Nat
  PROVE  Clean(t)'
<1>0. PICK tip : tip = Tip
  OBVIOUS
<1>g. /\ tip \in Nat /\ tip >= 1
      /\ Positions = -1..tip /\ Positions' = -1..(tip + 2)
      /\ \A i \in Positions : i < tip => \A n : Has(t, i, n)' <=> Has(t, i, n)
      /\ \A i \in Positions : i < tip => \A kind : IsFrame(t, i, kind)' <=> IsFrame(t, i, kind)
      /\ \A n \in Nat : ~Has(t, tip, n)'
      /\ \A n \in Nat : Has(t, tip + 1, n)' <=> In(<<t, n>>, g.buckets)
      /\ \A n \in Nat : Has(t, tip + 2, n)' <=> In(<<t, n>>, rest)
      /\ IsFrame(t, tip, "start")'
  BY <1>0, BegunParts
<1>b. /\ \A n, k \in Nat : In(<<t, n>>, g.buckets) /\ In(<<t, k>>, rest) => n < k
      /\ closed'[t] = closed[t]
  BY DEF Begins
<1> SUFFICES ASSUME NEW i \in Positions', NEW j \in Positions', NEW n \in 1..closed[t],
                    i < j, Has(t, i, n)', Has(t, j, n)'
             PROVE  \E k \in Positions' : i < k /\ k < j /\ IsFrame(t, k, "start")'
  BY <1>b DEF Clean
<1>1. n \in Nat /\ i \in Int /\ j \in Int /\ tip \in Positions'
  BY <1>g
<1>2. CASE i >= tip
  <2>1. i = tip + 1 /\ j = tip + 2
    <3>1. i # tip /\ (i = tip \/ i = tip + 1 \/ i = tip + 2) /\ j <= tip + 2
      BY <1>1, <1>2, <1>g
    <3>2. QED BY <1>1, <1>g, <3>1
  <2>2. In(<<t, n>>, g.buckets) /\ In(<<t, n>>, rest)
    BY <1>1, <1>g, <2>1
  <2>3. n < n
    BY <1>1, <1>b, <2>2
  <2>4. QED BY <1>1, <2>3
<1>3. CASE i < tip /\ j >= tip
  <2>1. j # tip
    BY <1>1, <1>g
  <2>2. tip < j
    BY <1>1, <1>3, <1>g, <2>1
  <2>3. QED BY <1>1, <1>3, <1>g, <2>2
<1>4. CASE i < tip /\ j < tip
  <2>1. i \in Positions /\ j \in Positions /\ Has(t, i, n) /\ Has(t, j, n)
    BY <1>4, <1>g
  <2>2. PICK k \in Positions : i < k /\ k < j /\ IsFrame(t, k, "start")
    BY <2>1 DEF Clean
  <2>3. k \in Positions' /\ k < tip
    BY <1>1, <1>4, <1>g, <2>2
  <2>4. QED BY <1>g, <2>2, <2>3
<1>5. QED BY <1>1, <1>2, <1>3, <1>4, <1>g

(* From here on the download is what was begun.                            *)
LEMMA BegunDownload ==
  ASSUME Types, Types', NEW t, NEW g, NEW rest, Begins(t, g, rest), closed[t] \in Nat
  PROVE  Download(t)'
<1>0. PICK tip : tip = Tip
  OBVIOUS
<1>g. /\ tip \in Nat /\ tip >= 1 /\ Positions' = -1..(tip + 2)
      /\ \A n \in Nat : ~Has(t, tip, n)'
      /\ \A n \in Nat : Has(t, tip + 1, n)' <=> In(<<t, n>>, g.buckets)
      /\ \A n \in Nat : Has(t, tip + 2, n)' <=> In(<<t, n>>, rest)
      /\ IsFrame(t, tip, "start")'
      /\ \A kind : IsFrame(t, tip + 1, kind)' <=> g.kind = kind
      /\ \A kind : ~IsFrame(t, tip + 2, kind)'
      /\ \A kind : IsFrame(t, tip, kind)' => kind = "start"
  BY <1>0, BegunParts
<1>b. /\ \A n, k \in Nat : In(<<t, n>>, g.buckets) /\ In(<<t, k>>, rest) => n < k
      /\ closed'[t] = closed[t] /\ g.kind \in {"chunk", "end"}
      /\ \A n \in Nat : In(<<t, n>>, g.buckets) \/ In(<<t, n>>, rest)
                         <=> n \in 1..closed[t] /\ n + Cap > closed[t]
      /\ g.kind = "chunk" => \E q \in DOMAIN tasks' : tasks'[q].tf = t
  BY DEF Begins
<1>c. /\ tip \in Positions' /\ tip + 1 \in Positions' /\ tip + 2 \in Positions' /\ -1 < tip
      /\ \A i \in Positions' : i \in Int /\ (i < tip \/ i = tip \/ i = tip + 1 \/ i = tip + 2)
      /\ \A i, j \in Positions' : i < j /\ i = tip + 1 => j = tip + 2
      /\ \A i, j \in Positions' : i < j /\ i = tip + 2 => FALSE
      /\ \A i, j \in Positions' : i > j /\ j = tip + 1 => i = tip + 2
      /\ \A i, j \in Positions' : i > j /\ j = tip + 2 => FALSE
      /\ -1 \in Positions'
  BY <1>g
<1>k. \A i \in Positions' : IsFrame(t, i, "start")' => ~(i = tip + 1) /\ ~(i = tip + 2)
  <2>1. g.kind # "start"
    BY <1>b
  <2>2. QED BY <1>g, <2>1
<1>l. \A i \in Positions' : Late(t, i)' => ~(i < tip)
  BY <1>c, <1>g DEF Late
<1>m. /\ \A i \in Positions' : i = tip + 1 => Late(t, i)'
      /\ \A i \in Positions' : i = tip + 2 => Late(t, i)'
  BY <1>c, <1>k DEF Late
<1>1. ASSUME NEW i \in Positions', NEW j \in Positions', NEW n \in 1..closed'[t],
             NEW k \in 1..closed'[t], i < j, Late(t, i)', Has(t, i, n)', Has(t, j, k)'
      PROVE  n < k
  <2>1. n \in Nat /\ k \in Nat
    BY <1>b
  <2>2. i = tip + 1 /\ j = tip + 2
    BY <1>1, <1>c, <1>g, <1>l, <2>1
  <2>3. QED BY <1>1, <1>b, <1>g, <2>1, <2>2
<1>2. Ordered(t)'
  BY <1>1 DEF Ordered
<1>3. ~Late(t, -1)'
  BY <1>c, <1>l
<1>4. Apart(t)'
  <2>1. ASSUME NEW i \in Positions', NEW j \in Positions', NEW n \in 1..closed'[t],
               i < j, Late(t, i)', Has(t, i, n)', Has(t, j, n)'
        PROVE  FALSE
    <3>1. n < n /\ n \in Int
      BY <1>1, <1>b, <2>1
    <3>2. QED BY <3>1
  <2>2. QED BY <1>3, <2>1 DEF Apart
<1>5. Ends(t)'
  <2> SUFFICES ASSUME \A q \in DOMAIN tasks' : tasks'[q].tf # t,
                      NEW i \in Positions', Late(t, i)', IsFrame(t, i, "chunk")'
               PROVE  FALSE
    BY <1>3 DEF Ends
  <2>1. g.kind = "end"
    BY <1>b
  <2>2. QED BY <1>c, <1>g, <1>l, <2>1
<1>6. ASSUME NEW n \in 1..closed'[t], n + Cap > closed'[t]
      PROVE  \E i \in Positions' : Late(t, i)' /\ Has(t, i, n)'
  <2>1. n \in Nat /\ (In(<<t, n>>, g.buckets) \/ In(<<t, n>>, rest))
    BY <1>6, <1>b
  <2>2. QED BY <1>c, <1>g, <1>m, <2>1
<1>7. Covers(t)'
  BY <1>6 DEF Covers
<1>8. Gapless(t)'
  <2>1. ASSUME NEW i \in Positions', NEW n \in 1..closed'[t], NEW k \in 1..closed'[t],
               Late(t, i)', Has(t, i, n)', n <= k
        PROVE  \E j \in Positions' : Late(t, j)' /\ Has(t, j, k)'
    <3>1. n \in Nat /\ k \in Nat
      BY <1>b
    <3>2. In(<<t, n>>, g.buckets) \/ In(<<t, n>>, rest)
      BY <1>c, <1>g, <1>l, <2>1, <3>1
    <3>3. n + Cap > closed[t]
      BY <1>b, <3>1, <3>2
    <3>4. k + Cap > closed'[t]
      BY <1>b, <2>1, <3>1, <3>3, CatchupAssumption
    <3>5. QED BY <1>6, <3>4
  <2>2. QED BY <1>3, <2>1 DEF Gapless
<1>9. QED BY <1>2, <1>4, <1>5, <1>7, <1>8 DEF Download

-----------------------------------------------------------------------------
(* The tasks take turns: the first is done, or goes to the end with what   *)
(* it has left.                                                            *)
Turn(x) ==
    /\ tasks # <<>> /\ x.tf = Head(tasks).tf /\ x.started
    /\ tasks' = Tail(tasks) \/ tasks' = Append(Tail(tasks), x)

LEMMA TurnParts ==
  ASSUME Types, NEW x, Turn(x)
  PROVE  /\ Len(tasks) \in Nat /\ Len(tasks) >= 1 /\ DOMAIN tasks = 1..Len(tasks)
         /\ tasks[1] = Head(tasks)
         /\ \A q \in DOMAIN tasks' :
               \/ q \in Int /\ q + 1 \in DOMAIN tasks /\ tasks'[q] = tasks[q + 1]
               \/ q = Len(tasks) /\ tasks'[q] = x
         /\ \A q \in DOMAIN tasks : q = 1 \/ (q - 1 \in DOMAIN tasks' /\ tasks'[q - 1] = tasks[q])
         /\ tasks' # Tail(tasks) => Len(tasks) \in DOMAIN tasks' /\ tasks'[Len(tasks)] = x
         /\ \A q \in DOMAIN tasks' : q \in Int /\ q >= 1
<1>1. tasks \in Seq(OwnTask) /\ tasks # <<>>
  BY DEF Types, DaemonTypes, Turn
<1>2. PICK L \in Nat : L = Len(tasks)
  BY <1>1
<1>3. L >= 1 /\ DOMAIN tasks = 1..L /\ tasks[1] = Head(tasks)
  BY <1>1, <1>2
<1>4. /\ Tail(tasks) \in Seq(OwnTask) /\ Len(Tail(tasks)) = L - 1
      /\ DOMAIN Tail(tasks) = 1..(L - 1)
      /\ \A q \in 1..(L - 1) : Tail(tasks)[q] = tasks[q + 1]
  BY <1>1, <1>2
<1>5. CASE tasks' = Tail(tasks)
  <2>1. \A q \in DOMAIN tasks' : q \in Int /\ q + 1 \in DOMAIN tasks /\ tasks'[q] = tasks[q + 1]
    BY <1>3, <1>4, <1>5
  <2>2. ASSUME NEW q \in DOMAIN tasks, q # 1
        PROVE  q - 1 \in DOMAIN tasks' /\ tasks'[q - 1] = tasks[q]
    <3>1. q - 1 \in 1..(L - 1) /\ (q - 1) + 1 = q
      BY <1>3, <2>2
    <3>2. QED BY <1>4, <1>5, <3>1
  <2>3. \A q \in DOMAIN tasks' : q \in Int /\ q >= 1
    BY <1>4, <1>5
  <2>4. QED BY <1>2, <1>3, <1>5, <2>1, <2>2, <2>3
<1>6. CASE tasks' = Append(Tail(tasks), x)
  <2>1. /\ DOMAIN tasks' = 1..L /\ tasks'[L] = x
        /\ \A q \in 1..(L - 1) : tasks'[q] = Tail(tasks)[q]
    <3>1. PICK u \in Seq(OwnTask) : u = Tail(tasks) /\ Len(u) = L - 1
      BY <1>4
    <3>2. /\ Len(Append(u, x)) = Len(u) + 1 /\ Append(u, x)[Len(u) + 1] = x
          /\ \A q \in 1..Len(u) : Append(u, x)[q] = u[q]
          /\ DOMAIN Append(u, x) = 1..(Len(u) + 1)
      BY <3>1
    <3>3. (L - 1) + 1 = L
      OBVIOUS
    <3>4. QED BY <1>6, <3>1, <3>2, <3>3
  <2>2. ASSUME NEW q \in DOMAIN tasks', q # L
        PROVE  q \in Int /\ q + 1 \in DOMAIN tasks /\ tasks'[q] = tasks[q + 1]
    <3>1. q \in 1..(L - 1) /\ q \in Int /\ q + 1 \in 1..L
      BY <2>1, <2>2
    <3>2. QED BY <1>3, <1>4, <2>1, <3>1
  <2>3. ASSUME NEW q \in DOMAIN tasks, q # 1
        PROVE  q - 1 \in DOMAIN tasks' /\ tasks'[q - 1] = tasks[q]
    <3>1. q - 1 \in 1..(L - 1) /\ q - 1 \in 1..L /\ (q - 1) + 1 = q
      BY <1>3, <2>3
    <3>2. QED BY <1>4, <2>1, <3>1
  <2>4. \A q \in DOMAIN tasks' : q \in Int /\ q >= 1
    BY <2>1
  <2>5. QED BY <1>2, <1>3, <2>1, <2>2, <2>3, <2>4
<1>7. QED BY <1>5, <1>6 DEF Turn

LEMMA TurnKeepsTasks ==
  ASSUME Types, OneTask, LastBegins, NEW x, Turn(x), sub' = sub, doubled' = doubled,
         marred \subseteq marred'
  PROVE  OneTask' /\ LastBegins'
<1>t. /\ Len(tasks) \in Nat /\ Len(tasks) >= 1 /\ DOMAIN tasks = 1..Len(tasks)
      /\ tasks[1] = Head(tasks)
      /\ \A q \in DOMAIN tasks' :
            \/ q \in Int /\ q + 1 \in DOMAIN tasks /\ tasks'[q] = tasks[q + 1]
            \/ q = Len(tasks) /\ tasks'[q] = x
      /\ \A q \in DOMAIN tasks : q = 1 \/ (q - 1 \in DOMAIN tasks' /\ tasks'[q - 1] = tasks[q])
      /\ \A q \in DOMAIN tasks' : q \in Int /\ q >= 1
  BY TurnParts
<1>x. x.tf = tasks[1].tf /\ x.started
  BY <1>t DEF Turn
<1>1. ASSUME NEW t \in Tfs, Alone(t), NEW p \in DOMAIN tasks', NEW q \in DOMAIN tasks',
             tasks'[p].tf = t, tasks'[q].tf = t
      PROVE  p = q
  <2>1. 1 \in DOMAIN tasks
    BY <1>t
  <2>2. \A r \in DOMAIN tasks' : tasks'[r].tf = t =>
            \/ r \in Int /\ r + 1 \in DOMAIN tasks /\ tasks[r + 1].tf = t /\ r >= 1
            \/ r = Len(tasks) /\ tasks[1].tf = t
    BY <1>t, <1>x
  <2>3. \A r, s \in DOMAIN tasks : tasks[r].tf = t /\ tasks[s].tf = t => r = s
    BY <1>1 DEF Alone
  <2>4. \A r \in Int : r >= 1 => r + 1 # 1
    OBVIOUS
  <2>5. \A r \in DOMAIN tasks' : tasks'[r].tf = t => (r \in Int /\ r + 1 \in DOMAIN tasks /\ tasks[r + 1].tf = t) \/ tasks[1].tf = t
    BY <2>2
  <2>6. CASE tasks[1].tf = t
    <3>1. \A r \in DOMAIN tasks' : tasks'[r].tf = t => r = Len(tasks)
      BY <2>1, <2>2, <2>3, <2>4, <2>6
    <3>2. QED BY <1>1, <3>1
  <2>7. CASE tasks[1].tf # t
    <3>1. p \in Int /\ q \in Int /\ p + 1 = q + 1
      BY <1>1, <2>2, <2>3, <2>7
    <3>2. QED BY <3>1
  <2>8. QED BY <2>6, <2>7
<1>2. OneTask'
  BY <1>1 DEF OneTask, Alone
<1>3. LastBegins'
  <2> SUFFICES ASSUME NEW q \in DOMAIN tasks', ~tasks'[q].started
               PROVE  \E p \in DOMAIN tasks' :
                          /\ tasks'[p].tf = sub /\ ~tasks'[p].started
                          /\ \A r \in DOMAIN tasks' : r > p => tasks'[r].started
    BY DEF LastBegins
  <2>1. q \in Int /\ q + 1 \in DOMAIN tasks /\ ~tasks[q + 1].started
    BY <1>t, <1>x
  <2>2. PICK p \in DOMAIN tasks : /\ tasks[p].tf = sub /\ ~tasks[p].started
                                  /\ \A r \in DOMAIN tasks : r > p => tasks[r].started
    BY <2>1 DEF LastBegins
  <2>3. p # 1
    <3>1. q + 1 > 1
      <4>1. q >= 1
        BY <1>t
      <4>2. QED BY <2>1, <4>1
    <3>2. QED BY <2>1, <2>2, <3>1
  <2>4. p - 1 \in DOMAIN tasks' /\ tasks'[p - 1] = tasks[p] /\ p \in Int
    BY <1>t, <2>3
  <2>5. ASSUME NEW r \in DOMAIN tasks', r > p - 1 PROVE tasks'[r].started
    <3>1. CASE r \in Int /\ r + 1 \in DOMAIN tasks /\ tasks'[r] = tasks[r + 1]
      <4>1. r + 1 > p
        BY <2>4, <2>5, <3>1
      <4>2. QED BY <2>2, <3>1, <4>1
    <3>2. QED BY <1>t, <1>x, <3>1
  <2>6. QED BY <2>2, <2>4, <2>5
<1>4. QED BY <1>2, <1>3

-----------------------------------------------------------------------------
(* What is sound stays so: buckets only close.                             *)
Grow == \A t \in Tfs : closed[t] \in Nat /\ closed'[t] \in Nat /\ closed[t] <= closed'[t]

LEMMA ClosedGrows == Types /\ Next => Grow
<1> SUFFICES ASSUME Types, Next PROVE Grow
  OBVIOUS
<1>1. closed \in [Tfs -> Nat]
  BY DEF Types, DaemonTypes
<1>2. CASE closed' = closed
  BY <1>1, <1>2 DEF Grow
<1>3. CASE \E t \in Tfs, k \in 1..2 : CloseBuckets(t, k)
  <2>1. PICK t \in Tfs, k \in 1..2 : closed' = [closed EXCEPT ![t] = @ + k]
    BY <1>3 DEF CloseBuckets
  <2>2. k \in Nat
    OBVIOUS
  <2>3. QED BY <1>1, <2>1, <2>2 DEF Grow
<1>4. CASE HandleControl \/ BeginCatchup \/ ContinueCatchup \/ (\E t \in Tfs : SwitchTf(t)) \/ Connect
             \/ GuiBaseline \/ WorkerBaseline \/ Disconnect \/ Flush \/ Receive \/ ApplyHeld
  BY <1>2, <1>4 DEF HandleControl, BeginCatchup, ContinueCatchup, SwitchTf, Connect, GuiBaseline,
                    WorkerBaseline, Disconnect, Flush, Receive, ApplyHeld, daemon
<1>5. QED BY <1>3, <1>4 DEF Next

LEMMA PastStays ==
  ASSUME Grow, NEW t \in Tfs, NEW s, IsPast(t, s)
  PROVE  IsPast(t, s)'
<1>1. closed[t] \in Nat /\ closed'[t] \in Nat /\ closed[t] <= closed'[t]
  BY DEF Grow
<1>2. 1..closed[t] \subseteq 1..closed'[t]
  BY <1>1
<1>3. QED BY <1>2 DEF IsPast

LEMMA SoundStays ==
  ASSUME Grow, NEW f, f.tf \in Tfs
  PROVE  (SoundFrame(f) => SoundFrame(f)') /\ (SoundTask(f) => SoundTask(f)')
<1>1. \A s : IsPast(f.tf, s) => IsPast(f.tf, s)'
  BY PastStays
<1>2. QED BY <1>1 DEF SoundFrame, SoundTask, IsRun, RunFrom

(* Every frame and task was there before or is sound by itself.            *)
LEMMA StaysSound ==
  ASSUME Types, Types', Grow, FramesAreSound,
         \A i \in DOMAIN queue' : \/ \E j \in DOMAIN queue : queue'[i] = queue[j]
                                  \/ \A f : f = queue'[i] => SoundFrame(f)',
         held' = None \/ held' = held \/ \E j \in DOMAIN queue : held' = queue[j],
         \A q \in DOMAIN tasks' : \/ \E p \in DOMAIN tasks : tasks'[q] = tasks[p]
                                  \/ \A k : k = tasks'[q] => SoundTask(k)',
         history' = <<>> \/ (tf' = tf /\ \A h : h = history' => IsPast(tf, h))
  PROVE  FramesAreSound'
<1>1. ASSUME NEW i \in DOMAIN queue', NEW f, f = queue'[i] PROVE SoundFrame(f)'
  <2>1. CASE \E j \in DOMAIN queue : queue'[i] = queue[j]
    <3>1. SoundFrame(f)
      BY <1>1, <2>1 DEF FramesAreSound
    <3>2. f.tf \in Tfs
      <4>1. f \in OwnFrame
        BY <1>1 DEF Types, WireTypes
      <4>2. QED BY <4>1, OwnFrameParts
    <3>3. QED BY <3>1, <3>2, SoundStays
  <2>2. QED BY <1>1, <2>1
<1>2. ASSUME NEW f, f = held', held' # None PROVE SoundFrame(f)'
  <2>1. SoundFrame(f)
    BY <1>2 DEF FramesAreSound
  <2>2. f.tf \in Tfs
    <3>1. f \in OwnFrame
      BY <1>2 DEF Types, ClientTypes, CatchupFrame
    <3>2. QED BY <3>1, OwnFrameParts
  <2>3. QED BY <2>1, <2>2, SoundStays
<1>3. ASSUME NEW q \in DOMAIN tasks', NEW k, k = tasks'[q] PROVE SoundTask(k)'
  <2>1. CASE \E p \in DOMAIN tasks : tasks'[q] = tasks[p]
    <3>1. SoundTask(k)
      BY <1>3, <2>1 DEF FramesAreSound
    <3>2. k.tf \in Tfs
      <4>1. k \in OwnTask
        BY <1>3 DEF Types, DaemonTypes
      <4>2. QED BY <4>1 DEF OwnTask, Task
    <3>3. QED BY <3>1, <3>2, SoundStays
  <2>2. QED BY <1>3, <2>1
<1>4. ASSUME NEW h, h = history', NEW t, t = tf' PROVE IsPast(t, h)'
  <2>1. CASE h = <<>>
    <3>1. DOMAIN h = {}
      BY <2>1
    <3>2. QED BY <3>1 DEF IsPast
  <2>2. CASE h # <<>>
    <3>1. IsPast(t, h) /\ t \in Tfs
      BY <1>4, <2>2 DEF Types, ClientTypes
    <3>2. QED BY <3>1, PastStays
  <2>3. QED BY <2>1, <2>2
<1>5. (\A i \in DOMAIN queue : SoundFrame(queue[i]))'
  BY <1>1 DEF SoundFrame, IsPast
<1>6. (held # None => SoundFrame(held))'
  BY <1>2 DEF SoundFrame, IsPast
<1>7. (\A q \in DOMAIN tasks : SoundTask(tasks[q]))'
  BY <1>3 DEF SoundTask, IsPast
<1>8. IsPast(tf, history)'
  BY <1>4 DEF IsPast
<1>9. QED BY <1>5, <1>6, <1>7, <1>8 DEF FramesAreSound

(* Chunks of what has closed have closed.                                  *)
LEMMA ChunksArePast ==
  ASSUME NEW t, NEW s \in Own(t), IsRun(t, s), IsPast(t, s)
  PROVE  /\ FirstChunk(s) \in Own(t) /\ IsRun(t, FirstChunk(s)) /\ IsPast(t, FirstChunk(s))
         /\ Rest(s) \in Own(t) /\ IsRun(t, Rest(s)) /\ IsPast(t, Rest(s))
<1>1. PICK base \in Nat : RunFrom(base, t, s)
  BY DEF IsRun
<1>2. PICK c \in 0..Len(s) :
          /\ FirstChunk(s) \in Own(t) /\ Len(FirstChunk(s)) = c
          /\ RunFrom(base, t, FirstChunk(s))
          /\ Rest(s) \in Own(t) /\ Len(Rest(s)) = Len(s) - c
          /\ RunFrom(base + c, t, Rest(s))
  BY <1>1, ChunksOfRun
<1>3. Len(s) \in Nat /\ DOMAIN s = 1..Len(s) /\ c \in Nat /\ base + c \in Nat
  BY DEF Own
<1>4. \A n \in 1..Len(s) : <<t, base + n>> \in {t} \X (1..closed[t])
  BY <1>1, <1>3 DEF RunFrom, IsPast
<1>5. DOMAIN FirstChunk(s) = 1..c /\ DOMAIN Rest(s) = 1..(Len(s) - c)
  BY <1>2 DEF Own
<1>6. IsPast(t, FirstChunk(s))
  <2>1. ASSUME NEW e \in 1..c PROVE FirstChunk(s)[e] \in {t} \X (1..closed[t])
    <3>1. e \in 1..Len(s)
      BY <1>3
    <3>2. FirstChunk(s)[e] = <<t, base + e>>
      BY <1>2, <1>5 DEF RunFrom
    <3>3. QED BY <1>4, <3>1, <3>2
  <2>2. QED BY <1>5, <2>1 DEF IsPast
<1>7. IsPast(t, Rest(s))
  <2>1. ASSUME NEW e \in 1..(Len(s) - c) PROVE Rest(s)[e] \in {t} \X (1..closed[t])
    <3>1. c + e \in 1..Len(s) /\ (base + c) + e = base + (c + e)
      BY <1>3
    <3>2. Rest(s)[e] = <<t, (base + c) + e>>
      BY <1>2, <1>5 DEF RunFrom
    <3>3. QED BY <1>4, <3>1, <3>2
  <2>2. QED BY <1>5, <2>1 DEF IsPast
<1>8. QED BY <1>2, <1>3, <1>6, <1>7 DEF IsRun

LEMMA RetainedIsPast ==
  ASSUME closed \in [Tfs -> Nat], NEW t \in Tfs
  PROVE  Retained(t) \in Own(t) /\ IsRun(t, Retained(t)) /\ IsPast(t, Retained(t))
<1>1. /\ Retained(t) \in Own(t)
      /\ \A n \in Nat : In(<<t, n>>, Retained(t)) => n \in 1..closed[t]
  BY RetainedIsRun
<1>2. IsRun(t, Retained(t))
  BY RetainedIsRun DEF IsRun
<1>3. PICK s : s = Retained(t)
  OBVIOUS
<1>4. ASSUME NEW e \in DOMAIN s PROVE s[e] \in {t} \X (1..closed[t])
  <2>1. s[e] \in {t} \X Nat
    BY <1>1, <1>3 DEF Own
  <2>2. PICK n \in Nat : s[e] = <<t, n>>
    BY <2>1
  <2>3. n \in 1..closed[t]
    BY <1>1, <1>3, <2>2 DEF In
  <2>4. QED BY <2>2, <2>3
<1>5. QED BY <1>1, <1>2, <1>3, <1>4 DEF IsPast

(* The frames a task sends are sound, and so is what it has left.          *)
LEMMA TasksSendSound ==
  ASSUME Types, FramesAreSound, NEW t \in Tfs, NEW rest \in Own(t), IsRun(t, rest), IsPast(t, rest)
  PROVE  /\ \A e \in DOMAIN BeginFrames(t) : SoundFrame(BeginFrames(t)[e]) /\ BeginFrames(t)[e].tf = t
         /\ \A e \in DOMAIN ContinueFrames(t, rest) :
               SoundFrame(ContinueFrames(t, rest)[e]) /\ ContinueFrames(t, rest)[e].tf = t
         /\ SoundTask([tf |-> t, started |-> TRUE, rest |-> Rest(Retained(t))])
         /\ SoundTask([tf |-> t, started |-> TRUE, rest |-> Rest(rest)])
<1>1. \A kind : /\ F(kind, t, <<>>).tf = t /\ F(kind, t, <<>>).buckets = <<>>
                /\ F(kind, t, <<>>).kind = kind
  BY DEF F
<1>2. \A kind : SoundFrame(F(kind, t, <<>>))
  <2>1. IsRun(t, <<>>) /\ IsPast(t, <<>>)
    BY EmptyRun DEF IsPast
  <2>2. QED BY <1>1, <2>1 DEF SoundFrame
<1>3. /\ Retained(t) \in Own(t) /\ IsRun(t, Retained(t)) /\ IsPast(t, Retained(t))
  BY RetainedIsPast DEF Types, DaemonTypes
<1>4. ASSUME NEW s \in Own(t), IsRun(t, s), IsPast(t, s)
      PROVE  /\ SoundFrame(F("chunk", t, FirstChunk(s))) /\ F("chunk", t, FirstChunk(s)).tf = t
             /\ SoundTask([tf |-> t, started |-> TRUE, rest |-> Rest(s)])
  <2>1. /\ IsRun(t, FirstChunk(s)) /\ IsPast(t, FirstChunk(s))
        /\ IsRun(t, Rest(s)) /\ IsPast(t, Rest(s))
    BY <1>4, ChunksArePast
  <2>2. QED BY <2>1 DEF F, SoundFrame, SoundTask
<1>5. ASSUME NEW e \in DOMAIN BeginFrames(t)
      PROVE  SoundFrame(BeginFrames(t)[e]) /\ BeginFrames(t)[e].tf = t
  <2>1. CASE Retained(t) = <<>>
    <3>1. BeginFrames(t) = <<F("start", t, <<>>), F("end", t, <<>>)>>
      BY <2>1 DEF BeginFrames
    <3>2. BeginFrames(t)[e] = F("start", t, <<>>) \/ BeginFrames(t)[e] = F("end", t, <<>>)
      BY <3>1
    <3>3. QED BY <1>1, <1>2, <3>2
  <2>2. CASE Retained(t) # <<>>
    <3>1. BeginFrames(t) = <<F("start", t, <<>>), F("chunk", t, FirstChunk(Retained(t)))>>
      BY <2>2 DEF BeginFrames
    <3>2. \/ BeginFrames(t)[e] = F("start", t, <<>>)
          \/ BeginFrames(t)[e] = F("chunk", t, FirstChunk(Retained(t)))
      BY <3>1
    <3>3. QED BY <1>1, <1>2, <1>3, <1>4, <3>2
  <2>3. QED BY <2>1, <2>2
<1>6. ASSUME NEW e \in DOMAIN ContinueFrames(t, rest)
      PROVE  SoundFrame(ContinueFrames(t, rest)[e]) /\ ContinueFrames(t, rest)[e].tf = t
  <2>1. CASE rest = <<>>
    <3>1. ContinueFrames(t, rest) = <<F("end", t, <<>>)>>
      BY <2>1 DEF ContinueFrames
    <3>2. ContinueFrames(t, rest)[e] = F("end", t, <<>>)
      BY <3>1
    <3>3. QED BY <1>1, <1>2, <3>2
  <2>2. CASE rest # <<>>
    <3>1. ContinueFrames(t, rest) = <<F("chunk", t, FirstChunk(rest))>>
      BY <2>2 DEF ContinueFrames
    <3>2. ContinueFrames(t, rest)[e] = F("chunk", t, FirstChunk(rest))
      BY <3>1
    <3>3. QED BY <1>4, <3>2
  <2>3. QED BY <2>1, <2>2
<1>7. QED BY <1>3, <1>4, <1>5, <1>6

(* The queue after a step that sends sound frames.                         *)
LEMMA QueuedSound ==
  ASSUME Types, FramesAreSound, Grow, NEW frames \in Seq(OwnFrame), queue' = Queued(frames),
         \A e \in DOMAIN frames : SoundFrame(frames[e])'
  PROVE  \A i \in DOMAIN queue' : \/ \E j \in DOMAIN queue : queue'[i] = queue[j]
                                  \/ \A f : f = queue'[i] => SoundFrame(f)'
<1>0. queue \in Seq(OwnFrame) /\ Len(queue) <= QueueMax
  BY DEF Types, WireTypes
<1>1. PICK k \in 0..Len(frames) :
          /\ Queued(frames) \in Seq(OwnFrame) /\ Len(Queued(frames)) = Len(queue) + k
          /\ \A i \in 1..Len(queue) : Queued(frames)[i] = queue[i]
          /\ \A e \in 1..k : Queued(frames)[Len(queue) + e] = frames[e]
  BY <1>0, QueuedParts
<1>2. /\ Len(queue) \in Nat /\ DOMAIN queue = 1..Len(queue) /\ DOMAIN queue' = 1..(Len(queue) + k)
      /\ DOMAIN frames = 1..Len(frames) /\ Len(frames) \in Nat /\ k \in Nat
  BY <1>0, <1>1
<1>3. SUFFICES ASSUME NEW i \in DOMAIN queue', ~ \E j \in DOMAIN queue : queue'[i] = queue[j],
                      NEW f, f = queue'[i]
               PROVE  SoundFrame(f)'
  OBVIOUS
<1>4. i \in Int /\ i > Len(queue) /\ i - Len(queue) \in 1..k /\ Len(queue) + (i - Len(queue)) = i
  <2>1. i \notin 1..Len(queue)
    BY <1>1, <1>2, <1>3
  <2>2. QED BY <1>2, <2>1
<1>5. f = frames[i - Len(queue)] /\ i - Len(queue) \in DOMAIN frames
  <2>1. f = frames[i - Len(queue)]
    BY <1>1, <1>3, <1>4
  <2>2. QED BY <1>2, <1>4, <2>1
<1>6. PICK e \in DOMAIN frames : f = frames[e]
  BY <1>5
<1>7. QED BY <1>6

-----------------------------------------------------------------------------
(* Every step keeps the line sound.                                        *)

(* Tasks that stay as they are.                                            *)
LEMMA SameTasks ==
  ASSUME OneTask, LastBegins, tasks' = tasks, sub' = sub, doubled' = doubled, marred \subseteq marred'
  PROVE  OneTask' /\ LastBegins'
<1>1. \A t : Alone(t)' <=> Alone(t)
  BY DEF Alone
<1>2. OneTask'
  BY <1>1 DEF OneTask
<1>3. LastBegins'
  BY DEF LastBegins
<1>4. QED BY <1>2, <1>3

LEMMA MarredGrows == \A t, frames : marred \subseteq Marred(t, frames)
BY DEF Marred

LEMMA CloseKeepsSound ==
  ASSUME Types, Types', Grow, LineIsSound, NEW t \in Tfs, NEW k \in 1..2, CloseBuckets(t, k)
  PROVE  LineIsSound'
<1>0. FramesAreSound /\ OneTask /\ LastBegins /\ DownIsEmpty
  BY DEF LineIsSound
<1>u. /\ tasks' = tasks /\ sub' = sub /\ link' = link /\ doubled' = doubled
      /\ tf' = tf /\ history' = history /\ held' = held
      /\ closed'[t] = closed[t] + k /\ closed[t] \in Nat
  BY DEF CloseBuckets, client, Types, DaemonTypes
<1>1. CASE link /\ sub = t
  <2> DEFINE b == [i \in 1..k |-> <<t, closed[t] + i>>]
  <2>1. PICK c, d, frames : /\ c = closed[t] /\ d = c + k /\ frames = CloseFrames(t, k)
    OBVIOUS
  <2>2. frames \in Seq(OwnFrame) /\ queue' = Queued(frames) /\ marred' = Marred(t, frames)
    <3>1. k \in Nat /\ DaemonTypes
      BY DEF Types
    <3>2. CloseFrames(t, k) \in Seq(OwnFrame)
      BY <3>1, FramesAreOwn
    <3>3. QED BY <1>1, <2>1, <3>2, CloseSends
  <2>3. PICK s : s = [i \in 1..k |-> <<t, c + i>>]
    OBVIOUS
  <2>4. frames = <<F("close", t, s)>>
    BY <2>1, <2>3 DEF CloseFrames
  <2>5. RunFrom(c, t, s) /\ (\A e \in DOMAIN s : s[e] \in {t} \X (1..closed'[t])) /\ c \in Nat
    BY <1>u, <2>1, <2>3 DEF RunFrom
  <2>6. IsPast(t, s)'
    BY <2>5 DEF IsPast
  <2>7. SoundFrame(F("close", t, s))'
    BY <2>5, <2>6 DEF SoundFrame, F, IsRun, RunFrom
  <2>8. \A e \in DOMAIN frames : SoundFrame(frames[e])'
    <3>1. \A e \in DOMAIN frames : frames[e] = F("close", t, s)
      BY <2>4
    <3>2. QED BY <2>7, <3>1
  <2>9. \A i \in DOMAIN queue' : \/ \E j \in DOMAIN queue : queue'[i] = queue[j]
                                 \/ \A f : f = queue'[i] => SoundFrame(f)'
    BY <1>0, <2>2, <2>8, QueuedSound
  <2>10. \A h : h = history' => IsPast(tf, h)
    BY <1>0, <1>u DEF FramesAreSound
  <2>11. FramesAreSound'
    BY <1>0, <1>u, <2>9, <2>10, StaysSound
  <2>12. OneTask' /\ LastBegins'
    BY <1>0, <1>u, <2>2, SameTasks, MarredGrows
  <2>13. DownIsEmpty'
    BY <1>1, <1>u DEF DownIsEmpty
  <2>14. QED BY <2>11, <2>12, <2>13 DEF LineIsSound
<1>2. CASE ~(link /\ sub = t)
  <2>1. queue' = queue /\ marred' = marred
    BY <1>2 DEF CloseBuckets
  <2>2. \A h : h = history' => IsPast(tf, h)
    BY <1>0, <1>u DEF FramesAreSound
  <2>3. FramesAreSound'
    BY <1>0, <1>u, <2>1, <2>2, StaysSound
  <2>4. OneTask' /\ LastBegins'
    BY <1>0, <1>u, <2>1, SameTasks
  <2>5. DownIsEmpty'
    BY <1>0, <1>u, <2>1 DEF DownIsEmpty
  <2>6. QED BY <2>3, <2>4, <2>5 DEF LineIsSound
<1>3. QED BY <1>1, <1>2

LEMMA HandleKeepsSound ==
  ASSUME Types, Types', Grow, LineIsSound, HandleControl
  PROVE  LineIsSound'
<1>0. FramesAreSound /\ OneTask /\ LastBegins /\ DownIsEmpty
  BY DEF LineIsSound
<1>1. PICK t, x : t = Head(control) /\ x = [tf |-> t, started |-> FALSE, rest |-> <<>>]
  OBVIOUS
<1>u. /\ tasks' = Append(tasks, x) /\ sub' = t /\ link /\ link' = link
      /\ (doubled' <=> \E i \in DOMAIN tasks : tasks[i].tf = t)
      /\ marred' = IF doubled' THEN marred \cup {t} ELSE marred
      /\ queue' = queue /\ tf' = tf /\ history' = history /\ held' = held
  BY <1>1 DEF HandleControl, client
<1>x. x.tf = t /\ ~x.started /\ x.rest = <<>>
  BY <1>1
<1>2. PICK L \in Nat : L = Len(tasks) /\ DOMAIN tasks = 1..L
  BY DEF Types, DaemonTypes
<1>3. /\ DOMAIN tasks' = 1..(L + 1) /\ tasks'[L + 1] = x
      /\ \A q \in 1..L : tasks'[q] = tasks[q]
  <2>1. tasks \in Seq(OwnTask)
    BY DEF Types, DaemonTypes
  <2>2. QED BY <1>2, <1>u, <2>1
<1>4. /\ \A q \in DOMAIN tasks' : (q \in DOMAIN tasks /\ tasks'[q] = tasks[q]) \/ (q = L + 1 /\ tasks'[q] = x)
      /\ L + 1 \in DOMAIN tasks' /\ tasks'[L + 1] = x /\ \A q \in DOMAIN tasks' : ~(q > L + 1)
  BY <1>2, <1>3
<1>5. SoundTask(x)'
  <2>1. IsRun(t, <<>>) /\ IsPast(t, <<>>)'
    BY EmptyRun DEF IsPast
  <2>2. QED BY <1>x, <2>1 DEF SoundTask, IsRun, RunFrom
<1>6. FramesAreSound'
  <2>1. \A q \in DOMAIN tasks' : \/ \E p \in DOMAIN tasks : tasks'[q] = tasks[p]
                                 \/ \A k : k = tasks'[q] => SoundTask(k)'
    BY <1>4, <1>5
  <2>2. \A h : h = history' => IsPast(tf, h)
    BY <1>0, <1>u DEF FramesAreSound
  <2>3. QED BY <1>0, <1>u, <2>1, <2>2, StaysSound
<1>7. OneTask'
  <2> SUFFICES ASSUME NEW s \in Tfs, s \notin marred' \/ (sub' = s /\ ~doubled'),
                      NEW p \in DOMAIN tasks', NEW q \in DOMAIN tasks',
                      tasks'[p].tf = s, tasks'[q].tf = s
               PROVE  p = q
    BY DEF OneTask, Alone
  <2>1. CASE s = t
    <3>1. \A r \in DOMAIN tasks : tasks[r].tf # s
      BY <1>u, <2>1
    <3>2. QED BY <1>4, <3>1
  <2>2. CASE s # t
    <3>1. s \notin marred
      BY <1>u, <2>2
    <3>2. Alone(s)
      BY <1>0, <3>1 DEF OneTask
    <3>3. QED BY <1>4, <1>x, <2>2, <3>2 DEF Alone
  <2>3. QED BY <2>1, <2>2
<1>8. LastBegins'
  BY <1>4, <1>u, <1>x DEF LastBegins
<1>9. DownIsEmpty'
  BY <1>u DEF DownIsEmpty
<1>10. QED BY <1>6, <1>7, <1>8, <1>9 DEF LineIsSound

(* The task at the head of the queue of tasks.                             *)
LEMMA HeadTask ==
  ASSUME Types, FramesAreSound, tasks # <<>>
  PROVE  /\ Head(tasks).tf \in Tfs /\ Head(tasks).rest \in Own(Head(tasks).tf)
         /\ Head(tasks).started \in BOOLEAN
         /\ IsRun(Head(tasks).tf, Head(tasks).rest) /\ IsPast(Head(tasks).tf, Head(tasks).rest)
         /\ 1 \in DOMAIN tasks /\ tasks[1] = Head(tasks)
<1>1. tasks \in Seq(OwnTask)
  BY DEF Types, DaemonTypes
<1>2. 1 \in DOMAIN tasks /\ tasks[1] = Head(tasks)
  BY <1>1
<1>3. SoundTask(Head(tasks))
  BY <1>2 DEF FramesAreSound
<1>4. QED BY <1>2, <1>3, FirstTask DEF SoundTask, Types

(* What a step of the task at the head sends and leaves.                   *)
LEMMA TurnKeepsSound ==
  ASSUME Types, Types', Grow, LineIsSound, link, NEW x, Turn(x), SoundTask(x), x.tf \in Tfs,
         NEW frames \in Seq(OwnFrame), \A e \in DOMAIN frames : SoundFrame(frames[e]) /\ frames[e].tf \in Tfs,
         queue' = Queued(frames), marred \subseteq marred',
         UNCHANGED <<sub, link, doubled, tf, history, held>>
  PROVE  LineIsSound'
<1>0. FramesAreSound /\ OneTask /\ LastBegins /\ DownIsEmpty
  BY DEF LineIsSound
<1>1. \A e \in DOMAIN frames : SoundFrame(frames[e])'
  BY SoundStays
<1>2. \A i \in DOMAIN queue' : \/ \E j \in DOMAIN queue : queue'[i] = queue[j]
                               \/ \A f : f = queue'[i] => SoundFrame(f)'
  BY <1>0, <1>1, QueuedSound
<1>3. \A q \in DOMAIN tasks' : \/ \E p \in DOMAIN tasks : tasks'[q] = tasks[p]
                               \/ \A k : k = tasks'[q] => SoundTask(k)'
  <2>1. SoundTask(x)'
    BY SoundStays
  <2>2. \A q \in DOMAIN tasks' : \/ q \in Int /\ q + 1 \in DOMAIN tasks /\ tasks'[q] = tasks[q + 1]
                                 \/ q = Len(tasks) /\ tasks'[q] = x
    BY TurnParts
  <2>3. QED BY <2>1, <2>2
<1>4. \A h : h = history' => IsPast(tf, h)
  BY <1>0 DEF FramesAreSound
<1>5. FramesAreSound'
  BY <1>0, <1>2, <1>3, <1>4, StaysSound
<1>6. OneTask' /\ LastBegins'
  BY <1>0, TurnKeepsTasks
<1>7. DownIsEmpty'
  BY DEF DownIsEmpty
<1>8. QED BY <1>5, <1>6, <1>7 DEF LineIsSound

LEMMA BeginKeepsSound ==
  ASSUME Types, Types', Grow, LineIsSound, BeginCatchup
  PROVE  LineIsSound'
<1>0. FramesAreSound /\ DownIsEmpty /\ tasks # <<>> /\ link
  BY DEF LineIsSound, BeginCatchup, DownIsEmpty
<1>1. PICK t : t = Head(tasks).tf
  OBVIOUS
<1>2. PICK x, frames : /\ x = [tf |-> t, started |-> TRUE, rest |-> Rest(Retained(t))]
                       /\ frames = BeginFrames(t)
  OBVIOUS
<1>3. t \in Tfs /\ \E rest \in Own(t) : IsRun(t, rest) /\ IsPast(t, rest)
  BY <1>0, <1>1, HeadTask
<1>4. /\ SoundTask(x) /\ x.tf = t /\ x.started
      /\ \A e \in DOMAIN frames : SoundFrame(frames[e]) /\ frames[e].tf \in Tfs
  BY <1>0, <1>2, <1>3, TasksSendSound
<1>5. frames \in Seq(OwnFrame)
  BY <1>2, <1>3, FramesAreOwn DEF Types
<1>6. /\ queue' = Queued(frames) /\ marred \subseteq marred'
      /\ tasks' = Tail(tasks) \/ tasks' = Append(Tail(tasks), x)
  BY <1>1, <1>2, BeginSends, MarredGrows
<1>7. Turn(x)
  BY <1>0, <1>1, <1>4, <1>6 DEF Turn
<1>8. UNCHANGED <<sub, link, doubled, tf, history, held>>
  BY DEF BeginCatchup, client
<1>9. QED BY <1>0, <1>3, <1>4, <1>5, <1>6, <1>7, <1>8, TurnKeepsSound

LEMMA ContinueKeepsSound ==
  ASSUME Types, Types', Grow, LineIsSound, ContinueCatchup
  PROVE  LineIsSound'
<1>0. FramesAreSound /\ DownIsEmpty /\ tasks # <<>> /\ link
  BY DEF LineIsSound, ContinueCatchup, DownIsEmpty
<1>1. PICK t, rest : t = Head(tasks).tf /\ rest = Head(tasks).rest
  OBVIOUS
<1>2. PICK x, frames : /\ x = [tf |-> t, started |-> TRUE, rest |-> Rest(rest)]
                       /\ frames = ContinueFrames(t, rest)
  OBVIOUS
<1>3. t \in Tfs /\ rest \in Own(t) /\ IsRun(t, rest) /\ IsPast(t, rest)
  BY <1>0, <1>1, HeadTask
<1>4. /\ SoundTask(x) /\ x.tf = t /\ x.started
      /\ \A e \in DOMAIN frames : SoundFrame(frames[e]) /\ frames[e].tf \in Tfs
  BY <1>0, <1>2, <1>3, TasksSendSound
<1>5. frames \in Seq(OwnFrame)
  BY <1>2, <1>3, FramesAreOwn DEF Types
<1>6. /\ queue' = Queued(frames) /\ marred \subseteq marred'
      /\ tasks' = Tail(tasks) \/ tasks' = Append(Tail(tasks), [Head(tasks) EXCEPT !.rest = Rest(rest)])
  BY <1>1, <1>2, ContinueSends, MarredGrows
<1>7. [Head(tasks) EXCEPT !.rest = Rest(rest)] = x
  <2>1. Head(tasks) \in Task
    BY <1>0, FirstTask DEF OwnTask, Types
  <2>2. Head(tasks).started \in BOOLEAN /\ Head(tasks).started
    BY <1>0, HeadTask DEF ContinueCatchup
  <2>3. Head(tasks).started = TRUE
    BY <2>2
  <2>4. PICK k \in Task : k = Head(tasks)
    BY <2>1
  <2>5. k.tf = t /\ k.started = TRUE
    BY <1>1, <2>3, <2>4
  <2>6. [k EXCEPT !.rest = Rest(rest)] = [tf |-> k.tf, started |-> k.started, rest |-> Rest(rest)]
    BY DEF Task
  <2>7. QED BY <1>2, <2>4, <2>5, <2>6
<1>8. Turn(x)
  BY <1>0, <1>1, <1>4, <1>6, <1>7 DEF Turn
<1>9. UNCHANGED <<sub, link, doubled, tf, history, held>>
  BY DEF ContinueCatchup, client
<1>10. QED BY <1>0, <1>3, <1>4, <1>5, <1>6, <1>8, <1>9, TurnKeepsSound

(* No step of the terminal touches the tasks, except that the connection   *)
(* goes and comes with none.                                               *)
LEMMA TerminalKeepsSound ==
  ASSUME Types, Types', history \in Own(tf), LoadsAgree, Grow, LineIsSound,
         (\E t \in Tfs : SwitchTf(t)) \/ Connect \/ GuiBaseline \/ WorkerBaseline
             \/ Disconnect \/ Flush \/ Receive \/ ApplyHeld
  PROVE  LineIsSound'
<1>0. FramesAreSound /\ OneTask /\ LastBegins /\ DownIsEmpty
  BY DEF LineIsSound
<1> USE DEF daemon, loads, client, ghosts
<1>q. queue \in Seq(OwnFrame)
  BY DEF Types, WireTypes
<1>h. \A h : h = history => IsPast(tf, h)
  BY <1>0 DEF FramesAreSound
<1>1. ASSUME UNCHANGED <<tasks, queue, sub, doubled, marred, link>>,
             held' = None \/ held' = held,
             history' = <<>> \/ (tf' = tf /\ \A h : h = history' => IsPast(tf, h))
      PROVE  LineIsSound'
  <2>1. FramesAreSound'
    BY <1>0, <1>1, StaysSound
  <2>2. OneTask' /\ LastBegins'
    BY <1>0, <1>1, SameTasks
  <2>3. DownIsEmpty'
    BY <1>0, <1>1 DEF DownIsEmpty
  <2>4. QED BY <2>1, <2>2, <2>3 DEF LineIsSound
<1>2. ASSUME tasks' = <<>>, queue' = <<>>, held' = None \/ held' = held,
             link' \/ held' = None,
             history' = <<>> \/ (tf' = tf /\ \A h : h = history' => IsPast(tf, h))
      PROVE  LineIsSound'
  <2>1. DOMAIN tasks' = {} /\ DOMAIN queue' = {}
    BY <1>2
  <2>2. FramesAreSound'
    BY <1>0, <1>2, <2>1, StaysSound
  <2>3. OneTask' /\ LastBegins'
    BY <2>1 DEF OneTask, Alone, LastBegins
  <2>4. DownIsEmpty'
    BY <1>2 DEF DownIsEmpty
  <2>5. QED BY <2>2, <2>3, <2>4 DEF LineIsSound
<1>3. ASSUME NEW t \in Tfs, SwitchTf(t) PROVE LineIsSound'
  BY <1>1, <1>3 DEF SwitchTf, Request
<1>4. CASE Connect
  BY <1>2, <1>4 DEF Connect, Request
<1>5. CASE GuiBaseline \/ WorkerBaseline
  BY <1>1, <1>5, <1>h DEF GuiBaseline, WorkerBaseline, LoadsAgree
<1>6. CASE Disconnect
  BY <1>2, <1>6, <1>h DEF Disconnect, Receiving
<1>7. CASE Flush
  BY <1>1, <1>7, <1>h DEF Flush
<1>8. CASE Receive
  <2>1. /\ queue # <<>> /\ queue' = Tail(queue) /\ Head(queue) = queue[1] /\ 1 \in DOMAIN queue
        /\ UNCHANGED <<tasks, sub, doubled, marred, link, tf>> /\ link
    BY <1>8, <1>q DEF Receive, Receiving
  <2>2. \A i \in DOMAIN queue' : \E j \in DOMAIN queue : queue'[i] = queue[j]
    BY <1>q, <2>1
  <2>3. held' = None \/ held' = held \/ \E j \in DOMAIN queue : held' = queue[j]
    BY <1>8, <2>1 DEF Receive
  <2>4. \A h : h = history' => IsPast(tf, h)
    <3>1. CASE history' = history
      BY <1>h, <3>1
    <3>2. CASE history' # history
      <4>1. Head(queue).tf = tf /\ history' = LastCap(history \o Head(queue).buckets)
        BY <1>8, <3>2 DEF Receive, Wanted
      <4>2. Head(queue).buckets \in Own(tf) /\ IsPast(tf, Head(queue).buckets)
        <5>1. Head(queue) \in OwnFrame /\ SoundFrame(Head(queue))
          BY <1>0, <1>q, <2>1 DEF FramesAreSound
        <5>2. QED BY <4>1, <5>1, OwnFrameParts DEF SoundFrame
      <4>3. IsPast(tf, history \o Head(queue).buckets) /\ history \o Head(queue).buckets \in Own(tf)
        <5>1. history \o Head(queue).buckets \in Own(tf)
          BY <4>2, HistoryGrows DEF Own
        <5>2. QED BY <1>h, <4>2, <5>1, ConcatIsPast
      <4>4. QED BY <4>1, <4>3, CappedIsPast
    <3>3. QED BY <3>1, <3>2
  <2>5. FramesAreSound'
    BY <1>0, <2>1, <2>2, <2>3, <2>4, StaysSound
  <2>6. OneTask' /\ LastBegins'
    BY <1>0, <2>1, SameTasks
  <2>7. DownIsEmpty'
    BY <2>1 DEF DownIsEmpty
  <2>8. QED BY <2>5, <2>6, <2>7 DEF LineIsSound
<1>9. CASE ApplyHeld
  <2>1. /\ held # None /\ held' = None /\ UNCHANGED <<tasks, queue, sub, doubled, marred, link, tf>>
    BY <1>9 DEF ApplyHeld
  <2>2. held \in OwnFrame /\ held.kind \in {"start", "chunk", "end"}
    BY <2>1, OwnFrameParts DEF Types, ClientTypes, CatchupFrame
  <2>3. CASE history' = history
    BY <1>1, <1>h, <2>1, <2>3
  <2>4. CASE history' = <<>>
    BY <1>1, <2>1, <2>4
  <2>5. CASE held.tf = tf /\ held.kind = "chunk"
    <3>1. history' = history \o held.buckets
      BY <1>9, <2>5 DEF ApplyHeld, Wanted
    <3>2. held.buckets \in Own(tf) /\ IsPast(tf, held.buckets)
      BY <1>0, <2>1, <2>2, <2>5, OwnFrameParts DEF FramesAreSound, SoundFrame
    <3>3. IsPast(tf, history \o held.buckets)
      BY <1>h, <3>2, ConcatIsPast
    <3>4. QED BY <1>1, <2>1, <3>1, <3>3
  <2>6. CASE held.tf = tf /\ held.kind = "end"
    <3>1. history' = LastCap(history)
      BY <1>9, <2>6 DEF ApplyHeld, Wanted
    <3>2. IsPast(tf, LastCap(history))
      BY <1>h, CappedIsPast
    <3>3. QED BY <1>1, <2>1, <3>1, <3>2
  <2>7. CASE held.tf # tf \/ held.kind = "start"
    BY <1>9, <2>3, <2>4, <2>7 DEF ApplyHeld, Wanted, ClearedHistory
  <2>8. QED BY <2>2, <2>5, <2>6, <2>7
<1>10. QED BY <1>3, <1>4, <1>5, <1>6, <1>7, <1>8, <1>9

LEMMA NextLineIsSound ==
  ASSUME CacheIInv, Types', LineIsSound, Next
  PROVE  LineIsSound'
<1>1. Types /\ history \in Own(tf) /\ LoadsAgree /\ Grow
  BY ClosedGrows DEF CacheIInv
<1>2. QED
  BY <1>1, CloseKeepsSound, HandleKeepsSound, BeginKeepsSound, ContinueKeepsSound,
     TerminalKeepsSound DEF Next

-----------------------------------------------------------------------------
(* What is to hold of every timeframe, and what a step that moves its line *)
(* has to be like.                                                         *)
Line(t) == NotMarred(t) /\ (Steady(t) => Download(t))

SteadyStays(t) ==
    Steady(t)' =>
        /\ Steady(t) /\ closed'[t] = closed[t] /\ live' = live
        /\ (\A q \in DOMAIN tasks' : tasks'[q].tf # t) => \A q \in DOMAIN tasks : tasks[q].tf # t

LEMMA MovesKeep ==
  ASSUME Types, Types', FramesAreSound, Grow, NEW t \in Tfs, Line(t), SteadyStays(t),
         marred \subseteq marred', tf' = t => tf = t \/ history' = <<>>,
         NEW D, NEW m, Moves(t, D, m), tf = t => HistoryMoves(D, m),
         Steady(t)' => MovesAll(t, D, m) /\ HistoryMoves(D, m)
  PROVE  Line(t)'
<1>1. closed[t] \in Nat /\ closed'[t] \in Nat
  BY DEF Grow
<1>2. ASSUME t \notin marred' PROVE Clean(t)' /\ (tf' = t => IsInjective(history'))
  <2>1. Clean(t) /\ (tf = t => IsInjective(history))
    BY <1>2 DEF Line, NotMarred
  <2>2. Clean(t)'
    BY <1>1, <2>1, MovedIsClean
  <2>3. tf' = t => IsInjective(history')
    BY <2>1, EmptyRun DEF HistoryMoves
  <2>4. QED BY <2>2, <2>3
<1>3. ASSUME Steady(t)' PROVE Download(t)'
  <2>1. Download(t)
    BY <1>3 DEF Line, SteadyStays
  <2>2. QED BY <1>1, <1>3, <2>1, MovedDownload DEF SteadyStays
<1>4. QED BY <1>2, <1>3 DEF Line, NotMarred

(* A step that merges a frame into the history.                            *)
LEMMA MergesKeep ==
  ASSUME Types, Types', FramesAreSound, history \in Own(tf), NEW t \in Tfs, Line(t),
         SteadyStays(t), UNCHANGED <<closed, marred, live, tasks>>,
         NEW p, NEW b, Merges(t, p, b), IsPast(t, b)
  PROVE  Line(t)'
<1>1. closed[t] \in Nat /\ closed'[t] \in Nat /\ tf = t /\ history \in Own(t)
  BY DEF Types, DaemonTypes, Merges
<1>2. ASSUME t \notin marred' PROVE Clean(t)' /\ IsInjective(history')
  <2>1. Clean(t) /\ IsInjective(history)
    BY <1>1, <1>2 DEF Line, NotMarred
  <2>2. QED BY <1>1, <2>1, MergedIsClean
<1>3. ASSUME Steady(t)' PROVE Download(t)'
  <2>1. Download(t)
    BY <1>3 DEF Line, SteadyStays
  <2>2. IsPast(t, history)
    BY <1>1 DEF FramesAreSound
  <2>3. QED BY <1>1, <2>1, <2>2, MergedDownload
<1>4. QED BY <1>2, <1>3 DEF Line, NotMarred

(* Nothing is on a line that is down.                                      *)
LEMMA EmptyLine ==
  ASSUME Types', NEW t, queue' = <<>>, tasks' = <<>>, held' = None
  PROVE  Clean(t)'
<1>1. \A n : ~Pending(t, n)'
  BY DEF Pending
<1>2. Positions' = -1..1 /\ Tip' = 1 /\ Len(queue') = 0
  BY PositionsNextAre
<1>3. ASSUME NEW i \in Positions', NEW n, i # -1, Has(t, i, n)' PROVE FALSE
  BY <1>1, <1>2, <1>3 DEF Has
<1>4. \A i, j \in Positions' : i < j => j # -1
  BY <1>2
<1>5. QED BY <1>3, <1>4 DEF Clean

(* A step that sends foreign frames, or none.                              *)
LEMMA SendKeeps ==
  ASSUME Types, Types', FramesAreSound, Grow, NEW t \in Tfs, Line(t), SteadyStays(t),
         marred \subseteq marred', NEW k \in Nat, GrowsBy(k),
         \A i \in Tip..(Tip + k - 1) : queue'[i].tf # t,
         \A n \in Nat : Pending(t, n)' <=> Pending(t, n)
  PROVE  Line(t)'
<1>1. PICK D, m : Moves(t, D, m) /\ MovesAll(t, D, m) /\ HistoryMoves(D, m)
  BY SendMoves
<1>2. tf' = tf
  BY DEF GrowsBy
<1>3. QED BY <1>1, <1>2, MovesKeep

(* A step that leaves the line as it was.                                  *)
LEMMA StayKeeps ==
  ASSUME Types, Types', FramesAreSound, Grow, NEW t \in Tfs, Line(t), SteadyStays(t),
         marred \subseteq marred', UNCHANGED <<queue, tf, history, held>>,
         \A n \in Nat : Pending(t, n)' <=> Pending(t, n)
  PROVE  Line(t)'
<1>1. PICK k \in Nat : k = 0
  OBVIOUS
<1>2. GrowsBy(k)
  <2>1. Len(queue) \in Nat
    BY PositionsAre
  <2>2. QED BY <1>1, <2>1 DEF GrowsBy
<1>3. \A i \in Tip..(Tip + k - 1) : FALSE
  BY <1>1, PositionsAre
<1>4. QED BY <1>2, <1>3, SendKeeps

LEMMA SamePending ==
  ASSUME tasks' = tasks
  PROVE  \A t, n : Pending(t, n)' <=> Pending(t, n)
BY DEF Pending

(* What Queued puts on the line of t: nothing, when the frames are not of  *)
(* t; all of them, when there is room.                                     *)
LEMMA QueuedGrows ==
  ASSUME Types, NEW frames \in Seq(OwnFrame), queue' = Queued(frames),
         UNCHANGED <<tf, history, held>>
  PROVE  /\ \A t : (\A e \in DOMAIN frames : frames[e].tf # t) =>
               \E k \in Nat : GrowsBy(k) /\ \A i \in Tip..(Tip + k - 1) : queue'[i].tf # t
         /\ ~Overflows(frames) =>
               /\ GrowsBy(Len(frames))
               /\ \A e \in 1..Len(frames) : queue'[Tip + e - 1] = frames[e]
<1>0. queue \in Seq(OwnFrame) /\ Len(queue) <= QueueMax
  BY DEF Types, WireTypes
<1>1. PICK k \in 0..Len(frames) :
          /\ Queued(frames) \in Seq(OwnFrame) /\ Len(Queued(frames)) = Len(queue) + k
          /\ \A i \in 1..Len(queue) : Queued(frames)[i] = queue[i]
          /\ \A e \in 1..k : Queued(frames)[Len(queue) + e] = frames[e]
          /\ ~Overflows(frames) => k = Len(frames)
  BY <1>0, QueuedParts
<1>2. k \in Nat /\ Len(queue) \in Nat /\ Tip = Len(queue) + 1 /\ DOMAIN frames = 1..Len(frames)
      /\ Len(frames) \in Nat
  BY <1>0, <1>1 DEF Tip
<1>3. GrowsBy(k)
  BY <1>1 DEF GrowsBy
<1>4. \A e \in 1..k : queue'[Tip + e - 1] = frames[e]
  <2>1. ASSUME NEW e \in 1..k PROVE queue'[Tip + e - 1] = frames[e]
    <3>1. Tip + e - 1 = Len(queue) + e
      BY <1>2
    <3>2. QED BY <1>1, <3>1
  <2>2. QED BY <2>1
<1>5. ASSUME NEW t, \A e \in DOMAIN frames : frames[e].tf # t,
             NEW i \in Tip..(Tip + k - 1)
      PROVE  queue'[i].tf # t
  <2>1. i - Tip + 1 \in 1..k /\ Tip + (i - Tip + 1) - 1 = i /\ i - Tip + 1 \in DOMAIN frames
    BY <1>2
  <2>2. queue'[i] = frames[i - Tip + 1]
    BY <1>4, <2>1
  <2>3. QED BY <1>5, <2>1, <2>2
<1>6. QED BY <1>1, <1>2, <1>3, <1>4, <1>5

(* What the task has yet to send has closed.                               *)
LEMMA PendingPast ==
  ASSUME Types, FramesAreSound, NEW t, NEW n, Pending(t, n)
  PROVE  n \in 1..closed[t]
<1>1. Has(t, Tip, n)
  BY DEF Has
<1>2. QED BY <1>1, HasPast

LEMMA CloseKeepsLine ==
  ASSUME Types, Types', Grow, FramesAreSound, NEW s \in Tfs, NEW k \in 1..2, CloseBuckets(s, k),
         NEW t \in Tfs, Line(t)
  PROVE  Line(t)'
<1>u. /\ tasks' = tasks /\ sub' = sub /\ link' = link /\ doubled' = doubled
      /\ UNCHANGED <<tf, history, held, outgoing, control>>
      /\ closed' = [closed EXCEPT ![s] = @ + k] /\ closed \in [Tfs -> Nat]
  BY DEF CloseBuckets, client, Types, DaemonTypes
<1>c. /\ closed[t] \in Nat /\ closed'[t] \in Nat /\ k \in Nat /\ k >= 1
      /\ t # s => closed'[t] = closed[t]
      /\ t = s => closed'[t] = closed[t] + k
  BY <1>u
<1>p. \A n : Pending(t, n)' <=> Pending(t, n)
  BY <1>u, SamePending
<1>1. CASE ~(link /\ sub = s)
  <2>1. queue' = queue /\ marred' = marred /\ lost' = lost /\ live' = live
    BY <1>1 DEF CloseBuckets
  <2>2. SteadyStays(t)
    BY <1>1, <1>c, <1>u, <2>1 DEF SteadyStays, Steady
  <2>3. QED BY <1>p, <1>u, <2>1, <2>2, StayKeeps
<1>2. CASE link /\ sub = s
  <2>1. PICK c, frames : c = closed[s] /\ frames = CloseFrames(s, k)
    OBVIOUS
  <2>2. /\ frames \in Seq(OwnFrame) /\ queue' = Queued(frames) /\ marred' = Marred(s, frames)
        /\ lost' = (lost \/ Overflows(frames))
        /\ live' = IF \E i \in DOMAIN tasks : tasks[i].tf = s /\ tasks[i].started
                   THEN live + k ELSE live
    <3>1. CloseFrames(s, k) \in Seq(OwnFrame)
      BY <1>c, FramesAreOwn DEF Types
    <3>2. live' = IF \E i \in DOMAIN tasks : tasks[i].tf = s /\ tasks[i].started
                   THEN live + k ELSE live
      BY <1>2 DEF CloseBuckets
    <3>3. QED BY <1>2, <2>1, <3>1, <3>2, CloseSends
  <2>3. PICK g : g = F("close", s, [i \in 1..k |-> <<s, c + i>>])
    OBVIOUS
  <2>4. frames = <<g>> /\ Len(frames) = 1 /\ g.tf = s /\ g.kind = "close"
        /\ g.buckets = [i \in 1..k |-> <<s, c + i>>]
    BY <2>1, <2>3 DEF CloseFrames, F
  <2>5. marred \subseteq marred'
    BY <2>2, MarredGrows
  <2>6. CASE t # s
    <3>1. \A e \in DOMAIN frames : frames[e].tf # t
      BY <2>4, <2>6
    <3>2. PICK n \in Nat : GrowsBy(n) /\ \A i \in Tip..(Tip + n - 1) : queue'[i].tf # t
      BY <1>u, <2>2, <3>1, QueuedGrows
    <3>3. SteadyStays(t)
      BY <1>2, <1>u, <2>6 DEF SteadyStays, Steady
    <3>4. QED BY <1>p, <2>5, <3>2, <3>3, SendKeeps
  <2>7. CASE t = s /\ Overflows(frames)
    <3>1. t \in marred' /\ lost' = TRUE
      BY <2>2, <2>7 DEF Marred
    <3>2. QED BY <3>1 DEF Line, NotMarred, Steady
  <2>8. CASE t = s /\ ~Overflows(frames)
    <3>1. GrowsBy(1) /\ queue'[Tip] = g
      <4>1. GrowsBy(Len(frames)) /\ \A e \in 1..Len(frames) : queue'[Tip + e - 1] = frames[e]
        BY <1>u, <2>2, <2>8, QueuedGrows
      <4>2. 1 \in 1..Len(frames) /\ frames[1] = g /\ Tip + 1 - 1 = Tip
        BY <2>4, PositionsAre
      <4>3. QED BY <2>4, <4>1, <4>2
    <3>2. \A n \in Nat : In(<<t, n>>, g.buckets) <=> n > closed[t] /\ n <= closed'[t]
      <4>1. ASSUME NEW n \in Nat, n > closed[t], n <= closed'[t] PROVE In(<<t, n>>, g.buckets)
        <5>1. n - c \in 1..k /\ c + (n - c) = n
          BY <1>c, <2>1, <2>8, <4>1
        <5>2. n - c \in DOMAIN g.buckets /\ g.buckets[n - c] = <<t, n>>
          BY <2>4, <2>8, <5>1
        <5>3. QED BY <5>2 DEF In
      <4>2. ASSUME NEW n \in Nat, In(<<t, n>>, g.buckets) PROVE n > closed[t] /\ n <= closed'[t]
        <5>1. PICK e \in 1..k : <<s, c + e>> = <<t, n>>
          BY <2>4, <4>2 DEF In
        <5>2. n = c + e
          BY <5>1
        <5>3. QED BY <1>c, <2>1, <2>8, <5>2
      <4>3. QED BY <4>1, <4>2
    <3>3. \A n \in Nat : Pending(t, n) => ~(n > closed[t])
      <4>1. \A n \in Nat : Pending(t, n) => n \in 1..closed[t]
        BY PendingPast
      <4>2. QED BY <1>c, <4>1
    <3>4. Sends(t, g)
      <4>1. g.tf = t /\ g.kind # "start" /\ closed'[t] \in Nat /\ closed[t] <= closed'[t]
        BY <1>c, <2>4, <2>8
      <4>2. \A n \in 1..closed'[t] : n > closed[t] => In(<<t, n>>, g.buckets)
        <5>1. \A n \in 1..closed'[t] : n \in Nat /\ n <= closed'[t]
          BY <1>c
        <5>2. QED BY <3>2, <5>1
      <4>3. /\ \A n \in Nat : Pending(t, n)' => Pending(t, n)
            /\ \A n \in Nat : In(<<t, n>>, g.buckets) => Pending(t, n) \/ n > closed[t]
            /\ \A n \in Nat : Pending(t, n) => Pending(t, n)' \/ In(<<t, n>>, g.buckets)
            /\ \A n \in Nat : ~(Pending(t, n)' /\ In(<<t, n>>, g.buckets))
        BY <1>p, <3>2, <3>3
      <4>4. QED BY <3>1, <4>1, <4>2, <4>3 DEF Sends
    <3>5. ASSUME t \notin marred' PROVE Clean(t)' /\ (tf' = t => IsInjective(history'))
      <4>1. Clean(t) /\ (tf = t => IsInjective(history))
        BY <2>5, <3>5 DEF Line, NotMarred
      <4>2. QED BY <1>c, <1>u, <3>4, <4>1, SentIsClean
    <3>6. ASSUME Steady(t)' PROVE Download(t)'
      <4>1. Steady(t)
        BY <1>u, <2>2, <3>6 DEF Steady
      <4>2. Download(t)
        BY <4>1 DEF Line
      <4>3. live \in Nat
        BY DEF Types, CountTypes
      <4>4. ASSUME live' = 0 PROVE live = 0 /\ \A n \in Nat : ~Pending(t, n)'
        <5>1. ~ \E i \in DOMAIN tasks : tasks[i].tf = s /\ tasks[i].started
          BY <1>c, <2>2, <4>3, <4>4
        <5>2. \A i \in DOMAIN tasks : tasks[i].started
          BY <4>1 DEF Steady
        <5>3. \A i \in DOMAIN tasks : tasks[i].tf # t
          BY <2>8, <5>1, <5>2
        <5>4. \A n \in Nat : ~Pending(t, n)
          BY <5>3 DEF Pending
        <5>5. live = 0
          BY <2>2, <4>4, <5>1
        <5>6. QED BY <1>p, <5>4, <5>5
      <4>5. QED BY <1>c, <1>u, <2>4, <3>4, <4>2, <4>4, SentDownload
    <3>7. QED BY <3>5, <3>6 DEF Line, NotMarred
  <2>9. QED BY <2>6, <2>7, <2>8
<1>3. QED BY <1>1, <1>2

(* The first chunk and the rest have what the run has, in order.           *)
LEMMA ChunksSplit ==
  ASSUME NEW t, NEW s \in Own(t), NEW base \in Nat, RunFrom(base, t, s)
  PROVE  /\ \A n \in Nat : In(<<t, n>>, FirstChunk(s)) \/ In(<<t, n>>, Rest(s)) <=> In(<<t, n>>, s)
         /\ \A n, k \in Nat : In(<<t, n>>, FirstChunk(s)) /\ In(<<t, k>>, Rest(s)) => n < k
<1>1. PICK c \in 0..Len(s) :
          /\ FirstChunk(s) \in Own(t) /\ Len(FirstChunk(s)) = c
          /\ RunFrom(base, t, FirstChunk(s))
          /\ Rest(s) \in Own(t) /\ Len(Rest(s)) = Len(s) - c
          /\ RunFrom(base + c, t, Rest(s))
  BY ChunksOfRun
<1>2. Len(s) \in Nat /\ c \in Nat /\ base + c \in Nat
  BY DEF Own
<1>3. \A n \in Nat : In(<<t, n>>, s) <=> base < n /\ n <= base + Len(s)
  BY RunHas
<1>4. \A n \in Nat : In(<<t, n>>, FirstChunk(s)) <=> base < n /\ n <= base + c
  BY <1>1, RunHas
<1>5. \A n \in Nat : In(<<t, n>>, Rest(s)) <=> base + c < n /\ n <= base + c + (Len(s) - c)
  BY <1>1, <1>2, RunHas
<1>6. QED BY <1>2, <1>3, <1>4, <1>5

LEMMA LongerThanTail ==
  ASSUME NEW S, NEW s \in Seq(S), s # <<>>, NEW x
  PROVE  Append(Tail(s), x) # Tail(s)
<1>0. Tail(s) \in Seq(S)
  OBVIOUS
<1>1. PICK u \in Seq(S) : u = Tail(s)
  BY <1>0
<1>2. Len(Append(u, x)) = Len(u) + 1 /\ Len(u) \in Nat
  OBVIOUS
<1>3. QED BY <1>1, <1>2

LEMMA HandleKeepsLine ==
  ASSUME Types, Types', Grow, FramesAreSound, HandleControl, NEW t \in Tfs, Line(t)
  PROVE  Line(t)'
<1>1. PICK x : x = [tf |-> Head(control), started |-> FALSE, rest |-> <<>>]
  OBVIOUS
<1>u. /\ tasks' = Append(tasks, x) /\ queue' = queue /\ tf' = tf /\ history' = history
      /\ held' = held /\ marred \subseteq marred'
  BY <1>1 DEF HandleControl, client
<1>2. PICK L \in Nat : L = Len(tasks) /\ DOMAIN tasks = 1..L
  BY DEF Types, DaemonTypes
<1>3. /\ DOMAIN tasks' = 1..(L + 1) /\ tasks'[L + 1] = x
      /\ \A q \in 1..L : tasks'[q] = tasks[q]
  <2>1. tasks \in Seq(OwnTask)
    BY DEF Types, DaemonTypes
  <2>2. QED BY <1>2, <1>u, <2>1
<1>4. /\ \A q \in DOMAIN tasks' : (q \in DOMAIN tasks /\ tasks'[q] = tasks[q]) \/ tasks'[q] = x
      /\ L + 1 \in DOMAIN tasks'
      /\ \A q \in DOMAIN tasks : q \in DOMAIN tasks' /\ tasks'[q] = tasks[q]
  BY <1>2, <1>3
<1>5. x.rest = <<>> /\ ~x.started
  BY <1>1
<1>6. ASSUME NEW n PROVE Pending(t, n)' <=> Pending(t, n)
  <2>1. ~In(<<t, n>>, x.rest)
    BY <1>5, InEmpty
  <2>2. QED BY <1>4, <2>1 DEF Pending
<1>7. SteadyStays(t)
  BY <1>3, <1>4, <1>5 DEF SteadyStays, Steady
<1>8. QED BY <1>6, <1>7, <1>u, StayKeeps

(* What the tasks have yet to send, when the first has taken its turn.     *)
LEMMA TurnPending ==
  ASSUME Types, NEW x, Turn(x), NEW t
  PROVE  /\ t # x.tf => \A n : Pending(t, n)' <=> Pending(t, n)
         /\ t # x.tf /\ (\A q \in DOMAIN tasks' : tasks'[q].tf # t) =>
               \A q \in DOMAIN tasks : tasks[q].tf # t
         /\ t = x.tf /\ Alone(t) =>
               \A n : /\ Pending(t, n) <=> In(<<t, n>>, Head(tasks).rest)
                      /\ tasks' = Tail(tasks) => ~Pending(t, n)'
                      /\ tasks' # Tail(tasks) => (Pending(t, n)' <=> In(<<t, n>>, x.rest))
         /\ tasks' # Tail(tasks) => \E q \in DOMAIN tasks' : tasks'[q].tf = x.tf
<1>t. /\ Len(tasks) \in Nat /\ Len(tasks) >= 1 /\ DOMAIN tasks = 1..Len(tasks)
      /\ tasks[1] = Head(tasks)
      /\ \A q \in DOMAIN tasks' :
            \/ q \in Int /\ q + 1 \in DOMAIN tasks /\ tasks'[q] = tasks[q + 1]
            \/ q = Len(tasks) /\ tasks'[q] = x
      /\ \A q \in DOMAIN tasks : q = 1 \/ (q - 1 \in DOMAIN tasks' /\ tasks'[q - 1] = tasks[q])
      /\ tasks' # Tail(tasks) => Len(tasks) \in DOMAIN tasks' /\ tasks'[Len(tasks)] = x
      /\ \A q \in DOMAIN tasks' : q \in Int /\ q >= 1
  BY TurnParts
<1>x. x.tf = tasks[1].tf /\ 1 \in DOMAIN tasks
  BY <1>t DEF Turn
<1>1. ASSUME t # x.tf, NEW n PROVE Pending(t, n)' <=> Pending(t, n)
  <2>1. ASSUME Pending(t, n)' PROVE Pending(t, n)
    BY <1>1, <1>t, <2>1 DEF Pending
  <2>2. ASSUME Pending(t, n) PROVE Pending(t, n)'
    <3>1. PICK q \in DOMAIN tasks : tasks[q].tf = t /\ In(<<t, n>>, tasks[q].rest)
      BY <2>2 DEF Pending
    <3>2. q - 1 \in DOMAIN tasks' /\ tasks'[q - 1] = tasks[q]
      BY <1>1, <1>t, <1>x, <3>1
    <3>3. QED BY <3>1, <3>2 DEF Pending
  <2>3. QED BY <2>1, <2>2
<1>2. ASSUME t # x.tf, \A q \in DOMAIN tasks' : tasks'[q].tf # t, NEW q \in DOMAIN tasks
      PROVE  tasks[q].tf # t
  BY <1>2, <1>t, <1>x
<1>3. ASSUME t = x.tf, Alone(t), NEW q \in DOMAIN tasks', tasks'[q].tf = t PROVE
        tasks'[q] = x /\ tasks' # Tail(tasks)
  <2>1. ASSUME q + 1 \in DOMAIN tasks, tasks'[q] = tasks[q + 1] PROVE FALSE
    <3>1. q + 1 = 1
      BY <1>3, <1>x, <2>1 DEF Alone
    <3>2. q \in Int /\ q >= 1
      BY <1>t
    <3>3. QED BY <3>1, <3>2
  <2>2. q = Len(tasks) /\ tasks'[q] = x
    BY <1>t, <2>1
  <2>3. ASSUME tasks' = Tail(tasks) PROVE FALSE
    <3>1. DOMAIN tasks' = 1..(Len(tasks) - 1)
      <4>1. tasks \in Seq(OwnTask) /\ tasks # <<>>
        BY DEF Types, DaemonTypes, Turn
      <4>2. QED BY <2>3, <4>1
    <3>2. QED BY <1>t, <2>2, <3>1
  <2>4. QED BY <2>2, <2>3
<1>4. ASSUME t = x.tf, Alone(t), NEW n
      PROVE  /\ Pending(t, n) <=> In(<<t, n>>, Head(tasks).rest)
             /\ tasks' = Tail(tasks) => ~Pending(t, n)'
             /\ tasks' # Tail(tasks) => (Pending(t, n)' <=> In(<<t, n>>, x.rest))
  <2>1. \A q \in DOMAIN tasks : tasks[q].tf = t => q = 1
    BY <1>4, <1>x DEF Alone
  <2>2. Pending(t, n) <=> In(<<t, n>>, Head(tasks).rest)
    BY <1>4, <1>t, <1>x, <2>1 DEF Pending
  <2>3. \A q \in DOMAIN tasks' : tasks'[q].tf = t => tasks'[q] = x /\ tasks' # Tail(tasks)
    BY <1>3, <1>4
  <2>4. QED BY <1>4, <1>t, <2>2, <2>3 DEF Pending
<1>5. QED BY <1>1, <1>2, <1>4, <1>t

(* A task begins.                                                          *)
LEMMA BeginKeepsLine ==
  ASSUME Types, Types', Grow, LineIsSound, BeginCatchup, NEW t \in Tfs, Line(t)
  PROVE  Line(t)'
<1>0. FramesAreSound /\ OneTask /\ LastBegins /\ tasks # <<>> /\ ~Head(tasks).started
  BY DEF LineIsSound, BeginCatchup
<1>1. PICK s, r : s = Head(tasks).tf /\ r = Retained(s)
  OBVIOUS
<1>2. PICK x, frames : /\ x = [tf |-> s, started |-> TRUE, rest |-> Rest(r)]
                       /\ frames = BeginFrames(s)
  OBVIOUS
<1>3. s \in Tfs /\ closed \in [Tfs -> Nat]
  BY <1>0, <1>1, HeadTask DEF Types, DaemonTypes
<1>x. x.tf = s /\ x.started /\ x.rest = Rest(r)
  BY <1>2
<1>4. /\ queue' = Queued(frames) /\ marred' = Marred(s, frames) /\ lost' = Overflows(frames)
      /\ tasks' = IF r = <<>> THEN Tail(tasks) ELSE Append(Tail(tasks), x)
      /\ frames \in Seq(OwnFrame) /\ marred \subseteq marred'
  BY <1>1, <1>2, <1>3, BeginSends, FramesAreOwn, MarredGrows DEF Types
<1>5. Turn(x)
  BY <1>0, <1>1, <1>4, <1>x DEF Turn
<1>u. UNCHANGED <<tf, history, held, closed, sub, doubled>>
  BY DEF BeginCatchup, client
<1>6. CASE t # s
  <2>1. \A e \in DOMAIN frames : frames[e].tf # t
    <3>1. /\ F("start", s, <<>>).tf = s /\ F("end", s, <<>>).tf = s
          /\ F("chunk", s, FirstChunk(r)).tf = s
      BY DEF F
    <3>2. \/ frames = <<F("start", s, <<>>), F("end", s, <<>>)>>
          \/ frames = <<F("start", s, <<>>), F("chunk", s, FirstChunk(r))>>
      BY <1>1, <1>2 DEF BeginFrames
    <3>3. QED BY <1>6, <3>1, <3>2
  <2>2. PICK k \in Nat : GrowsBy(k) /\ \A i \in Tip..(Tip + k - 1) : queue'[i].tf # t
    BY <1>4, <1>u, <2>1, QueuedGrows
  <2>3. \A n \in Nat : Pending(t, n)' <=> Pending(t, n)
    BY <1>5, <1>6, <1>x, TurnPending
  <2>4. ~Steady(t)'
    <3>1. SUFFICES ASSUME sub = t, \A q \in DOMAIN tasks' : tasks'[q].started PROVE FALSE
      BY <1>u DEF Steady
    <3>2. 1 \in DOMAIN tasks /\ ~tasks[1].started /\ tasks[1].tf = s
      BY <1>0, <1>1, HeadTask
    <3>3. PICK p \in DOMAIN tasks : tasks[p].tf = sub /\ ~tasks[p].started
      BY <1>0, <3>2 DEF LastBegins
    <3>4. p # 1
      BY <1>6, <3>1, <3>2, <3>3
    <3>5. p - 1 \in DOMAIN tasks' /\ tasks'[p - 1] = tasks[p]
      BY <1>5, <3>4, TurnParts
    <3>6. QED BY <3>1, <3>3, <3>5
  <2>5. SteadyStays(t)
    BY <2>4 DEF SteadyStays
  <2>6. QED BY <1>0, <1>4, <2>2, <2>3, <2>5, SendKeeps
<1>7. CASE t = s /\ Overflows(frames)
  <2>1. t \in marred' /\ lost' = TRUE
    BY <1>4, <1>7 DEF Marred
  <2>2. QED BY <2>1 DEF Line, NotMarred, Steady
<1>8. CASE t = s /\ ~Alone(t)
  <2>1. t \in marred /\ ~(sub = t /\ ~doubled)
    BY <1>0, <1>8 DEF OneTask
  <2>2. QED BY <1>4, <1>u, <2>1 DEF Line, NotMarred, Steady
<1>9. CASE t = s /\ ~Overflows(frames) /\ Alone(t)
  <2>1. PICK g, rest : IF r = <<>> THEN g = F("end", t, <<>>) /\ rest = <<>>
                       ELSE g = F("chunk", t, FirstChunk(r)) /\ rest = Rest(r)
    OBVIOUS
  <2>2. frames = <<F("start", t, <<>>), g>> /\ g.tf = t /\ g.kind \in {"chunk", "end"}
        /\ g.buckets = (IF r = <<>> THEN <<>> ELSE FirstChunk(r))
        /\ (g.kind = "chunk" => r # <<>>)
    BY <1>1, <1>2, <1>9, <2>1 DEF BeginFrames, F
  <2>3. /\ r \in Own(t) /\ closed[t] - Smaller(Cap, closed[t]) \in Nat
        /\ RunFrom(closed[t] - Smaller(Cap, closed[t]), t, r)
        /\ \A n \in Nat : In(<<t, n>>, r) <=> n \in 1..closed[t] /\ n + Cap > closed[t]
    BY <1>1, <1>3, <1>9, RetainedIsRun
  <2>4. /\ \A n \in Nat : In(<<t, n>>, g.buckets) \/ In(<<t, n>>, rest) <=> In(<<t, n>>, r)
        /\ \A n, k \in Nat : In(<<t, n>>, g.buckets) /\ In(<<t, k>>, rest) => n < k
    <3>1. CASE r = <<>>
      BY <2>1, <2>2, <3>1, InEmpty
    <3>2. CASE r # <<>>
      <4>1. g.buckets = FirstChunk(r) /\ rest = Rest(r)
        BY <2>1, <2>2, <3>2
      <4>2. QED BY <2>3, <4>1, ChunksSplit
    <3>3. QED BY <3>1, <3>2
  <2>5. \A n \in Nat : Pending(t, n)' <=> In(<<t, n>>, rest)
    <3>1. \A n : /\ tasks' = Tail(tasks) => ~Pending(t, n)'
                 /\ tasks' # Tail(tasks) => (Pending(t, n)' <=> In(<<t, n>>, x.rest))
      BY <1>5, <1>9, <1>x, TurnPending
    <3>2. CASE r = <<>>
      BY <1>4, <2>1, <3>1, <3>2, InEmpty
    <3>3. CASE r # <<>>
      <4>1. tasks' # Tail(tasks)
        BY <1>4, <3>3, LongerThanTail, <1>0 DEF Types, DaemonTypes
      <4>2. QED BY <1>x, <2>1, <3>1, <3>3, <4>1
    <3>4. QED BY <3>2, <3>3
  <2>6. g.kind = "chunk" => \E q \in DOMAIN tasks' : tasks'[q].tf = t
    <3>1. ASSUME r # <<>> PROVE tasks' # Tail(tasks)
      BY <1>4, <3>1, LongerThanTail, <1>0 DEF Types, DaemonTypes
    <3>2. ASSUME r # <<>> PROVE \E q \in DOMAIN tasks' : tasks'[q].tf = x.tf
      BY <1>5, <3>1, <3>2, TurnPending
    <3>3. QED BY <1>9, <1>x, <2>2, <3>2
  <2>7. GrowsBy(2) /\ queue'[Tip] = F("start", t, <<>>) /\ queue'[Tip + 1] = g
    <3>1. GrowsBy(Len(frames)) /\ \A e \in 1..Len(frames) : queue'[Tip + e - 1] = frames[e]
      BY <1>4, <1>9, <1>u, QueuedGrows
    <3>2. Len(frames) = 2 /\ frames[1] = F("start", t, <<>>) /\ frames[2] = g
      BY <2>2
    <3>3. Tip + 1 - 1 = Tip /\ Tip + 2 - 1 = Tip + 1 /\ 1 \in 1..2 /\ 2 \in 1..2
      BY PositionsAre
    <3>4. QED BY <3>1, <3>2, <3>3
  <2>8. closed'[t] = closed[t] /\ closed[t] \in Nat
    BY <1>3, <1>u
  <2>9. Begins(t, g, rest)
    BY <2>2, <2>3, <2>4, <2>5, <2>6, <2>7, <2>8 DEF Begins
  <2>10. Steady(t)' => Download(t)'
    BY <2>8, <2>9, BegunDownload
  <2>11. ASSUME t \notin marred' PROVE Clean(t)' /\ (tf' = t => IsInjective(history'))
    <3>1. Clean(t) /\ (tf = t => IsInjective(history))
      BY <1>4, <2>11 DEF Line, NotMarred
    <3>2. QED BY <1>0, <1>u, <2>8, <2>9, <3>1, BegunIsClean
  <2>12. QED BY <2>10, <2>11 DEF Line, NotMarred
<1>10. QED BY <1>6, <1>7, <1>8, <1>9

(* A task goes on.                                                         *)
LEMMA ContinueKeepsLine ==
  ASSUME Types, Types', Grow, LineIsSound, ContinueCatchup, NEW t \in Tfs, Line(t)
  PROVE  Line(t)'
<1>0. FramesAreSound /\ OneTask /\ tasks # <<>> /\ Head(tasks).started
  BY DEF LineIsSound, ContinueCatchup
<1>1. PICK s, r : s = Head(tasks).tf /\ r = Head(tasks).rest
  OBVIOUS
<1>2. PICK x, frames : x = [Head(tasks) EXCEPT !.rest = Rest(r)] /\ frames = ContinueFrames(s, r)
  OBVIOUS
<1>3. s \in Tfs /\ r \in Own(s) /\ IsRun(s, r) /\ closed \in [Tfs -> Nat]
  BY <1>0, <1>1, HeadTask DEF Types, DaemonTypes
<1>x. x.tf = s /\ x.started /\ x.rest = Rest(r)
  <2>1. Head(tasks) \in Task
    BY <1>0, FirstTask DEF Types, OwnTask
  <2>2. x.tf = Head(tasks).tf /\ x.started = Head(tasks).started /\ x.rest = Rest(r)
    BY <1>2, <2>1 DEF Task
  <2>3. QED BY <1>0, <1>1, <2>2
<1>4. /\ queue' = Queued(frames) /\ marred' = Marred(s, frames) /\ lost' = (lost \/ Overflows(frames))
      /\ tasks' = IF r = <<>> THEN Tail(tasks) ELSE Append(Tail(tasks), x)
      /\ frames \in Seq(OwnFrame) /\ marred \subseteq marred'
  BY <1>1, <1>2, <1>3, ContinueSends, FramesAreOwn, MarredGrows DEF Types
<1>5. Turn(x)
  BY <1>0, <1>1, <1>4, <1>x DEF Turn
<1>u. UNCHANGED <<tf, history, held, closed, sub, doubled, link, outgoing, control, live>>
  BY DEF ContinueCatchup, client
<1>6. Steady(t)' => Steady(t)
  <2>1. ASSUME \A q \in DOMAIN tasks' : tasks'[q].started, NEW q \in DOMAIN tasks
        PROVE  tasks[q].started
    <3>1. q = 1 \/ (q - 1 \in DOMAIN tasks' /\ tasks'[q - 1] = tasks[q])
      BY <1>5, TurnParts
    <3>2. tasks[1].started
      BY <1>0, HeadTask
    <3>3. QED BY <2>1, <3>1, <3>2
  <2>2. QED BY <1>4, <1>u, <2>1 DEF Steady
<1>7. CASE t # s
  <2>1. \A e \in DOMAIN frames : frames[e].tf # t
    <3>1. F("end", s, <<>>).tf = s /\ F("chunk", s, FirstChunk(r)).tf = s
      BY DEF F
    <3>2. frames = <<F("end", s, <<>>)>> \/ frames = <<F("chunk", s, FirstChunk(r))>>
      BY <1>2 DEF ContinueFrames
    <3>3. QED BY <1>7, <3>1, <3>2
  <2>2. PICK k \in Nat : GrowsBy(k) /\ \A i \in Tip..(Tip + k - 1) : queue'[i].tf # t
    BY <1>4, <1>u, <2>1, QueuedGrows
  <2>3. /\ \A n \in Nat : Pending(t, n)' <=> Pending(t, n)
        /\ (\A q \in DOMAIN tasks' : tasks'[q].tf # t) => \A q \in DOMAIN tasks : tasks[q].tf # t
    BY <1>5, <1>7, <1>x, TurnPending
  <2>4. SteadyStays(t)
    BY <1>6, <1>u, <2>3 DEF SteadyStays
  <2>5. QED BY <1>0, <1>4, <2>2, <2>3, <2>4, SendKeeps
<1>8. CASE t = s /\ Overflows(frames)
  <2>1. t \in marred' /\ lost' = TRUE
    BY <1>4, <1>8 DEF Marred
  <2>2. QED BY <2>1 DEF Line, NotMarred, Steady
<1>9. CASE t = s /\ ~Alone(t)
  <2>1. t \in marred /\ ~(sub = t /\ ~doubled)
    BY <1>0, <1>9 DEF OneTask
  <2>2. QED BY <1>4, <1>u, <2>1 DEF Line, NotMarred, Steady
<1>10. CASE t = s /\ ~Overflows(frames) /\ Alone(t)
  <2>1. PICK g, rest : IF r = <<>> THEN g = F("end", t, <<>>) /\ rest = <<>>
                       ELSE g = F("chunk", t, FirstChunk(r)) /\ rest = Rest(r)
    OBVIOUS
  <2>2. frames = <<g>> /\ g.tf = t /\ g.kind \in {"chunk", "end"}
        /\ g.buckets = (IF r = <<>> THEN <<>> ELSE FirstChunk(r))
        /\ (g.kind = "chunk" => r # <<>>)
    BY <1>2, <1>10, <2>1 DEF ContinueFrames, F
  <2>3. PICK base \in Nat : RunFrom(base, t, r) /\ r \in Own(t)
    BY <1>3, <1>10 DEF IsRun
  <2>4. /\ \A n \in Nat : In(<<t, n>>, g.buckets) \/ In(<<t, n>>, rest) <=> In(<<t, n>>, r)
        /\ \A n, k \in Nat : In(<<t, n>>, g.buckets) /\ In(<<t, k>>, rest) => n < k
    <3>1. CASE r = <<>>
      BY <2>1, <2>2, <3>1, InEmpty
    <3>2. CASE r # <<>>
      <4>1. g.buckets = FirstChunk(r) /\ rest = Rest(r)
        BY <2>1, <2>2, <3>2
      <4>2. QED BY <2>3, <4>1, ChunksSplit
    <3>3. QED BY <3>1, <3>2
  <2>5. r # <<>> => tasks' # Tail(tasks)
    BY <1>0, <1>4, LongerThanTail DEF Types, DaemonTypes
  <2>6. \A n \in Nat : (Pending(t, n) <=> In(<<t, n>>, r)) /\ (Pending(t, n)' <=> In(<<t, n>>, rest))
    <3>1. \A n : /\ Pending(t, n) <=> In(<<t, n>>, Head(tasks).rest)
                 /\ tasks' = Tail(tasks) => ~Pending(t, n)'
                 /\ tasks' # Tail(tasks) => (Pending(t, n)' <=> In(<<t, n>>, x.rest))
      BY <1>5, <1>10, <1>x, TurnPending
    <3>2. CASE r = <<>>
      BY <1>1, <1>4, <2>1, <3>1, <3>2, InEmpty
    <3>3. CASE r # <<>>
      BY <1>1, <1>x, <2>1, <2>5, <3>1, <3>3
    <3>4. QED BY <3>2, <3>3
  <2>7. g.kind = "chunk" => \E q \in DOMAIN tasks' : tasks'[q].tf = t
    <3>1. ASSUME r # <<>> PROVE \E q \in DOMAIN tasks' : tasks'[q].tf = x.tf
      BY <1>5, <2>5, <3>1, TurnPending
    <3>2. QED BY <1>10, <1>x, <2>2, <3>1
  <2>8. GrowsBy(1) /\ queue'[Tip] = g
    <3>1. GrowsBy(Len(frames)) /\ \A e \in 1..Len(frames) : queue'[Tip + e - 1] = frames[e]
      BY <1>4, <1>10, <1>u, QueuedGrows
    <3>2. Len(frames) = 1 /\ frames[1] = g /\ Tip + 1 - 1 = Tip /\ 1 \in 1..1
      BY <2>2, PositionsAre
    <3>3. QED BY <3>1, <3>2
  <2>9. closed'[t] = closed[t] /\ closed[t] \in Nat
    BY <1>3, <1>u
  <2>10. Sends(t, g)
    <3>1. g.kind # "start" /\ closed'[t] \in Nat /\ closed[t] <= closed'[t]
      BY <2>2, <2>9
    <3>2. /\ \A n \in Nat : Pending(t, n)' => Pending(t, n)
          /\ \A n \in Nat : In(<<t, n>>, g.buckets) => Pending(t, n) \/ n > closed[t]
          /\ \A n \in Nat : Pending(t, n) => Pending(t, n)' \/ In(<<t, n>>, g.buckets)
      BY <2>4, <2>6
    <3>3. \A n \in Nat : ~(Pending(t, n)' /\ In(<<t, n>>, g.buckets))
      <4>1. \A n \in Nat : ~(n < n)
        OBVIOUS
      <4>2. QED BY <2>4, <2>6, <4>1
    <3>4. \A n \in 1..closed'[t] : ~(n > closed[t])
      BY <2>9
    <3>5. QED BY <2>2, <2>8, <3>1, <3>2, <3>3, <3>4 DEF Sends
  <2>11. ASSUME Steady(t)' PROVE Download(t)'
    <3>1. Download(t)
      BY <1>6, <2>11 DEF Line
    <3>2. live' = 0 => live = 0
      BY <1>u
    <3>3. \A n, m \in Nat : In(<<t, n>>, g.buckets) /\ Pending(t, m)' => n < m
      BY <2>4, <2>6
    <3>4. g.kind = "end" \/ \E q \in DOMAIN tasks' : tasks'[q].tf = t
      BY <2>2, <2>7
    <3>5. QED BY <1>0, <2>9, <2>10, <3>1, <3>2, <3>3, <3>4, SentDownload
  <2>12. ASSUME t \notin marred' PROVE Clean(t)' /\ (tf' = t => IsInjective(history'))
    <3>1. Clean(t) /\ (tf = t => IsInjective(history))
      BY <1>4, <2>12 DEF Line, NotMarred
    <3>2. QED BY <1>0, <1>u, <2>9, <2>10, <3>1, SentIsClean
  <2>13. QED BY <2>11, <2>12 DEF Line, NotMarred
<1>11. QED BY <1>7, <1>8, <1>9, <1>10

-----------------------------------------------------------------------------
(* The terminal's steps. *)

LEMMA SwitchKeepsLine ==
  ASSUME Types, Types', Grow, FramesAreSound, NEW u \in Tfs, SwitchTf(u), NEW t \in Tfs, Line(t)
  PROVE  Line(t)'
<1>1. /\ UNCHANGED <<queue, tasks, held, marred>> /\ history' = <<>>
      /\ outgoing' = Append(outgoing, u) /\ outgoing \in Seq(Tfs)
  BY DEF SwitchTf, Request, Announce, daemon, ghosts, Types, WireTypes
<1>2. PICK D, m : Moves(t, D, m) /\ HistoryMoves(D, m)
  BY <1>1, ClientMoves
<1>3. ~Steady(t)'
  <2>1. outgoing' # <<>>
    BY <1>1
  <2>2. QED BY <2>1 DEF Steady
<1>4. SteadyStays(t)
  BY <1>3 DEF SteadyStays
<1>5. QED BY <1>1, <1>2, <1>3, <1>4, MovesKeep

LEMMA ConnectKeepsLine ==
  ASSUME Types, Types', DownIsEmpty, Connect, NEW t \in Tfs
  PROVE  Line(t)'
<1>1. /\ queue' = <<>> /\ tasks' = <<>> /\ held' = None /\ history' = <<>>
      /\ outgoing' = Append(outgoing, tf) /\ outgoing \in Seq(Tfs) /\ tf \in Tfs
  BY DEF Connect, Request, Announce, DownIsEmpty, Types, WireTypes, ClientTypes
<1>2. Clean(t)' /\ IsInjective(history')
  BY <1>1, EmptyLine, EmptyRun
<1>3. ~Steady(t)'
  <2>1. outgoing' # <<>>
    BY <1>1
  <2>2. QED BY <2>1 DEF Steady
<1>4. QED BY <1>2, <1>3 DEF Line, NotMarred

LEMMA DisconnectKeepsLine ==
  ASSUME Types', Disconnect, NEW t \in Tfs, Line(t)
  PROVE  Line(t)'
<1>1. /\ queue' = <<>> /\ tasks' = <<>> /\ held' = None /\ history' = history /\ tf' = tf
      /\ marred' = marred /\ link' = FALSE
  BY DEF Disconnect, Receiving, ghosts
<1>2. Clean(t)'
  BY <1>1, EmptyLine
<1>3. QED BY <1>1, <1>2 DEF Line, NotMarred, Steady

(* A baseline sets the timeframe that is set; a flush only moves requests. *)
LEMMA IdleKeepsLine ==
  ASSUME Types, Types', Grow, FramesAreSound, LoadsAgree,
         GuiBaseline \/ WorkerBaseline \/ Flush, NEW t \in Tfs, Line(t)
  PROVE  Line(t)'
<1>1. UNCHANGED <<queue, tasks, held, marred, history, tf>>
  BY DEF GuiBaseline, WorkerBaseline, Flush, LoadsAgree, daemon, ghosts
<1>2. \A n \in Nat : Pending(t, n)' <=> Pending(t, n)
  BY <1>1, SamePending
<1>3. CASE Flush
  <2>1. control' # <<>>
    <3>1. control \in Seq(Tfs) /\ outgoing \in Seq(Tfs) /\ outgoing # <<>>
          /\ control' = control \o outgoing
      BY <1>3 DEF Flush, Types, WireTypes
    <3>2. QED BY <3>1
  <2>2. SteadyStays(t)
    BY <2>1 DEF SteadyStays, Steady
  <2>3. QED BY <1>1, <1>2, <2>2, StayKeeps
<1>4. CASE GuiBaseline \/ WorkerBaseline
  <2>1. UNCHANGED <<link, outgoing, control, sub, doubled, lost, live, closed>>
    BY <1>4 DEF GuiBaseline, WorkerBaseline, daemon, ghosts
  <2>2. SteadyStays(t)
    BY <1>1, <2>1 DEF SteadyStays, Steady
  <2>3. QED BY <1>1, <1>2, <2>2, StayKeeps
<1>5. QED BY <1>3, <1>4

(* A line that is steady is that of the timeframe shown.                   *)
LEMMA SteadyIsShown ==
  ASSUME RequestAgrees, NEW t, Steady(t)
  PROVE  t = tf
BY DEF RequestAgrees, Steady

LEMMA ReceiveKeepsLine ==
  ASSUME Types, Types', Grow, FramesAreSound, RequestAgrees, history \in Own(tf), Receive,
         NEW t \in Tfs, Line(t)
  PROVE  Line(t)'
<1>1. PICK f : f = Head(queue)
  OBVIOUS
<1>2. /\ UNCHANGED <<closed, sub, tasks, control, link, tf, outgoing, lost, doubled, marred, live>>
      /\ queue # <<>> /\ held = None
      /\ IF f.kind = "close"
         THEN held' = None /\ (f.tf # tf => history' = history)
         ELSE held' = (IF f.tf = tf THEN f ELSE None) /\ history' = history
  BY <1>1 DEF Receive, Receiving, Wanted, daemon, ghosts
<1>3. SoundFrame(f) /\ f.tf \in Tfs
  <2>1. 1 \in DOMAIN queue /\ f = queue[1] /\ f \in OwnFrame
    <3>1. queue \in Seq(OwnFrame) /\ queue # <<>>
      BY <1>2 DEF Types, WireTypes
    <3>2. QED BY <1>1, <3>1
  <2>2. QED BY <2>1, OwnFrameParts DEF FramesAreSound
<1>4. SteadyStays(t) /\ (Steady(t)' => t = tf)
  <2>1. Steady(t)' => Steady(t)
    BY <1>2 DEF Steady
  <2>2. SteadyStays(t)
    BY <1>2, <2>1 DEF SteadyStays
  <2>3. QED BY <2>1, <2>2, SteadyIsShown
<1>5. CASE f.kind = "close" /\ f.tf = t /\ t = tf
  <2>1. PICK p, b : p = 1 /\ b = f.buckets
    OBVIOUS
  <2>2. Merges(t, p, b)
    BY <1>1, <1>5, <2>1, ReceiveMerges
  <2>3. IsPast(t, b)
    BY <1>3, <1>5, <2>1 DEF SoundFrame
  <2>4. QED BY <1>2, <1>4, <2>2, <2>3, MergesKeep
<1>6. CASE ~(f.kind = "close" /\ f.tf = t /\ t = tf)
  <2>1. tf = t => history' = history
    BY <1>2, <1>6
  <2>2. held' = Head(queue) \/ (held' = None /\ (t = Head(queue).tf => t # tf))
    BY <1>1, <1>2, <1>6
  <2>3. PICK D, m : /\ Moves(t, D, m)
                    /\ held' = Head(queue) \/ t # Head(queue).tf => MovesAll(t, D, m)
                    /\ tf = t => HistoryMoves(D, m)
    BY <2>1, <2>2, ReceiveMoves
  <2>4. Steady(t)' => MovesAll(t, D, m) /\ HistoryMoves(D, m)
    BY <1>4, <2>2, <2>3
  <2>5. tf' = tf /\ marred \subseteq marred'
    BY <1>2
  <2>6. QED BY <1>4, <2>3, <2>4, <2>5, MovesKeep
<1>7. QED BY <1>5, <1>6

LEMMA ApplyKeepsLine ==
  ASSUME Types, Types', Grow, FramesAreSound, RequestAgrees, history \in Own(tf), ApplyHeld,
         NEW t \in Tfs, Line(t)
  PROVE  Line(t)'
<1>1. /\ UNCHANGED <<closed, sub, queue, tasks, control, link, tf, outgoing, lost, doubled, marred, live>>
      /\ held # None /\ held' = None
      /\ held.tf # tf => history' = history
      /\ held.tf = tf /\ held.kind = "start" => history' = <<>>
  BY DEF ApplyHeld, Wanted, ClearedHistory, daemon, ghosts
<1>2. SoundFrame(held) /\ history \in Seq(Bucket)
  BY <1>1 DEF FramesAreSound, Types, ClientTypes
<1>3. SteadyStays(t) /\ (Steady(t)' => t = tf) /\ marred \subseteq marred'
  <2>1. Steady(t)' => Steady(t)
    BY <1>1 DEF Steady
  <2>2. SteadyStays(t)
    BY <1>1, <2>1 DEF SteadyStays
  <2>3. QED BY <1>1, <2>1, <2>2, SteadyIsShown
<1>4. CASE held.tf = t /\ t = tf /\ held.kind # "start"
  <2>1. PICK p, b : p = 0 /\ b = held.buckets
    OBVIOUS
  <2>2. Merges(t, p, b)
    BY <1>4, <2>1, ApplyMerges
  <2>3. IsPast(t, b)
    BY <1>2, <1>4, <2>1 DEF SoundFrame
  <2>4. QED BY <1>1, <1>3, <2>2, <2>3, MergesKeep
<1>5. CASE held.tf # tf \/ held.kind = "start"
  <2>1. history' = <<>> \/ (history' = history /\ tf' = tf)
    BY <1>1, <1>5
  <2>2. ASSUME history' # <<>>, NEW n \in Nat PROVE ~(Has(t, -1, n) /\ IsFrame(t, 0, "start"))
    <3>1. held.tf # tf
      BY <1>1, <1>5, <2>2
    <3>2. QED BY <3>1, PositionsAre DEF Has, IsFrame
  <2>3. PICK D, m :
            /\ Moves(t, D, m) /\ HistoryMoves(D, m)
            /\ (\A i \in {-1, 0}, n \in Nat : Late(t, i) /\ Has(t, i, n) =>
                    \/ i = -1 /\ history' = history /\ tf' = tf /\ history' # <<>>
                    \/ i = 0 /\ held' = held)
               /\ (\A kind : Late(t, 0) /\ IsFrame(t, 0, kind) /\ kind # "start" => held' = held)
               /\ (history' # <<>> /\ held' # held => ~IsFrame(t, 0, "start"))
               => MovesAll(t, D, m)
    BY <1>1, <2>1, <2>2, ClientMoves
  <2>4. ASSUME t = tf PROVE MovesAll(t, D, m)
    <3>1. /\ \A n : Has(t, -1, n) <=> tf = t /\ In(<<t, n>>, history)
          /\ \A n : Has(t, 0, n) <=> held # None /\ held.tf = t /\ In(<<t, n>>, held.buckets)
          /\ \A kind : IsFrame(t, 0, kind) <=> held # None /\ held.tf = t /\ held.kind = kind
      BY <1>1, ClientParts
    <3>z. 0 \in Positions /\ -1 < 0
      BY PositionsAre
    <3>2. \A n \in Nat : ~Has(t, 0, n)
      BY <1>2, <1>5, <2>4, <3>1, InEmpty DEF SoundFrame
    <3>3. \A kind : IsFrame(t, 0, kind) => kind = "start"
      BY <1>5, <2>4, <3>1
    <3>4. ASSUME NEW n \in Nat, Late(t, -1), Has(t, -1, n)
          PROVE  history' = history /\ tf' = tf /\ history' # <<>>
      <4>1. In(<<t, n>>, history)
        BY <3>1, <3>4
      <4>2. ~IsFrame(t, 0, "start")
        BY <3>4, <3>z DEF Late
      <4>3. held.tf # tf
        BY <1>1, <1>5, <2>4, <3>1, <4>2
      <4>4. history' = history /\ history # <<>>
        BY <1>1, <4>1, <4>3, InEmpty
      <4>5. QED BY <1>1, <4>4
    <3>5. history' # <<>> => ~IsFrame(t, 0, "start")
      BY <1>1, <1>5, <2>4, <3>1
    <3>6. QED BY <2>3, <3>2, <3>3, <3>4, <3>5
  <2>5. QED BY <1>1, <1>3, <2>3, <2>4, MovesKeep
<1>6. CASE held.tf = tf /\ t # tf
  <2>1. PICK D, m : D = Positions /\ m = [i \in D |-> i]
    OBVIOUS
  <2>2. /\ Positions = Positions' /\ Positions = -1..Tip /\ Tip \in Nat
        /\ \A i \in Positions : \A n \in Nat : Has(t, i, n)' <=> Has(t, i, n)
        /\ \A i \in Positions : \A kind : IsFrame(t, i, kind)' <=> IsFrame(t, i, kind)
    <3>1. /\ Tip \in Nat /\ Tip >= 1 /\ Tip' = Tip /\ Positions = -1..Tip /\ Positions' = -1..Tip
          /\ \A i \in 1..Tip : \A n : Has(t, i, n)' <=> Has(t, i, n)
          /\ \A i \in 1..Tip : \A kind : IsFrame(t, i, kind)' <=> IsFrame(t, i, kind)
          /\ \A kind : ~IsFrame(t, -1, kind) /\ ~IsFrame(t, -1, kind)'
          /\ \A n : ~Has(t, -1, n) /\ ~Has(t, -1, n)' /\ ~Has(t, 0, n) /\ ~Has(t, 0, n)'
          /\ \A kind : ~IsFrame(t, 0, kind) /\ ~IsFrame(t, 0, kind)'
      BY <1>1, <1>6, ClientParts
    <3>2. \A i \in Positions : i = -1 \/ i = 0 \/ i \in 1..Tip
      BY <3>1
    <3>3. QED BY <3>1, <3>2
  <2>3. Moves(t, D, m)
    BY <2>1, <2>2 DEF Moves
  <2>4. tf' = tf
    BY <1>1
  <2>5. QED BY <1>3, <1>6, <2>3, <2>4, MovesKeep
<1>7. QED BY <1>4, <1>5, <1>6

-----------------------------------------------------------------------------
(* The line is sound and delivers, at the start and after every step.      *)
LEMMA InitLineIInv == Init => LineIInv
<1> SUFFICES ASSUME Init PROVE LineIInv
  OBVIOUS
<1>1. CacheIInv
  BY InitCacheIInv
<1>2. /\ queue = <<>> /\ tasks = <<>> /\ held = None /\ history = <<>> /\ ~link
  BY DEF Init
<1>3. LineIsSound
  <2>1. OneTask /\ LastBegins /\ DownIsEmpty
    BY <1>2 DEF OneTask, LastBegins, DownIsEmpty, Alone
  <2>2. IsPast(tf, history)
    BY <1>2 DEF IsPast
  <2>3. FramesAreSound
    BY <1>2, <2>2 DEF FramesAreSound
  <2>4. QED BY <2>1, <2>3 DEF LineIsSound
<1>4. ASSUME NEW t \in Tfs PROVE NotMarred(t) /\ (Steady(t) => Download(t))
  <2>1. Types /\ Positions = -1..1 /\ Tip = 1 /\ Len(queue) = 0
    BY <1>1, <1>2, PositionsAre DEF CacheIInv, Tip
  <2>2. ASSUME NEW i \in Positions, NEW n PROVE ~Has(t, i, n)
    BY <1>2, <2>1, InEmpty DEF Has, Pending
  <2>3. Clean(t)
    BY <2>2 DEF Clean
  <2>4. IsInjective(history)
    BY <1>2, EmptyRun
  <2>5. QED BY <1>2, <2>3, <2>4 DEF NotMarred, Steady
<1>5. QED BY <1>1, <1>3, <1>4 DEF LineIInv

LEMMA NextLine ==
  ASSUME CacheIInv, Types', LineIsSound, Next, NEW t \in Tfs, Line(t)
  PROVE  Line(t)'
<1>1. /\ Types /\ history \in Own(tf) /\ LoadsAgree /\ RequestAgrees /\ Grow
      /\ FramesAreSound /\ DownIsEmpty
  BY ClosedGrows DEF CacheIInv, LineIsSound
<1>2. CASE \E s \in Tfs, k \in 1..2 : CloseBuckets(s, k)
  BY <1>1, <1>2, CloseKeepsLine
<1>3. CASE HandleControl
  BY <1>1, <1>3, HandleKeepsLine
<1>4. CASE BeginCatchup
  BY <1>1, <1>4, BeginKeepsLine
<1>5. CASE ContinueCatchup
  BY <1>1, <1>5, ContinueKeepsLine
<1>6. CASE \E u \in Tfs : SwitchTf(u)
  BY <1>1, <1>6, SwitchKeepsLine
<1>7. CASE Connect
  BY <1>1, <1>7, ConnectKeepsLine
<1>8. CASE Disconnect
  BY <1>1, <1>8, DisconnectKeepsLine
<1>9. CASE GuiBaseline \/ WorkerBaseline \/ Flush
  BY <1>1, <1>9, IdleKeepsLine
<1>10. CASE Receive
  BY <1>1, <1>10, ReceiveKeepsLine
<1>11. CASE ApplyHeld
  BY <1>1, <1>11, ApplyKeepsLine
<1>12. QED
  BY <1>2, <1>3, <1>4, <1>5, <1>6, <1>7, <1>8, <1>9, <1>10, <1>11 DEF Next

(* A step that changes nothing changes nothing of this.                    *)
LEMMA StutterLine ==
  ASSUME CacheIInv, Types', LineIsSound, UNCHANGED vars
  PROVE  LineIsSound' /\ \A t \in Tfs : Line(t) => Line(t)'
<1>1. /\ UNCHANGED <<closed, sub, queue, tasks, control, link, tf, history, held, outgoing>>
      /\ UNCHANGED <<lost, doubled, marred, live>>
  BY DEF vars, daemon, client, ghosts
<1>2. Types /\ FramesAreSound /\ OneTask /\ LastBegins /\ DownIsEmpty
  BY DEF CacheIInv, LineIsSound
<1>3. Grow
  BY <1>1, <1>2 DEF Grow, Types, DaemonTypes
<1>4. FramesAreSound'
  <2>1. IsPast(tf, history)
    BY <1>2 DEF FramesAreSound
  <2>2. QED BY <1>1, <1>2, <1>3, <2>1, StaysSound
<1>5. OneTask' /\ LastBegins' /\ DownIsEmpty'
  BY <1>1, <1>2 DEF OneTask, LastBegins, DownIsEmpty, Alone
<1>6. ASSUME NEW t \in Tfs, Line(t) PROVE Line(t)'
  <2>1. SteadyStays(t)
    BY <1>1 DEF SteadyStays, Steady
  <2>2. \A n \in Nat : Pending(t, n)' <=> Pending(t, n)
    BY <1>1, SamePending
  <2>3. QED BY <1>1, <1>2, <1>3, <1>6, <2>1, <2>2, StayKeeps
<1>7. QED BY <1>4, <1>5, <1>6 DEF LineIsSound

LEMMA NextLineIInv ==
  ASSUME ~MayOverlap
  PROVE  LineIInv /\ [Next]_vars => LineIInv'
<1> SUFFICES ASSUME LineIInv, [Next]_vars PROVE LineIInv'
  OBVIOUS
<1>1. CacheIInv /\ LineIsSound /\ \A t \in Tfs : Line(t)
  BY DEF LineIInv, Line
<1>2. CacheIInv' /\ Types'
  BY <1>1, NextCacheIInv DEF CacheIInv
<1>3. LineIsSound' /\ \A t \in Tfs : Line(t)'
  BY <1>1, <1>2, NextLineIsSound, NextLine, StutterLine
<1>4. QED BY <1>2, <1>3 DEF LineIInv, Line

-----------------------------------------------------------------------------
(* When everything has arrived, the line is the history.                   *)
LEMMA SettledLine ==
  ASSUME LineIInv, Settled, ~lost, ~doubled
  PROVE  /\ Download(tf) /\ Late(tf, -1) /\ -1 \in Positions /\ tf \in Tfs
         /\ history \in Own(tf) /\ IsPast(tf, history)
         /\ closed \in [Tfs -> Nat] /\ closed[tf] \in Nat
         /\ \A i \in Positions : \A n : Has(tf, i, n) => i = -1
         /\ \A n : Has(tf, -1, n) <=> In(<<tf, n>>, history)
         /\ \A i, kind : ~IsFrame(tf, i, kind)
<1>1. /\ link /\ outgoing = <<>> /\ control = <<>> /\ tasks = <<>> /\ queue = <<>> /\ held = None
  BY DEF Settled
<1>2. CacheIInv /\ LineIsSound /\ \A t \in Tfs : Line(t)
  BY DEF LineIInv, Line
<1>3. Types /\ history \in Own(tf) /\ RequestAgrees /\ IsPast(tf, history)
  BY <1>2 DEF CacheIInv, LineIsSound, FramesAreSound
<1>4. tf \in Tfs /\ closed \in [Tfs -> Nat] /\ closed[tf] \in Nat
  BY <1>3 DEF Types, DaemonTypes, ClientTypes
<1>5. Steady(tf)
  BY <1>1, <1>3 DEF Steady, RequestAgrees
<1>6. Download(tf)
  BY <1>2, <1>4, <1>5 DEF Line
<1>7. Positions = -1..1 /\ Tip = 1 /\ Len(queue) = 0
  BY <1>1, <1>3, PositionsAre DEF Tip
<1>8. \A i, kind : ~IsFrame(tf, i, kind)
  BY <1>1, <1>7 DEF IsFrame
<1>9. \A n : ~Pending(tf, n)
  BY <1>1 DEF Pending
<1>10. \A i \in Positions : \A n : Has(tf, i, n) => i = -1
  BY <1>1, <1>7, <1>9 DEF Has
<1>11. \A n : Has(tf, -1, n) <=> In(<<tf, n>>, history)
  BY <1>7 DEF Has
<1>12. Late(tf, -1) /\ -1 \in Positions
  BY <1>7, <1>8 DEF Late
<1>13. QED BY <1>3, <1>4, <1>6, <1>8, <1>10, <1>11, <1>12

LEMMA DeliversOnce == LineIInv => ExactlyOnce
<1> SUFFICES ASSUME LineIInv, Settled, ~lost, ~doubled, closed[tf] <= Cap
             PROVE  ToSet(history) = ToSet(Retained(tf)) /\ IsInjective(history)
  BY DEF ExactlyOnce
<1>1. /\ Download(tf) /\ Late(tf, -1) /\ -1 \in Positions /\ tf \in Tfs
      /\ history \in Own(tf) /\ IsPast(tf, history)
      /\ closed \in [Tfs -> Nat] /\ closed[tf] \in Nat
      /\ \A i \in Positions : \A n : Has(tf, i, n) => i = -1
      /\ \A n : Has(tf, -1, n) <=> In(<<tf, n>>, history)
  BY SettledLine
<1>2. Covers(tf) /\ Apart(tf) /\ Cap \in Nat
  BY <1>1, CatchupAssumption DEF Download
<1>3. IsInjective(history)
  BY <1>1, <1>2 DEF Apart
<1>4. ASSUME NEW n \in 1..closed[tf] PROVE In(<<tf, n>>, history)
  <2>1. n + Cap > closed[tf]
    BY <1>1, <1>2
  <2>2. PICK i \in Positions : Has(tf, i, n)
    BY <1>2, <2>1 DEF Covers
  <2>3. QED BY <1>1, <2>2
<1>5. \A b : b \in ToSet(history) <=> b \in {tf} \X (1..closed[tf])
  <2>1. ASSUME NEW b \in ToSet(history) PROVE b \in {tf} \X (1..closed[tf])
    BY <1>1, <2>1 DEF ToSet, IsPast
  <2>2. ASSUME NEW b \in {tf} \X (1..closed[tf]) PROVE b \in ToSet(history)
    <3>1. PICK n \in 1..closed[tf] : b = <<tf, n>>
      BY <2>2
    <3>2. QED BY <1>4, <3>1 DEF In, ToSet
  <2>3. QED BY <2>1, <2>2
<1>6. /\ Retained(tf) \in Own(tf)
      /\ \A n \in Nat : In(<<tf, n>>, Retained(tf)) <=> n \in 1..closed[tf] /\ n + Cap > closed[tf]
  BY <1>1, RetainedIsRun
<1>7. \A b : b \in ToSet(Retained(tf)) <=> b \in {tf} \X (1..closed[tf])
  <2>1. ASSUME NEW b \in ToSet(Retained(tf)) PROVE b \in {tf} \X (1..closed[tf])
    <3>1. PICK e \in DOMAIN Retained(tf) : b = Retained(tf)[e]
      BY <2>1 DEF ToSet
    <3>2. b \in {tf} \X Nat
      BY <1>6, <3>1 DEF Own
    <3>3. PICK n \in Nat : b = <<tf, n>>
      BY <3>2
    <3>4. n \in 1..closed[tf]
      BY <1>6, <3>1, <3>3 DEF In
    <3>5. QED BY <3>3, <3>4
  <2>2. ASSUME NEW b \in {tf} \X (1..closed[tf]) PROVE b \in ToSet(Retained(tf))
    <3>1. PICK n \in 1..closed[tf] : b = <<tf, n>>
      BY <2>2
    <3>2. n \in Nat /\ n + Cap > closed[tf]
      BY <1>1, <1>2
    <3>3. In(<<tf, n>>, Retained(tf))
      BY <1>6, <3>2
    <3>4. QED BY <3>1, <3>3 DEF In, ToSet
  <2>3. QED BY <2>1, <2>2
<1>8. QED BY <1>3, <1>5, <1>7

LEMMA DeliversInOrder == LineIInv => SameOrder
<1> SUFFICES ASSUME LineIInv, Settled, ~lost, ~doubled, live = 0
             PROVE  history = Retained(tf)
  BY DEF SameOrder
<1>1. /\ Download(tf) /\ Late(tf, -1) /\ -1 \in Positions /\ tf \in Tfs
      /\ history \in Own(tf) /\ IsPast(tf, history)
      /\ closed \in [Tfs -> Nat] /\ closed[tf] \in Nat
      /\ \A i \in Positions : \A n : Has(tf, i, n) => i = -1
      /\ \A n : Has(tf, -1, n) <=> In(<<tf, n>>, history)
      /\ \A i, kind : ~IsFrame(tf, i, kind)
  BY SettledLine
<1>2. Covers(tf) /\ Gapless(tf) /\ Ends(tf) /\ Cap \in Nat /\ Cap >= 1
  BY <1>1, CatchupAssumption DEF Download
<1>3. PICK base \in Nat : RunFrom(base, tf, history)
  BY <1>1, <1>2 DEF Gapless, IsRun
<1>4. PICK c, l, k : c = Smaller(Cap, closed[tf]) /\ l = Len(history) /\ k = closed[tf]
  OBVIOUS
<1>5. /\ k \in Nat /\ l \in Nat /\ c \in Nat /\ c <= k /\ c <= Cap /\ (c = Cap \/ c = k)
  BY <1>1, <1>2, <1>4 DEF Smaller, Own
<1>6. l <= Cap
  BY <1>1, <1>2, <1>4 DEF Ends, Settled
<1>7. \A n \in 1..k : n + Cap > k => base < n /\ n <= base + l
  <2>1. ASSUME NEW n \in 1..k, n + Cap > k PROVE base < n /\ n <= base + l
    <3>1. PICK i \in Positions : Has(tf, i, n)
      BY <1>2, <1>4, <2>1 DEF Covers
    <3>2. In(<<tf, n>>, history) /\ n \in Nat
      BY <1>1, <1>5, <3>1
    <3>3. QED BY <1>1, <1>3, <1>4, <3>2, RunHas
  <2>2. QED BY <2>1
<1>8. l # 0 => base + l <= k
  <2>1. l # 0 => history # <<>>
    BY <1>4
  <2>2. QED BY <1>1, <1>3, <1>4, <2>1, RunEnds
<1>9. l = c /\ (c # 0 => base = k - c)
  <2>1. CASE k = 0
    <3>1. c = 0 /\ l = 0
      BY <1>5, <1>8, <2>1
    <3>2. QED BY <3>1
  <2>2. CASE k # 0
    <3>1. k <= base + l /\ l # 0
      <4>1. k \in 1..k /\ k + Cap > k
        BY <1>2, <1>5, <2>2
      <4>2. base < k /\ k <= base + l
        BY <1>7, <4>1
      <4>3. QED BY <1>5, <4>2
    <3>2. base + l = k
      BY <1>5, <1>8, <3>1
    <3>3. c >= 1
      BY <1>2, <1>5, <2>2
    <3>4. base < k - c + 1
      <4>1. k - c + 1 \in 1..k /\ (k - c + 1) + Cap > k
        BY <1>2, <1>5, <3>3
      <4>2. QED BY <1>7, <4>1
    <3>5. l >= c
      BY <1>5, <3>2, <3>4
    <3>6. l <= c
      BY <1>5, <1>6, <3>2
    <3>7. QED BY <1>5, <3>2, <3>5, <3>6
  <2>3. QED BY <2>1, <2>2
<1>10. PICK r : r = Retained(tf)
  OBVIOUS
<1>11. r \in Own(tf) /\ Len(r) = c /\ RunFrom(k - c, tf, r)
  BY <1>1, <1>4, <1>10, RetainedIsRun
<1>12. history \in Own(tf) /\ Len(history) = Len(r)
  BY <1>1, <1>4, <1>9, <1>11
<1>13. ASSUME NEW e \in 1..Len(r) PROVE history[e] = r[e]
  <2>1. c # 0 /\ e \in DOMAIN history /\ e \in DOMAIN r
    BY <1>5, <1>11, <1>12 DEF Own
  <2>2. base = k - c
    BY <1>9, <2>1
  <2>3. QED BY <1>3, <1>11, <2>1, <2>2 DEF RunFrom
<1>14. history = r
  BY <1>11, <1>12, <1>13 DEF Own
<1>15. QED BY <1>10, <1>14

LEMMA LineIInvDelivers == LineIInv => HistoryIsDelivered
<1> SUFFICES ASSUME LineIInv PROVE HistoryIsDelivered
  OBVIOUS
<1>1. tf \in Tfs
  BY DEF LineIInv, CacheIInv, Types, ClientTypes
<1>2. OnlyTwinStreamsDouble
  BY <1>1 DEF LineIInv, NotMarred, OnlyTwinStreamsDouble
<1>3. QED BY <1>2, DeliversOnce, DeliversInOrder DEF HistoryIsDelivered

(* Unless a switch and a reconnect overlap, what has arrived in the end is  *)
(* what the daemon keeps: nothing twice and nothing missing up to the cap,  *)
(* in its order when nothing closed during the download; and a bucket is in *)
(* the history twice only after two catch-ups of its timeframe overlapped   *)
(* or a frame of it was dropped (daemon.py: catch-up and broadcast;         *)
(* pipe_client.py: _apply).                                                 *)
THEOREM HistoryHolds == ASSUME ~MayOverlap PROVE Spec => []HistoryIsDelivered
<1>1. Init => LineIInv
  BY InitLineIInv
<1>2. LineIInv /\ [Next]_vars => LineIInv'
  BY NextLineIInv
<1>3. LineIInv => HistoryIsDelivered
  BY LineIInvDelivers
<1>4. QED BY <1>1, <1>2, <1>3, PTL DEF Spec
=============================================================================
