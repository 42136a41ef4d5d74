---------------------------- MODULE CatchupStream ----------------------------
(***************************************************************************)
(* How one terminal obtains and follows the closed buckets of a timeframe: *)
(* the daemon's side (daemon.py, feeds.py), the bounded queue of the       *)
(* connection, and the terminal's cache (pipe_client.py).                  *)
(*                                                                         *)
(* A set_tf line makes the daemon subscribe the client and start a task    *)
(* that sends START, the retained buckets in chunks, and END, yielding to  *)
(* the event loop after every chunk; meanwhile each close of a subscribed  *)
(* timeframe is sent at once.  A full queue drops the frame.  The worker   *)
(* thread applies frames in the order received.  It looks at the           *)
(* timeframe of a catch-up frame before it takes the lock and again under  *)
(* it, because the user may switch in between.                             *)
(*                                                                         *)
(* Clients do not share state, so one is modelled.  "queue" stands for     *)
(* the client's asyncio queue and the socket behind it.  The tasks of a    *)
(* broken connection go on filling a queue nobody reads: they are dropped. *)
(*                                                                         *)
(* request_timeframe is called by the GUI thread when the user switches    *)
(* and by the worker when it has connected.  It sets the timeframe, clears *)
(* the cache and queues set_tf (two short locked sections, one step here), *)
(* then waits for a REST baseline and sets the timeframe once more.        *)
(***************************************************************************)
EXTENDS Naturals, Sequences, SequencesExt, Functions

CONSTANTS Tfs,          \* timeframes
          None,
          Cap,          \* CLOSED_BUCKETS_CAP
          ChunkSize,    \* CATCHUP_CHUNK_SIZE
          QueueMax,     \* SOCKET_QUEUE_MAX
          FirstTf,      \* the timeframe the terminal opens with
          MayOverlap,   \* the two threads may be in request_timeframe at once
          StartCounts,  \* buckets a timeframe may have when the run begins
          MaxCloses,    \* bound: trades that close a bucket
          MaxSwitches,  \* bound: switches by the user
          MaxDowns      \* bound: broken connections

ASSUME CatchupAssumption ==
    /\ Cap \in Nat \ {0} /\ ChunkSize \in 1..Cap /\ QueueMax \in Nat \ {0}
    /\ FirstTf \in Tfs /\ None \notin Tfs /\ MayOverlap \in BOOLEAN
    /\ StartCounts \subseteq Nat /\ MaxCloses \in Nat /\ MaxSwitches \in Nat /\ MaxDowns \in Nat

VARIABLES closed,    \* [Tfs -> Nat]: buckets closed so far; bucket n of t is <<t, n>>
          sub,       \* client.tf in the daemon
          tasks,     \* the catch-up tasks, in the order the event loop runs them
          queue,     \* frames on their way to the terminal
          control,   \* set_tf lines on their way to the daemon
          link,      \* a connection is up
          tf, history, loading,    \* the terminal's cache
          held,      \* the catch-up frame the worker has checked, not yet applied
          outgoing,  \* set_tf lines the terminal has not sent
          guiLoads, workerLoads,  \* the timeframe whose baseline the thread awaits
          closes, switches, downs,  \* counters of the bounds
          lost,      \* ghost: the queue has dropped a frame since the last START
          doubled,   \* ghost: two catch-ups of the subscribed timeframe overlap
          marred,    \* ghost: timeframes of which this connection has ever dropped a frame
                     \* or run two catch-ups side by side
          live       \* ghost: buckets closed and sent since the last START, before its END

daemon == <<closed, sub, tasks, closes>>
loads == <<guiLoads, workerLoads>>
client == <<tf, history, loading, held, outgoing, loads>>
ghosts == <<lost, doubled, marred, live>>
vars == <<daemon, queue, control, link, client, switches, downs, ghosts>>

Bucket == Tfs \X Nat
Frame == [kind : {"start", "chunk", "end", "close"}, tf : Tfs, buckets : Seq(Bucket)]
Task == [tf : Tfs, started : BOOLEAN, rest : Seq(Bucket)]

ASSUME NoneIsNoFrame == None \notin Frame

TypeOK ==
    /\ closed \in [Tfs -> Nat] /\ sub \in Tfs \cup {None}
    /\ \A i \in DOMAIN tasks : tasks[i] \in Task
    /\ \A i \in DOMAIN queue : queue[i] \in Frame
    /\ Len(queue) =< QueueMax
    /\ \A i \in DOMAIN control : control[i] \in Tfs
    /\ \A i \in DOMAIN outgoing : outgoing[i] \in Tfs
    /\ tf \in Tfs /\ history \in Seq(Bucket) /\ held \in Frame \cup {None}
    /\ {guiLoads, workerLoads} \subseteq Tfs \cup {None}
    /\ {link, loading, lost, doubled} \subseteq BOOLEAN /\ marred \subseteq Tfs
    /\ live \in Nat /\ closes \in 0..MaxCloses /\ switches \in 0..MaxSwitches /\ downs \in 0..MaxDowns
-----------------------------------------------------------------------------
F(kind, t, buckets) == [kind |-> kind, tf |-> t, buckets |-> buckets]

Smaller(a, b) == IF a =< b THEN a ELSE b

\* the last Cap elements: list[-CLOSED_BUCKETS_CAP:]
LastCap(s) == SubSeq(s, Len(s) - Smaller(Cap, Len(s)) + 1, Len(s))

\* the engine's closed_buckets: the last Cap of those ever closed
Retained(t) == LastCap([n \in 1..closed[t] |-> <<t, n>>])

\* put_nowait each frame: those that do not fit are dropped
Overflows(frames) == Len(queue) + Len(frames) > QueueMax
Marred(t, frames) == IF Overflows(frames) THEN marred \cup {t} ELSE marred
Room == QueueMax - Len(queue)
Queued(frames) == queue \o SubSeq(frames, 1, Smaller(Room, Len(frames)))

Init ==
    /\ closed \in [Tfs -> StartCounts] /\ sub = None /\ tasks = <<>>
    /\ queue = <<>> /\ control = <<>> /\ link = FALSE
    /\ tf = FirstTf /\ history = <<>> /\ loading = FALSE
    /\ held = None /\ outgoing = <<>> /\ guiLoads = None /\ workerLoads = None
    /\ closes = 0 /\ switches = 0 /\ downs = 0
    /\ lost = FALSE /\ doubled = FALSE /\ marred = {} /\ live = 0
-----------------------------------------------------------------------------
(* The daemon's event loop *)

\* a trade closes k buckets of t; the subscriber gets them in one frame
CloseBuckets(t, k) ==
    /\ closes < MaxCloses /\ closes' = closes + 1
    /\ closed' = [closed EXCEPT ![t] = @ + k]
    /\ IF link /\ sub = t
       THEN LET frames == <<F("close", t, [i \in 1..k |-> <<t, closed[t] + i>>])>> IN
            /\ queue' = Queued(frames) /\ lost' = (lost \/ Overflows(frames))
            /\ marred' = Marred(t, frames)
            /\ live' = IF \E i \in DOMAIN tasks : tasks[i].tf = t /\ tasks[i].started
                       THEN live + k ELSE live
       ELSE UNCHANGED <<queue, lost, marred, live>>
    /\ UNCHANGED <<sub, tasks, control, link, client, switches, downs, doubled>>

\* a set_tf line: subscribe, and create the catch-up task
HandleControl ==
    /\ link /\ control # <<>>
    /\ sub' = Head(control)
    /\ tasks' = Append(tasks, [tf |-> Head(control), started |-> FALSE, rest |-> <<>>])
    /\ control' = Tail(control)
    /\ doubled' = \E i \in DOMAIN tasks : tasks[i].tf = Head(control)
    /\ marred' = IF doubled' THEN marred \cup {Head(control)} ELSE marred
    /\ UNCHANGED <<closed, closes, queue, link, client, switches, downs, lost, live>>

FirstChunk(s) == SubSeq(s, 1, Smaller(ChunkSize, Len(s)))
Rest(s) == SubSeq(s, ChunkSize + 1, Len(s))

\* the first step of a task: START, then the first chunk - or END at once when
\* there is no bucket
BeginCatchup ==
    /\ tasks # <<>> /\ ~Head(tasks).started
    /\ LET t == Head(tasks).tf
           frames == IF Retained(t) = <<>>
                     THEN <<F("start", t, <<>>), F("end", t, <<>>)>>
                     ELSE <<F("start", t, <<>>), F("chunk", t, FirstChunk(Retained(t)))>>
       IN  /\ queue' = Queued(frames) /\ lost' = Overflows(frames)
           /\ marred' = Marred(t, frames) /\ live' = 0
           /\ tasks' = IF Retained(t) = <<>> THEN Tail(tasks)
                       ELSE Append(Tail(tasks),
                                   [tf |-> t, started |-> TRUE, rest |-> Rest(Retained(t))])
    /\ UNCHANGED <<closed, closes, sub, control, link, client, switches, downs, doubled>>

\* after sleep(0): the next chunk, or END
ContinueCatchup ==
    /\ tasks # <<>> /\ Head(tasks).started
    /\ LET t == Head(tasks).tf
           rest == Head(tasks).rest
           frames == IF rest = <<>> THEN <<F("end", t, <<>>)>>
                     ELSE <<F("chunk", t, FirstChunk(rest))>>
       IN  /\ queue' = Queued(frames) /\ lost' = (lost \/ Overflows(frames))
           /\ marred' = Marred(t, frames)
           /\ tasks' = IF rest = <<>> THEN Tail(tasks)
                       ELSE Append(Tail(tasks), [Head(tasks) EXCEPT !.rest = Rest(rest)])
    /\ UNCHANGED <<closed, closes, sub, control, link, client, switches, downs, doubled, live>>
-----------------------------------------------------------------------------
(* The terminal *)

\* request_timeframe: clear the cache and queue the set_tf line
AnnounceFirst(t) == <<t>> \o outgoing                                    \* mutant
Announce(t) == Append(outgoing, t)
Request(t) == tf' = t /\ history' = <<>> /\ outgoing' = Announce(t)

\* the user picks another timeframe (GUI thread), connected or not
SwitchTf(t) ==
    /\ switches < MaxSwitches /\ t # tf
    /\ guiLoads = None /\ (workerLoads = None \/ MayOverlap)
    /\ switches' = switches + 1
    /\ Request(t) /\ guiLoads' = t
    /\ UNCHANGED <<daemon, queue, control, link, loading, held, workerLoads, downs, ghosts>>

\* the worker connects and requests its timeframe: the daemon gives the client
\* a new queue and no subscription
Connect ==
    /\ ~link /\ link' = TRUE
    /\ guiLoads = None \/ MayOverlap
    /\ Request(tf) /\ workerLoads' = tf
    /\ queue' = <<>> /\ control' = <<>> /\ sub' = None /\ tasks' = <<>> /\ marred' = {}
    /\ UNCHANGED <<closed, closes, loading, held, guiLoads, switches, downs, lost, doubled, live>>

\* load_baseline: the REST answer, or its failure, sets the timeframe again
GuiBaseline ==
    /\ guiLoads # None /\ tf' = guiLoads /\ guiLoads' = None
    /\ UNCHANGED <<daemon, queue, control, link, history, loading, held, outgoing,
                   workerLoads, switches, downs, ghosts>>
WorkerBaseline ==
    /\ workerLoads # None /\ tf' = workerLoads /\ workerLoads' = None
    /\ UNCHANGED <<daemon, queue, control, link, history, loading, held, outgoing,
                   guiLoads, switches, downs, ghosts>>

\* the worker is in its receive loop
Receiving == link /\ workerLoads = None /\ held = None

\* the connection breaks, or refresh() drops it.  The worker flushes before it
\* reads, so it notices only after its own set_tf went out; lines it then
\* flushes may be lost
Disconnect ==
    /\ Receiving /\ downs < MaxDowns
    /\ sub # None \/ control # <<>>
    /\ link' = FALSE /\ downs' = downs + 1
    /\ queue' = <<>> /\ control' = <<>> /\ sub' = None /\ tasks' = <<>>
    /\ outgoing' \in {outgoing, <<>>}
    /\ UNCHANGED <<closed, closes, tf, history, loading, held, loads, switches, ghosts>>

\* _flush_outgoing, between two reads of the socket
Flush ==
    /\ Receiving /\ outgoing # <<>>
    /\ control' = control \o outgoing /\ outgoing' = <<>>
    /\ UNCHANGED <<daemon, queue, link, tf, history, loading, held, loads, switches, downs, ghosts>>

Wanted(f) == f.tf = tf

\* _apply up to the lock: a close frame is applied under one lock; a catch-up
\* frame of another timeframe is dropped, one of ours is held
Receive ==
    /\ Receiving /\ queue # <<>>
    /\ queue' = Tail(queue)
    /\ LET f == Head(queue) IN
       IF f.kind = "close"
       THEN /\ history' = IF Wanted(f) THEN LastCap(history \o f.buckets) ELSE history
            /\ UNCHANGED held
       ELSE /\ held' = IF f.tf = tf THEN f ELSE None
            /\ UNCHANGED history
    /\ UNCHANGED <<daemon, control, link, tf, loading, outgoing, loads, switches, downs, ghosts>>

NotCleared == history                                                    \* mutant
ClearedHistory == <<>>
StillLoading == loading                                                  \* mutant
Complete == FALSE

\* _apply of a catch-up frame under the lock, where the timeframe is checked again
ApplyHeld ==
    /\ held # None
    /\ held' = None
    /\ CASE ~Wanted(held) -> UNCHANGED <<history, loading>>
         [] Wanted(held) /\ held.kind = "start" ->
              history' = ClearedHistory /\ loading' = TRUE
         [] Wanted(held) /\ held.kind = "chunk" ->
              history' = history \o held.buckets /\ UNCHANGED loading
         [] Wanted(held) /\ held.kind = "end" ->
              history' = LastCap(history) /\ loading' = Complete
    /\ UNCHANGED <<daemon, queue, control, link, tf, outgoing, loads, switches, downs, ghosts>>
-----------------------------------------------------------------------------
Next ==
    \/ \E t \in Tfs, k \in 1..2 : CloseBuckets(t, k)
    \/ HandleControl \/ BeginCatchup \/ ContinueCatchup
    \/ \E t \in Tfs : SwitchTf(t)
    \/ Connect \/ GuiBaseline \/ WorkerBaseline \/ Disconnect \/ Flush \/ Receive \/ ApplyHeld

\* asyncio runs every ready task and reads every line; the worker's loop
\* reconnects, flushes, reads and applies without end; a REST call times out.  Trades, switches and
\* broken connections owe nothing.
Fairness ==
    /\ WF_vars(HandleControl) /\ WF_vars(BeginCatchup) /\ WF_vars(ContinueCatchup)
    /\ WF_vars(Connect) /\ WF_vars(GuiBaseline) /\ WF_vars(WorkerBaseline)
    /\ WF_vars(Flush) /\ WF_vars(Receive) /\ WF_vars(ApplyHeld)

Spec == Init /\ [][Next]_vars /\ Fairness
-----------------------------------------------------------------------------
\* nothing is on its way in either direction
Settled ==
    /\ link /\ outgoing = <<>> /\ control = <<>>
    /\ guiLoads = None /\ workerLoads = None
    /\ tasks = <<>> /\ queue = <<>> /\ held = None

\* The buckets on screen belong to the timeframe on screen, although frames of
\* the previous one are still arriving and the switch may fall between the two
\* looks _apply takes at the timeframe.  (pipe_client.py: "a stale in-flight
\* frame from a previous tf can never corrupt the cache".)  Assumed, here and for
\* the agreement below: a switch and a reconnect do not overlap.
NoForeignBuckets == \A i \in DOMAIN history : history[i][1] = tf

\* Once everything has arrived the daemon serves the timeframe the terminal
\* shows, whatever was switched while the connection was down.
SubscriptionAgrees == Settled => sub = tf

\* A catch-up and the closes sent beside it deliver every bucket exactly once:
\* one that closes between the subscription, the snapshot, the chunks and END is
\* neither lost nor sent twice.  Assumed: no frame dropped, no second catch-up
\* of the timeframe at work, and a history short of the cap.
ExactlyOnce ==
    Settled /\ ~lost /\ ~doubled /\ closed[tf] =< Cap =>
        /\ ToSet(history) = ToSet(Retained(tf))
        /\ IsInjective(history)

\* If nothing closed during the download, the history is the daemon's, in its
\* order - also when later closes have pushed the oldest buckets out at both
\* ends of the pipe.
SameOrder ==
    Settled /\ ~lost /\ ~doubled /\ live = 0 => history = Retained(tf)

\* No bucket is ever in the history twice, in the middle of a download either,
\* unless on this connection two streams of its timeframe ran side by side or a
\* full queue dropped a frame of it (START, when a close got through before it).  (daemon.py: "a
\* mid-stream tf switch can't corrupt its cache - the stale stream's frames are
\* simply dropped"; those of a stale stream of the same timeframe are not.)
OnlyTwinStreamsDouble == tf \notin marred => IsInjective(history)

\* A download ends: the loading flag is cleared again unless a frame was lost -
\* in particular when the user switches away in the middle of it.
LoadingClears == loading ~> (~loading \/ lost)

\* The window holds buckets of one timeframe, its own, and the daemon comes to
\* serve that one, whichever of switch, request, frame and reconnect comes first.
CacheIsOfItsTimeframe == TypeOK /\ NoForeignBuckets /\ SubscriptionAgrees

\* What the catch-up delivers is what the daemon keeps: nothing twice, nothing
\* missing, and in its order, for the cases each part states.
HistoryIsDelivered == ExactlyOnce /\ SameOrder /\ OnlyTwinStreamsDouble
=============================================================================
