------------------------------ MODULE ObRefresh ------------------------------
(***************************************************************************)
(* The order-block matrix from the engines to one terminal window.         *)
(*                                                                         *)
(* The daemon rescans a timeframe in recompute_loop, off the event loop in *)
(* a pool of one worker process, with the computation on the loop as the   *)
(* fallback; the same pool is used by warm_ob_pool at boot.  The window    *)
(* also gets a matrix in the CATCHUP_START of each subscription.  Both     *)
(* travel in the window's bounded queue, and a frame that finds the queue  *)
(* full is dropped.  The frames of trades and closes in that queue leave   *)
(* the matrix alone and are not modelled: a small QueueMax stands for the  *)
(* room they leave.                                                        *)
(*                                                                         *)
(* A matrix is a pure function of the closed buckets: the model keeps the  *)
(* number of closed buckets it was computed from ("at").                   *)
(***************************************************************************)
EXTENDS Integers, Sequences, FiniteSets, Functions, SequencesExt

CONSTANTS
    TFs,            \* config.TIMEFRAMES, in the order recompute_loop visits them
    None,           \* no value
    MaxFails,       \* _OB_POOL_MAX_FAILS
    QueueMax,       \* config.SOCKET_QUEUE_MAX
    MaxClosed,      \* bound: bucket closes, of all timeframes together
    MaxSwitches,    \* bound: subscriptions of the window
    MaxFaults       \* bound: worker deaths, failed creations, rescans that raise

TFSet == ToSet(TFs)

ASSUME ObRefreshAssumption ==
    /\ TFs # <<>> /\ TFs \in Seq(TFSet) /\ IsInjective(TFs)
    /\ None \notin TFSet \cup Nat
    /\ {MaxFails, QueueMax} \subseteq Nat \ {0}
    /\ {MaxClosed, MaxSwitches, MaxFaults} \subseteq Nat

VARIABLES
    up,             \* the event loop runs
    closed,         \* engine.total_closed of each timeframe
    lastClosed,     \* recompute_loop's last_closed, None before the first rescan
    pool,           \* _ob_pool: the number of the pool in use, or None
    disabled,       \* _ob_pool_disabled
    fails,          \* _ob_pool_fails
    openPools,      \* pools created and not shut down
    broken,         \* pools whose worker has died
    loop,           \* where recompute_loop is: its pc, timeframe, snapshot, pool
    warm,           \* where warm_ob_pool is, and the pool it waits for
    sub,            \* client.tf in the daemon
    control,        \* set_tf lines on their way to the daemon
    starting,       \* _send_catchup tasks created and not begun
    queue,          \* the client's queue, with the socket behind it
    view,           \* the window: its timeframe and the matrix it shows
    switches, faults, created,
    lost            \* history: timeframes with a matrix dropped or never computed

poolVars   == <<pool, disabled, fails, openPools, broken, created>>
clientVars == <<sub, control, starting, queue, view, switches>>
vars == <<up, closed, lastClosed, poolVars, loop, warm, clientVars, faults, lost>>

Asleep == [pc |-> "sleep", i |-> 0, at |-> 0, pool |-> None]

Yielded(i) == [pc |-> "yield", i |-> i, at |-> 0, pool |-> None]
Warmed     == [pc |-> "done", pool |-> None]

Init ==
    /\ up = TRUE
    /\ closed = [tf \in TFSet |-> 0]
    /\ lastClosed = [tf \in TFSet |-> None]
    /\ pool = None /\ disabled = FALSE /\ fails = 0
    /\ openPools = {} /\ broken = {} /\ created = 0
    /\ loop = Asleep /\ warm = [pc |-> "ready", pool |-> None]
    /\ sub = None /\ control = <<TFs[1]>> /\ starting = {} /\ queue = <<>>
    /\ view = [tf |-> TFs[1], at |-> None]
    /\ switches = 0 /\ faults = 0 /\ lost = {}

-----------------------------------------------------------------------------
(* The pool.                                                               *)

Fault == faults < MaxFaults /\ faults' = faults + 1

(* Mutant: a failure is counted by the caller too.                         *)
NoteFail_CountsTwice ==
    /\ pool' = None
    /\ openPools' = openPools \ {pool}
    /\ fails' = fails + 2
    /\ disabled' = (disabled \/ fails + 2 >= MaxFails)
    /\ UNCHANGED <<broken, created>>

(* _note_ob_pool_fail: whatever pool is current is shut down, the failure  *)
(* counted, the latch set at the limit.                                    *)
NoteFail ==
    /\ pool' = None
    /\ openPools' = openPools \ {pool}
    /\ fails' = fails + 1
    /\ disabled' = (disabled \/ fails + 1 >= MaxFails)
    /\ UNCHANGED <<broken, created>>

PoolCreated ==
    /\ created' = created + 1
    /\ pool' = created + 1
    /\ openPools' = openPools \cup {created + 1}
    /\ UNCHANGED <<disabled, fails, broken>>

(* _ensure_ob_pool: hands out p, None for "compute on the loop".           *)
EnsurePool(p) ==
    \/ disabled /\ p = None /\ UNCHANGED <<poolVars, faults>>
    \/ ~disabled /\ pool # None /\ p = pool /\ UNCHANGED <<poolVars, faults>>
    \/ ~disabled /\ pool = None /\ PoolCreated /\ p = created + 1 /\ UNCHANGED faults
    \/ ~disabled /\ pool = None /\ p = None /\ Fault /\ NoteFail

(* The worker process dies, busy or idle: what was submitted to its pool,  *)
(* and what will be, raises BrokenProcessPool.                             *)
WorkerDies ==
    /\ \E p \in ({pool} \ {None}) \ broken : broken' = broken \cup {p}
    /\ Fault
    /\ UNCHANGED <<up, closed, lastClosed, pool, disabled, fails, openPools, created,
                   loop, warm, clientVars, lost>>

WarmStart ==
    /\ warm.pc = "ready"
    /\ \E p \in {None, pool, created + 1} :
          /\ EnsurePool(p)
          /\ warm' = IF p = None THEN Warmed ELSE [pc |-> "wait", pool |-> p]
    /\ UNCHANGED <<up, closed, lastClosed, loop, clientVars, lost>>

WarmEnd ==
    /\ warm.pc = "wait"
    /\ warm' = Warmed
    /\ IF warm.pool \in broken THEN NoteFail ELSE UNCHANGED poolVars
    /\ UNCHANGED <<up, closed, lastClosed, loop, clientVars, faults, lost>>

-----------------------------------------------------------------------------
(* The queue of the window: put_nowait, QueueFull swallowed.  A dropped    *)
(* matrix is remembered in lost.                                           *)

Room == Len(queue) < QueueMax

(* The queue and the lost set after frame f was offered to the client.     *)
Offered(f) == IF Room THEN Append(queue, f) ELSE queue
LostBy(f) == IF Room THEN {} ELSE {f.tf}

(* broadcast_tf of a recomputed matrix: only to a subscriber of tf.        *)
BroadcastMatrix(tf, at) ==
    LET f == [tf |-> tf, at |-> at]
    IN  IF sub = tf
        THEN queue' = Offered(f) /\ lost' = (lost \ {tf}) \cup LostBy(f)
        ELSE UNCHANGED <<queue, lost>>

-----------------------------------------------------------------------------
(* recompute_loop.                                                         *)

Due(tf) == sub = tf /\ lastClosed[tf] # closed[tf]

(* The rescan of the timeframe at index j begins; without a pool it ends   *)
(* here, on the loop.                                                      *)
Rescan(j, tf) ==
    /\ lastClosed' = [lastClosed EXCEPT ![tf] = closed[tf]]
    /\ \E p \in {None, pool, created + 1} :
          /\ EnsurePool(p)
          /\ loop' = IF p = None THEN Yielded(j)
                     ELSE [pc |-> "wait", i |-> j, at |-> closed[tf], pool |-> p]
          /\ IF p = None THEN BroadcastMatrix(tf, closed[tf]) ELSE UNCHANGED <<queue, lost>>

(* From index i on: the timeframes that nobody watches or where nothing    *)
(* closed are passed over without an await; the first one that is due is   *)
(* marked as rescanned, its buckets are copied, and the rescan starts.     *)
VisitFrom(i) ==
    \/ /\ \A j \in i..Len(TFs) : ~Due(TFs[j])
       /\ loop' = Asleep
       /\ UNCHANGED <<lastClosed, poolVars, faults, queue, lost>>
    \/ \E j \in i..Len(TFs) :
          /\ Due(TFs[j]) /\ \A k \in i..(j - 1) : ~Due(TFs[k])
          /\ Rescan(j, TFs[j])

Sweep ==
    /\ loop.pc = "sleep" /\ VisitFrom(1)
    /\ UNCHANGED <<up, closed, warm, sub, control, starting, view, switches>>

NextEngine ==
    /\ loop.pc = "yield" /\ VisitFrom(loop.i + 1)
    /\ UNCHANGED <<up, closed, warm, sub, control, starting, view, switches>>

(* Mutant: the close count is read when the rescan returns.                *)
RescanReturns_MarksNow ==
    /\ loop.pc = "wait"
    /\ IF loop.pool \in broken THEN NoteFail ELSE UNCHANGED poolVars
    /\ BroadcastMatrix(TFs[loop.i], loop.at)
    /\ loop' = Yielded(loop.i)
    /\ lastClosed' = [lastClosed EXCEPT ![TFs[loop.i]] = closed[TFs[loop.i]]]
    /\ UNCHANGED <<up, closed, warm, sub, control, starting, view, switches, faults>>

(* The rescan comes back: computed by the worker, or on the loop from the  *)
(* same snapshot after the pool failed.                                    *)
RescanReturns ==
    /\ loop.pc = "wait"
    /\ IF loop.pool \in broken THEN NoteFail ELSE UNCHANGED poolVars
    /\ BroadcastMatrix(TFs[loop.i], loop.at)
    /\ loop' = Yielded(loop.i)
    /\ UNCHANGED <<up, closed, lastClosed, warm, sub, control, starting, view, switches, faults>>

(* The rescan raises in the worker: counted against the pool, tried again  *)
(* on the loop, where it raises too; recompute_loop logs it and goes on.   *)
RescanRaises ==
    /\ loop.pc = "wait"
    /\ Fault
    /\ NoteFail
    /\ lost' = lost \cup {TFs[loop.i]}
    /\ loop' = Yielded(loop.i)
    /\ UNCHANGED <<up, closed, lastClosed, warm, clientVars>>

(* A bucket closes in _process_aggtrade.                                   *)
CloseBucket(tf) ==
    /\ SumFunction(closed) < MaxClosed
    /\ closed' = [closed EXCEPT ![tf] = @ + 1]
    /\ UNCHANGED <<up, lastClosed, poolVars, loop, warm, clientVars, faults, lost>>

-----------------------------------------------------------------------------
(* The window and its subscription.                                        *)

(* request_timeframe: the matrix is cleared, set_tf is queued.             *)
SwitchTf(tf) ==
    /\ switches < MaxSwitches /\ tf # view.tf
    /\ switches' = switches + 1
    /\ view' = [tf |-> tf, at |-> None]
    /\ control' = Append(control, tf)
    /\ UNCHANGED <<up, closed, lastClosed, poolVars, loop, warm, sub, starting, queue, faults, lost>>

(* Mutant: set_tf only moves the subscription.                             *)
HandleSetTf_NoCatchup ==
    /\ control # <<>>
    /\ sub' = Head(control)
    /\ control' = Tail(control)
    /\ UNCHANGED <<up, closed, lastClosed, poolVars, loop, warm, starting, queue, view, switches, faults, lost>>

(* _handle_control of set_tf: subscribe and create the catch-up task.      *)
HandleSetTf ==
    /\ control # <<>>
    /\ sub' = Head(control)
    /\ starting' = starting \cup {Head(control)}
    /\ control' = Tail(control)
    /\ UNCHANGED <<up, closed, lastClosed, poolVars, loop, warm, queue, view, switches, faults, lost>>

(* _send_catchup up to its first await: CATCHUP_START carries the matrix   *)
(* of this moment, computed on the loop.                                   *)
SendCatchupStart(tf) ==
    LET f == [tf |-> tf, at |-> closed[tf]]
    IN  /\ tf \in starting
        /\ starting' = starting \ {tf}
        /\ queue' = Offered(f)
        /\ lost' = (lost \ {tf}) \cup LostBy(f)
        /\ UNCHANGED <<up, closed, lastClosed, poolVars, loop, warm, sub, control, view,
                       switches, faults>>

(* _apply drops the frames of another timeframe.                           *)
Applies(f) == f.tf = view.tf

Deliver ==
    /\ queue # <<>>
    /\ queue' = Tail(queue)
    /\ view' = IF Applies(Head(queue)) THEN [view EXCEPT !.at = Head(queue).at] ELSE view
    /\ UNCHANGED <<up, closed, lastClosed, poolVars, loop, warm, sub, control, starting,
                   switches, faults, lost>>

(* shutdown_ob_pool, after the event loop has ended: the tasks, the queue  *)
(* and the subscriptions are gone with the process.                        *)
Shutdown ==
    /\ up' = FALSE
    /\ pool' = None /\ openPools' = openPools \ {pool} /\ disabled' = TRUE
    /\ loop' = Asleep /\ warm' = Warmed
    /\ sub' = None /\ control' = <<>> /\ starting' = {} /\ queue' = <<>>
    /\ lastClosed' = [tf \in TFSet |-> None] /\ lost' = {}
    /\ UNCHANGED <<closed, fails, broken, created, view, switches, faults>>

-----------------------------------------------------------------------------
(* warm_ob_pool is a task of start_tasks: it runs before any loop wakes up *)
(* and before a window is served.                                          *)
Booted == warm.pc # "ready"

Recompute == Sweep \/ NextEngine \/ RescanReturns
Server    == HandleSetTf \/ \E tf \in TFSet : SendCatchupStart(tf)

Next ==
    /\ up
    /\ \/ WarmStart
       \/ Booted /\ (WorkerDies \/ WarmEnd)
       \/ Booted /\ (Sweep \/ NextEngine \/ RescanReturns \/ RescanRaises)
       \/ \E tf \in TFSet : Booted /\ (CloseBucket(tf) \/ SwitchTf(tf) \/ SendCatchupStart(tf))
       \/ Booted /\ (HandleSetTf \/ Deliver)
       \/ Shutdown

Spec == Init /\ [][Next]_vars

(* The event loop runs its ready tasks in turn and a rescan comes back, by *)
(* the worker or by its death; the sender and the window's thread drain.   *)
FairSpec ==
    /\ Spec
    /\ WF_vars(up /\ Recompute) /\ WF_vars(up /\ WarmEnd)
    /\ WF_vars(up /\ Server) /\ WF_vars(up /\ Deliver)

-----------------------------------------------------------------------------
(* Every variable has its type.                                            *)
TypeOK ==
    /\ up \in BOOLEAN /\ disabled \in BOOLEAN
    /\ closed \in [TFSet -> Nat]
    /\ lastClosed \in [TFSet -> {None} \cup Nat]
    /\ pool \in {None} \cup 1..created /\ created \in Nat /\ fails \in Nat
    /\ openPools \cup broken \subseteq 1..created
    /\ loop \in [pc : {"sleep", "wait", "yield"}, i : 0..Len(TFs), at : Nat,
                 pool : {None} \cup 1..created]
    /\ warm \in [pc : {"ready", "wait", "done"}, pool : {None} \cup 1..created]
    /\ sub \in {None} \cup TFSet /\ starting \subseteq TFSet /\ lost \subseteq TFSet
    /\ control \in Seq(TFSet)
    /\ queue \in Seq([tf : TFSet, at : Nat]) /\ Len(queue) <= QueueMax
    /\ view \in [tf : TFSet, at : {None} \cup Nat]
    /\ switches \in 0..MaxSwitches /\ faults \in 0..MaxFaults

(* No worker process is leaked: of all the pools ever created only the one *)
(* in use is open, and none after the shutdown, although two tasks fail    *)
(* and recreate the pool independently ("reaps the worker -> no process    *)
(* leak", _note_ob_pool_fail).                                             *)
NoWorkerLeak == openPools = {pool} \ {None}

(* The fallback is latched after repeated failures and not by one: a       *)
(* worker death is reported at most twice, by the warm-up and by one       *)
(* rescan, so three counted failures are at least two faults.              *)
LatchNeedsTwoFaults == up /\ disabled => fails >= MaxFails /\ faults >= 2

(* A window that stays on a timeframe ends up with the matrix of the last  *)
(* closed bucket, through worker deaths, the latch, switches away and back *)
(* during a rescan, and a rescan that is overtaken by a close; unless a    *)
(* matrix was dropped at a full queue or its rescan raised, which nothing  *)
(* repeats before the next close.                                          *)
MatrixCatchesUp ==
    \A tf \in TFSet :
        (sub = tf /\ view.tf = tf) ~>
            (~up \/ sub # tf \/ view.tf # tf \/ tf \in lost \/ view.at = closed[tf])

(* An older matrix may replace a newer one (a rescan that was overtaken by *)
(* the catch-up of a new subscription), but only while a newer one is      *)
(* still to come: behind it in the queue, or due in the recompute loop.    *)
FresherIsComing(tf) ==
    \/ tf \in starting \cup lost \/ tf \in ToSet(control)
    \/ lastClosed[tf] # closed[tf]
    \/ loop.pc = "wait" /\ TFs[loop.i] = tf /\ loop.at = closed[tf]
    \/ \E k \in 1..Len(queue) : queue[k] = [tf |-> tf, at |-> closed[tf]]

BackwardOnlyForAWhile ==
    [][ (view'.tf = view.tf /\ view.at # None /\ view'.at # None /\ sub = view.tf)
            => IF view'.at < view.at THEN FresherIsComing(view.tf)' ELSE TRUE ]_vars

(* The pool's bookkeeping survives two tasks that fail it independently:   *)
(* no worker is leaked, and no single death latches the fallback.          *)
PoolIsAccounted == TypeOK /\ NoWorkerLeak /\ LatchNeedsTwoFaults
=============================================================================
