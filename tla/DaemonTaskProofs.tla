--------------------------- MODULE DaemonTaskProofs ---------------------------
(***************************************************************************)
(* Proofs about two tasks that run beside the daemon's feeds.              *)
(*                                                                         *)
(* The recompute loop: the bookkeeping of the process pool survives two    *)
(* tasks that fail it independently, and a window sees an older matrix     *)
(* only for as long as a rescan of its last switch is under way, for any   *)
(* timeframes, queue and number of faults.                                 *)
(*                                                                         *)
(* The OI attributor: its state predicates are inductive together, for any *)
(* market, trades, caps and average.  The accounting needs the types (a    *)
(* sum of integers), the counters need the accounting's terms to be        *)
(* integers, and the cap needs nothing but the types.                      *)
(***************************************************************************)
EXTENDS ObRefresh, OiAttributor, SequenceTheorems, FiniteSetTheorems, TLAPS

-----------------------------------------------------------------------------
(* The process pool and the recompute loop. *)

Waiting == loop.pc = "wait"

(* A dead worker that somebody may still report besides the warm-up: that  *)
(* of the pool in use, or of the pool the rescan waits for.                *)
Unreported == pool \in broken \/ (Waiting /\ loop.pool \in broken)

One(b) == IF b THEN 1 ELSE 0

(* A rescan waits for the pool in use or for one that was shut down under  *)
(* it; no other is open.                                                   *)
PoolOK ==
    /\ NoWorkerLeak
    /\ Waiting => loop.pool # None /\ pool \in {None, loop.pool} /\ loop.i # 0
                  /\ warm.pc # "ready"

Latched == disabled => fails >= MaxFails

(* Each counted failure is a fault of its own, but for the one that the    *)
(* warm-up may report a second time.                                       *)
FailsOK ==
    /\ fails + One(Unreported) =< faults + One(warm.pc = "done")
    /\ up => Latched

IInv == TypeOK /\ PoolOK /\ FailsOK

(* Sequences of a set, and their heads and tails.                          *)
LEMMA HeadTail ==
  ASSUME NEW S, NEW s \in Seq(S), s # <<>>
  PROVE  Head(s) \in S /\ Tail(s) \in Seq(S) /\ Len(Tail(s)) =< Len(s)
  OBVIOUS

(* A frame offered to a bounded queue.                                     *)
LEMMA OfferedType ==
  ASSUME TypeOK, NEW f \in [tf : TFSet, at : Nat]
  PROVE  Offered(f) \in Seq([tf : TFSet, at : Nat]) /\ Len(Offered(f)) =< QueueMax
<1> DEFINE F == [tf : TFSet, at : Nat]
<1>1. QueueMax \in Nat /\ queue \in Seq(F) /\ Len(queue) =< QueueMax /\ f \in F
  BY ObRefreshAssumption DEF TypeOK
<1> HIDE DEF F
<1>2. Append(queue, f) \in Seq(F) /\ Len(Append(queue, f)) = Len(queue) + 1
  BY <1>1
<1>3. Len(queue) \in Nat
  BY <1>1
<1>4. Offered(f) \in Seq(F) /\ Len(Offered(f)) =< QueueMax
  BY <1>1, <1>2, <1>3 DEF Offered, Room
<1>5. QED BY <1>4 DEF F

(* Initially no pool exists.                                               *)
LEMMA InitIInv == Init => IInv
<1> SUFFICES ASSUME Init PROVE IInv
  OBVIOUS
<1>0. /\ TFs \in Seq(TFSet) /\ TFs # <<>> /\ None \notin TFSet \cup Nat
      /\ {MaxFails, QueueMax} \subseteq Nat \ {0} /\ {MaxClosed, MaxSwitches, MaxFaults} \subseteq Nat
  BY ObRefreshAssumption
<1>1. TFs[1] \in TFSet /\ Len(TFs) \in Nat
  BY <1>0
<1>2. TypeOK
  <2>1. control \in Seq(TFSet) /\ queue \in Seq([tf : TFSet, at : Nat]) /\ Len(queue) =< QueueMax
    BY <1>0, <1>1 DEF Init
  <2>2. loop \in [pc : {"sleep", "wait", "yield"}, i : 0..Len(TFs), at : Nat,
                  pool : {None} \cup 1..created]
    BY <1>1 DEF Init, Asleep
  <2>3. view \in [tf : TFSet, at : {None} \cup Nat]
    BY <1>1 DEF Init
  <2>4. closed \in [TFSet -> Nat] /\ lastClosed \in [TFSet -> {None} \cup Nat]
    BY DEF Init
  <2>5. /\ up \in BOOLEAN /\ disabled \in BOOLEAN /\ openPools \cup broken \subseteq 1..created
        /\ starting \subseteq TFSet /\ lost \subseteq TFSet /\ sub \in {None} \cup TFSet
        /\ pool \in {None} \cup 1..created
        /\ warm \in [pc : {"ready", "wait", "done"}, pool : {None} \cup 1..created]
    BY DEF Init
  <2>6. created \in Nat /\ fails \in Nat /\ switches \in 0..MaxSwitches /\ faults \in 0..MaxFaults
    BY <1>0 DEF Init
  <2>7. QED BY <2>1, <2>2, <2>3, <2>4, <2>5, <2>6 DEF TypeOK
<1>3. PoolOK
  BY DEF Init, PoolOK, NoWorkerLeak, Waiting, Asleep
<1>4. FailsOK
  BY DEF Init, FailsOK, Latched, Unreported, Waiting, Asleep, One
<1>5. QED BY <1>2, <1>3, <1>4 DEF IInv

-----------------------------------------------------------------------------
(* The part of the invariant that speaks of the pool.                      *)

PoolTypes ==
    /\ disabled \in BOOLEAN
    /\ pool \in {None} \cup 1..created /\ created \in Nat /\ fails \in Nat
    /\ openPools \cup broken \subseteq 1..created

(* A report of a failure: the pool in use is shut down.                    *)
LEMMA NoteFailPool ==
  ASSUME PoolTypes, NoWorkerLeak, NoteFail
  PROVE  /\ PoolTypes' /\ NoWorkerLeak' /\ pool' = None
         /\ fails' = fails + 1 /\ broken' = broken /\ created' = created
         /\ Latched => Latched'
<1>1. pool' = None /\ openPools' = {} /\ fails' = fails + 1 /\ UNCHANGED <<broken, created>>
      /\ fails \in Nat /\ created \in Nat /\ broken \subseteq 1..created
  BY DEF NoteFail, NoWorkerLeak, PoolTypes
<1>2. disabled' \in BOOLEAN /\ (disabled' => disabled \/ fails' >= MaxFails)
  BY DEF NoteFail, PoolTypes
<1>a. fails >= MaxFails => fails' >= MaxFails
  BY <1>1, ObRefreshAssumption
<1>b. Latched => Latched'
  BY <1>2, <1>a DEF Latched
<1>3. PoolTypes'
  BY <1>1, <1>2 DEF PoolTypes
<1>4. QED BY <1>1, <1>b, <1>3 DEF NoWorkerLeak

(* The pool handed to a caller: the one in use, a new one, or none.        *)
LEMMA EnsurePoolPool ==
  ASSUME PoolTypes, NoWorkerLeak, faults \in 0..MaxFaults, NEW p, EnsurePool(p)
  PROVE  /\ PoolTypes' /\ NoWorkerLeak' /\ faults' \in 0..MaxFaults
         /\ (p # None => p = pool' /\ p \in 1..created')
         /\ created =< created' /\ broken' = broken
         /\ (pool' = pool \/ pool' = None \/ pool' \notin broken)
         /\ fails' - fails = faults' - faults
         /\ Latched => Latched'
<1>0. None \notin Nat /\ MaxFaults \in Nat
  BY ObRefreshAssumption
<1>1. CASE disabled /\ p = None /\ UNCHANGED <<poolVars, faults>>
  BY <1>1 DEF poolVars, PoolTypes, NoWorkerLeak, Latched
<1>2. CASE ~disabled /\ pool # None /\ p = pool /\ UNCHANGED <<poolVars, faults>>
  BY <1>2 DEF poolVars, PoolTypes, NoWorkerLeak, Latched
<1>3. CASE ~disabled /\ pool = None /\ PoolCreated /\ p = created + 1 /\ UNCHANGED faults
  <2>1. created + 1 \notin broken /\ created + 1 \in 1..created' /\ created' = created + 1
        /\ created + 1 # None /\ created \in Nat
    BY <1>0, <1>3 DEF PoolCreated, PoolTypes
  <2>2. PoolTypes'
    BY <1>3, <2>1 DEF PoolCreated, PoolTypes
  <2>3. NoWorkerLeak'
    BY <1>3, <2>1 DEF PoolCreated, NoWorkerLeak
  <2>4. QED BY <1>3, <2>1, <2>2, <2>3 DEF PoolCreated, PoolTypes, Latched
<1>4. CASE ~disabled /\ pool = None /\ p = None /\ Fault /\ NoteFail
  <2>1. faults' = faults + 1 /\ faults' \in 0..MaxFaults
    BY <1>0, <1>4 DEF Fault
  <2>2. QED BY <1>4, <2>1, NoteFailPool DEF PoolTypes
<1>5. QED BY <1>1, <1>2, <1>3, <1>4 DEF EnsurePool

-----------------------------------------------------------------------------
(* The other parts of the types.                                           *)

Frame == [tf : TFSet, at : Nat]

TaskTypes ==
    /\ loop \in [pc : {"sleep", "wait", "yield"}, i : 0..Len(TFs), at : Nat,
                 pool : {None} \cup 1..created]
    /\ warm \in [pc : {"ready", "wait", "done"}, pool : {None} \cup 1..created]

ClientTypes ==
    /\ sub \in {None} \cup TFSet /\ starting \subseteq TFSet /\ lost \subseteq TFSet
    /\ control \in Seq(TFSet)
    /\ queue \in Seq(Frame) /\ Len(queue) =< QueueMax
    /\ view \in [tf : TFSet, at : {None} \cup Nat]

CountTypes ==
    /\ up \in BOOLEAN /\ closed \in [TFSet -> Nat]
    /\ lastClosed \in [TFSet -> {None} \cup Nat]
    /\ switches \in 0..MaxSwitches /\ faults \in 0..MaxFaults

(* The type invariant is its four parts.                                   *)
LEMMA TypeParts ==
  /\ TypeOK <=> PoolTypes /\ TaskTypes /\ ClientTypes /\ CountTypes
  /\ TypeOK' <=> PoolTypes' /\ TaskTypes' /\ ClientTypes' /\ CountTypes'
<1>1. TypeOK <=> PoolTypes /\ TaskTypes /\ ClientTypes /\ CountTypes
  BY Zenon DEF TypeOK, PoolTypes, TaskTypes, ClientTypes, CountTypes, Frame
<1>2. TypeOK' <=> PoolTypes' /\ TaskTypes' /\ ClientTypes' /\ CountTypes'
  BY Zenon DEF TypeOK, PoolTypes, TaskTypes, ClientTypes, CountTypes, Frame
<1>3. QED BY <1>1, <1>2

(* What concerns only the window and its queue leaves the pool alone.      *)
LEMMA ClientStep ==
  ASSUME IInv, UNCHANGED <<up, poolVars, loop, warm, faults>>, ClientTypes', CountTypes'
  PROVE  IInv'
<1>1. PoolTypes /\ TaskTypes /\ PoolOK /\ FailsOK
  BY TypeParts DEF IInv
<1>2. PoolTypes' /\ TaskTypes'
  BY <1>1 DEF PoolTypes, TaskTypes, poolVars
<1>3. PoolOK'
  BY <1>1 DEF PoolOK, NoWorkerLeak, Waiting, poolVars
<1>4. FailsOK'
  BY <1>1 DEF FailsOK, Latched, Unreported, Waiting, One, poolVars
<1>5. QED BY <1>2, <1>3, <1>4, TypeParts DEF IInv

(* A matrix offered to the window keeps the types of its side.             *)
LEMMA BroadcastType ==
  ASSUME IInv, NEW tf \in TFSet, NEW at \in Nat,
         BroadcastMatrix(tf, at) \/ UNCHANGED <<queue, lost>>,
         UNCHANGED <<sub, control, starting, view>>
  PROVE  ClientTypes'
<1>1. ClientTypes /\ TypeOK
  BY TypeParts DEF IInv
<1>2. queue' \in Seq(Frame) /\ Len(queue') =< QueueMax
  <2>1. [tf |-> tf, at |-> at] \in [tf : TFSet, at : Nat]
    OBVIOUS
  <2>2. Offered([tf |-> tf, at |-> at]) \in Seq(Frame)
        /\ Len(Offered([tf |-> tf, at |-> at])) =< QueueMax
    BY <1>1, <2>1, OfferedType DEF Frame
  <2>3. queue' = queue \/ queue' = Offered([tf |-> tf, at |-> at])
    BY DEF BroadcastMatrix
  <2>4. QED BY <1>1, <2>2, <2>3 DEF ClientTypes
<1>3. lost' \subseteq TFSet
  BY <1>1 DEF BroadcastMatrix, LostBy, ClientTypes
<1>4. QED BY <1>1, <1>2, <1>3 DEF ClientTypes

(* A close, a switch of the window, its subscription and its deliveries.   *)
LEMMA WindowKeepsIInv ==
  ASSUME IInv,
         \/ HandleSetTf \/ Deliver
         \/ \E tf \in TFSet : CloseBucket(tf) \/ SwitchTf(tf) \/ SendCatchupStart(tf)
  PROVE  IInv'
<1>1. ClientTypes /\ CountTypes /\ TypeOK
  BY TypeParts DEF IInv
<1>2. CASE HandleSetTf
  <2>1. Head(control) \in TFSet /\ control' \in Seq(TFSet)
    BY <1>1, <1>2, HeadTail DEF ClientTypes, HandleSetTf
  <2>2. ClientTypes'
    BY <1>1, <1>2, <2>1 DEF ClientTypes, HandleSetTf
  <2>3. QED BY <1>1, <1>2, <2>2, ClientStep DEF HandleSetTf, CountTypes
<1>3. CASE Deliver
  <2>1. Head(queue) \in Frame /\ queue' \in Seq(Frame) /\ Len(queue') =< Len(queue)
    BY <1>1, <1>3, HeadTail DEF ClientTypes, Deliver
  <2>2. Len(queue) \in Nat /\ Len(queue') \in Nat /\ QueueMax \in Nat
    BY <1>1, <2>1, ObRefreshAssumption DEF ClientTypes
  <2>3. view' \in [tf : TFSet, at : {None} \cup Nat]
    BY <1>1, <1>3, <2>1 DEF ClientTypes, Deliver, Frame
  <2>4. ClientTypes'
    BY <1>1, <1>3, <2>1, <2>2, <2>3 DEF ClientTypes, Deliver
  <2>5. QED BY <1>1, <1>3, <2>4, ClientStep DEF Deliver, CountTypes
<1>4. ASSUME NEW tf \in TFSet, CloseBucket(tf) PROVE IInv'
  <2>1. closed' \in [TFSet -> Nat]
    BY <1>1, <1>4 DEF CloseBucket, CountTypes
  <2>2. QED BY <1>1, <1>4, <2>1, ClientStep DEF CloseBucket, CountTypes, ClientTypes, clientVars
<1>5. ASSUME NEW tf \in TFSet, SwitchTf(tf) PROVE IInv'
  <2>1. switches' \in 0..MaxSwitches
    BY <1>1, <1>5, ObRefreshAssumption DEF SwitchTf, CountTypes
  <2>2. view' \in [tf : TFSet, at : {None} \cup Nat] /\ control' \in Seq(TFSet)
    BY <1>1, <1>5 DEF SwitchTf, ClientTypes
  <2>3. QED BY <1>1, <1>5, <2>1, <2>2, ClientStep DEF SwitchTf, CountTypes, ClientTypes
<1>6. ASSUME NEW tf \in TFSet, SendCatchupStart(tf) PROVE IInv'
  <2>1. [tf |-> tf, at |-> closed[tf]] \in [tf : TFSet, at : Nat]
    BY <1>1 DEF CountTypes
  <2>2. queue' \in Seq(Frame) /\ Len(queue') =< QueueMax
    BY <1>1, <1>6, <2>1, OfferedType DEF SendCatchupStart, Frame
  <2>3. lost' \subseteq TFSet
    BY <1>1, <1>6 DEF SendCatchupStart, LostBy, ClientTypes
  <2>4. QED BY <1>1, <1>6, <2>2, <2>3, ClientStep DEF SendCatchupStart, CountTypes, ClientTypes
<1>7. QED BY <1>2, <1>3, <1>4, <1>5, <1>6

-----------------------------------------------------------------------------
(* The steps that touch the pool.                                          *)

(* The worker dies: a fault, and one more failure that may be reported.    *)
LEMMA WorkerDiesKeepsIInv == ASSUME IInv, WorkerDies PROVE IInv'
<1>0. None \notin Nat /\ MaxFaults \in Nat
  BY ObRefreshAssumption
<1>1. PoolTypes /\ TaskTypes /\ ClientTypes /\ CountTypes /\ PoolOK /\ FailsOK
  BY TypeParts DEF IInv
<1>2. /\ pool # None /\ pool \notin broken /\ broken' = broken \cup {pool}
      /\ faults < MaxFaults /\ faults' = faults + 1
      /\ UNCHANGED <<up, closed, lastClosed, pool, disabled, fails, openPools, created,
                     loop, warm, sub, control, starting, queue, view, switches, lost>>
  BY DEF WorkerDies, Fault, clientVars
<1>3. PoolTypes' /\ TaskTypes'
  BY <1>1, <1>2 DEF PoolTypes, TaskTypes
<1>4. ClientTypes'
  BY <1>1, <1>2 DEF ClientTypes
<1>5. CountTypes'
  BY <1>0, <1>1, <1>2 DEF CountTypes
<1>6. PoolOK'
  BY <1>1, <1>2 DEF PoolOK, NoWorkerLeak, Waiting
<1>7. ~Unreported
  <2>1. Waiting => loop.pool = pool
    BY <1>1, <1>2 DEF PoolOK
  <2>2. QED BY <1>2, <2>1 DEF Unreported
<1>8. One(Unreported) = 0 /\ One(Unreported') =< 1 /\ One(Unreported') \in Nat
      /\ One(warm.pc = "done") \in Nat
  BY <1>7 DEF One
<1>9. One(Unreported)' = One(Unreported') /\ One(warm.pc = "done")' = One(warm.pc = "done")
  BY <1>2 DEF One
<1>10. FailsOK'
  BY <1>1, <1>2, <1>8, <1>9 DEF FailsOK, Latched, PoolTypes, CountTypes
<1>11. QED BY <1>3, <1>4, <1>5, <1>6, <1>10, TypeParts DEF IInv

(* The warm-up asks for the pool before anything else runs.                *)
LEMMA WarmStartKeepsIInv == ASSUME IInv, WarmStart PROVE IInv'
<1>0. None \notin Nat
  BY ObRefreshAssumption
<1>1. PoolTypes /\ TaskTypes /\ ClientTypes /\ CountTypes /\ PoolOK /\ FailsOK
  BY TypeParts DEF IInv
<1>2. PICK p \in {None, pool, created + 1} :
          /\ EnsurePool(p)
          /\ warm' = IF p = None THEN Warmed ELSE [pc |-> "wait", pool |-> p]
  BY DEF WarmStart
<1>3. /\ warm.pc = "ready"
      /\ UNCHANGED <<up, closed, lastClosed, loop, sub, control, starting, queue, view, switches, lost>>
  BY DEF WarmStart, clientVars
<1>4. /\ PoolTypes' /\ NoWorkerLeak' /\ faults' \in 0..MaxFaults
      /\ (p # None => p = pool' /\ p \in 1..created')
      /\ created =< created' /\ broken' = broken
      /\ (pool' = pool \/ pool' = None \/ pool' \notin broken)
      /\ fails' - fails = faults' - faults
      /\ Latched => Latched'
  BY <1>1, <1>2, EnsurePoolPool DEF PoolOK, CountTypes
<1>5. ~Waiting /\ ~Waiting'
  BY <1>1, <1>3 DEF PoolOK, Waiting
<1>6. TaskTypes'
  <2>1. warm' \in [pc : {"ready", "wait", "done"}, pool : {None} \cup 1..created']
    BY <1>2, <1>4 DEF Warmed
  <2>2. loop' \in [pc : {"sleep", "wait", "yield"}, i : 0..Len(TFs), at : Nat,
                   pool : {None} \cup 1..created']
    <3>1. 1..created \subseteq 1..created'
      BY <1>1, <1>4 DEF PoolTypes
    <3>2. QED BY <1>1, <1>3, <3>1 DEF TaskTypes
  <2>3. QED BY <2>1, <2>2 DEF TaskTypes
<1>7. ClientTypes' /\ CountTypes'
  BY <1>1, <1>3, <1>4 DEF ClientTypes, CountTypes
<1>8. PoolOK'
  BY <1>4, <1>5 DEF PoolOK
<1>9. Unreported' => Unreported
  BY <1>0, <1>1, <1>4, <1>5 DEF Unreported, PoolTypes
<1>10. /\ One(Unreported)' =< One(Unreported) /\ One(Unreported)' \in Nat /\ One(Unreported) \in Nat
       /\ One(warm.pc = "done") = 0 /\ One(warm.pc = "done")' \in Nat
  BY <1>3, <1>9 DEF One
<1>11. FailsOK'
  <2>1. fails' + One(Unreported)' =< faults' + One(warm.pc = "done")'
    BY <1>1, <1>4, <1>10 DEF FailsOK, PoolTypes, CountTypes
  <2>2. up' => Latched'
    BY <1>1, <1>3, <1>4 DEF FailsOK
  <2>3. QED BY <2>1, <2>2 DEF FailsOK
<1>12. QED BY <1>4, <1>6, <1>7, <1>8, <1>11, TypeParts DEF IInv

(* The warm-up reports its worker's death, whatever became of the pool.    *)
LEMMA WarmEndKeepsIInv == ASSUME IInv, WarmEnd PROVE IInv'
<1>0. None \notin Nat
  BY ObRefreshAssumption
<1>1. PoolTypes /\ TaskTypes /\ ClientTypes /\ CountTypes /\ PoolOK /\ FailsOK
  BY TypeParts DEF IInv
<1>2. /\ warm.pc = "wait" /\ warm' = Warmed /\ (NoteFail \/ UNCHANGED poolVars)
      /\ UNCHANGED <<up, closed, lastClosed, loop, sub, control, starting, queue, view, switches,
                     faults, lost>>
  BY DEF WarmEnd, clientVars
<1>3. /\ PoolTypes' /\ NoWorkerLeak' /\ pool' \in {None, pool} /\ broken' = broken
      /\ created' = created /\ fails' \in {fails, fails + 1}
      /\ Latched => Latched'
  <2>1. CASE NoteFail
    BY <1>1, <2>1, NoteFailPool DEF PoolOK
  <2>2. CASE UNCHANGED poolVars
    BY <1>1, <2>2 DEF poolVars, PoolOK, PoolTypes, NoWorkerLeak, Latched
  <2>3. QED BY <1>2, <2>1, <2>2
<1>4. TaskTypes' /\ ClientTypes' /\ CountTypes'
  BY <1>1, <1>2, <1>3 DEF TaskTypes, ClientTypes, CountTypes, Warmed
<1>5. PoolOK'
  BY <1>1, <1>2, <1>3 DEF PoolOK, Waiting, Warmed
<1>6. Unreported' => Unreported
  BY <1>0, <1>1, <1>2, <1>3 DEF Unreported, Waiting, PoolTypes
<1>7. /\ One(Unreported)' =< One(Unreported) /\ One(Unreported)' \in Nat /\ One(Unreported) \in Nat
      /\ One(warm.pc = "done") = 0 /\ One(warm.pc = "done")' = 1
  BY <1>2, <1>6 DEF One, Warmed
<1>8. fails' + One(Unreported)' =< faults' + One(warm.pc = "done")'
  BY <1>1, <1>2, <1>3, <1>7 DEF FailsOK, PoolTypes, CountTypes
<1>9. FailsOK'
  BY <1>1, <1>2, <1>3, <1>8 DEF FailsOK
<1>10. QED BY <1>3, <1>4, <1>5, <1>9, TypeParts DEF IInv

(* The recompute loop comes back from a rescan, with its result or with    *)
(* the failure of its worker.                                              *)
LEMMA ReturnKeepsIInv == ASSUME IInv, RescanReturns \/ RescanRaises PROVE IInv'
<1>0. None \notin Nat /\ TFs \in Seq(TFSet) /\ MaxFaults \in Nat
  BY ObRefreshAssumption
<1>1. PoolTypes /\ TaskTypes /\ ClientTypes /\ CountTypes /\ PoolOK /\ FailsOK
  BY TypeParts DEF IInv
<1>2. /\ Waiting /\ loop' = Yielded(loop.i) /\ faults' \in {faults, faults + 1}
      /\ UNCHANGED <<up, closed, lastClosed, warm, sub, control, starting, view, switches>>
      /\ faults' \in 0..MaxFaults
  BY <1>0, <1>1 DEF RescanReturns, RescanRaises, Fault, Waiting, clientVars, CountTypes
<1>3. /\ PoolTypes' /\ NoWorkerLeak' /\ pool' \in {None, pool} /\ broken' = broken
      /\ created' = created
      /\ Latched => Latched'
  <2>1. CASE NoteFail
    BY <1>1, <2>1, NoteFailPool DEF PoolOK
  <2>2. CASE UNCHANGED poolVars
    BY <1>1, <2>2 DEF poolVars, PoolOK, PoolTypes, NoWorkerLeak, Latched
  <2>3. QED BY <2>1, <2>2 DEF RescanReturns, RescanRaises
<1>4. ~Waiting'
  BY <1>2 DEF Waiting, Yielded
<1>5. TaskTypes' /\ CountTypes'
  <2>1. loop' \in [pc : {"sleep", "wait", "yield"}, i : 0..Len(TFs), at : Nat,
                   pool : {None} \cup 1..created']
    BY <1>1, <1>2 DEF TaskTypes, Yielded
  <2>2. TaskTypes'
    <3>1. warm \in [pc : {"ready", "wait", "done"}, pool : {None} \cup 1..created]
      BY <1>1 DEF TaskTypes
    <3>2. warm' = warm /\ created' = created
      BY <1>2, <1>3
    <3>3. QED BY <2>1, <3>1, <3>2 DEF TaskTypes
  <2>3. CountTypes'
    BY <1>1, <1>2 DEF CountTypes
  <2>4. QED BY <2>2, <2>3
<1>6. ClientTypes'
  <2>0. TFs[loop.i] \in TFSet /\ loop.at \in Nat
    BY <1>0, <1>1, <1>2 DEF TaskTypes, PoolOK
  <2>1. CASE RescanReturns
    BY <1>2, <2>0, <2>1, BroadcastType DEF RescanReturns
  <2>2. CASE RescanRaises
    BY <1>1, <2>0, <2>2 DEF ClientTypes, RescanRaises, clientVars
  <2>3. QED BY <2>1, <2>2
<1>7. PoolOK'
  BY <1>3, <1>4 DEF PoolOK
<1>8. fails' + One(Unreported)' =< faults' + One(warm.pc = "done")'
  <2>0. fails + One(Unreported) =< faults + One(warm.pc = "done")
        /\ fails \in Nat /\ faults \in Nat /\ One(warm.pc = "done") \in Nat
        /\ One(warm.pc = "done")' = One(warm.pc = "done")
    BY <1>1, <1>2 DEF FailsOK, PoolTypes, CountTypes, One
  <2>1. CASE RescanReturns /\ loop.pool \in broken
    <3>0. Unreported /\ ~Unreported'
      BY <1>0, <1>1, <1>2, <1>3, <1>4, <2>1, NoteFailPool
         DEF RescanReturns, Unreported, PoolOK, PoolTypes
    <3>1. fails' = fails + 1 /\ faults' = faults
      BY <1>1, <2>1, NoteFailPool DEF RescanReturns, PoolOK
    <3>2. One(Unreported) = 1 /\ One(Unreported)' = 0
      BY <3>0 DEF One
    <3>3. QED BY <2>0, <3>1, <3>2
  <2>2. CASE RescanReturns /\ loop.pool \notin broken
    <3>1. (Unreported' => Unreported) /\ fails' = fails /\ faults' = faults
      BY <1>3, <1>4, <2>2 DEF RescanReturns, Unreported, poolVars
    <3>2. One(Unreported)' =< One(Unreported) /\ One(Unreported) \in Nat /\ One(Unreported)' \in Nat
      BY <3>1 DEF One
    <3>3. QED BY <2>0, <3>1, <3>2
  <2>3. CASE RescanRaises
    <3>1. ~Unreported' /\ fails' = fails + 1 /\ faults' = faults + 1
      BY <1>0, <1>1, <1>3, <1>4, <2>3, NoteFailPool
         DEF RescanRaises, Fault, Unreported, PoolOK, PoolTypes
    <3>2. One(Unreported) \in Nat /\ One(Unreported)' = 0
      BY <3>1 DEF One
    <3>3. QED BY <2>0, <3>1, <3>2
  <2>4. QED BY <2>1, <2>2, <2>3
<1>9. FailsOK'
  <2>1. up' => Latched'
    <3>1. up' = up
      BY <1>2
    <3>2. up => Latched
      BY <1>1 DEF FailsOK
    <3>3. QED BY <1>3, <3>1, <3>2
  <2>2. QED BY <1>8, <2>1 DEF FailsOK
<1>10. QED BY <1>3, <1>5, <1>6, <1>7, <1>9, TypeParts DEF IInv

(* A failed creation is a failure and a fault more.                        *)
LEMMA CreationBalances ==
  ASSUME PoolTypes, PoolTypes', CountTypes, CountTypes', FailsOK, Unreported' => Unreported,
         fails' - fails = faults' - faults, warm' = warm
  PROVE  fails' + One(Unreported)' =< faults' + One(warm.pc = "done")'
<1>1. One(Unreported)' =< One(Unreported) /\ One(Unreported) \in Nat /\ One(Unreported)' \in Nat
  BY DEF One
<1>2. One(warm.pc = "done")' = One(warm.pc = "done") /\ One(warm.pc = "done") \in Nat
  BY DEF One
<1>3. fails \in Nat /\ fails' \in Nat /\ faults \in Nat /\ faults' \in Nat
  BY ObRefreshAssumption DEF PoolTypes, CountTypes
<1>4. fails + One(Unreported) =< faults + One(warm.pc = "done")
  BY DEF FailsOK
<1>5. QED BY <1>1, <1>2, <1>3, <1>4

(* The loop goes on to its next timeframe: to sleep, or into a rescan.     *)
LEMMA VisitKeepsIInv ==
  ASSUME IInv, ~Waiting, warm.pc # "ready", NEW i \in Nat \ {0}, VisitFrom(i),
         UNCHANGED <<up, closed, warm, sub, control, starting, view, switches>>
  PROVE  IInv'
<1>0. None \notin Nat /\ TFs \in Seq(TFSet) /\ Len(TFs) \in Nat
  BY ObRefreshAssumption
<1>1. PoolTypes /\ TaskTypes /\ ClientTypes /\ CountTypes /\ PoolOK /\ FailsOK
  BY TypeParts DEF IInv
<1>2. ASSUME loop' = Asleep, UNCHANGED <<lastClosed, poolVars, faults, queue, lost>>
      PROVE  IInv'
  <2>1. UNCHANGED <<pool, disabled, fails, openPools, broken, created>> /\ ~Waiting'
    BY <1>2 DEF poolVars, Waiting, Asleep
  <2>2. PoolTypes' /\ CountTypes' /\ ClientTypes'
    BY <1>1, <1>2, <2>1 DEF PoolTypes, CountTypes, ClientTypes
  <2>3. loop' \in [pc : {"sleep", "wait", "yield"}, i : 0..Len(TFs), at : Nat,
                   pool : {None} \cup 1..created']
    BY <1>0, <1>2 DEF Asleep
  <2>4. TaskTypes'
    BY <1>1, <2>1, <2>3 DEF TaskTypes
  <2>5. PoolOK'
    BY <1>1, <2>1 DEF PoolOK, NoWorkerLeak
  <2>6. FailsOK'
    <3>1. One(Unreported)' =< One(Unreported) /\ One(Unreported) \in Nat /\ One(Unreported)' \in Nat
          /\ One(warm.pc = "done")' = One(warm.pc = "done") /\ One(warm.pc = "done") \in Nat
      BY <2>1 DEF One, Unreported
    <3>2. fails' + One(Unreported)' =< faults' + One(warm.pc = "done")'
      BY <1>1, <1>2, <2>1, <3>1 DEF FailsOK, PoolTypes, CountTypes
    <3>3. up' => Latched'
      BY <1>1, <2>1 DEF FailsOK, Latched
    <3>4. QED BY <3>2, <3>3 DEF FailsOK
  <2>7. QED BY <2>2, <2>4, <2>5, <2>6, TypeParts DEF IInv
<1>3. ASSUME NEW j \in i..Len(TFs), Rescan(j, TFs[j]) PROVE IInv'
  <2> DEFINE tf == TFs[j]
  <2>0. tf \in TFSet /\ closed[tf] \in Nat /\ j \in 1..Len(TFs)
    BY <1>0, <1>1 DEF CountTypes
  <2> HIDE DEF tf
  <2>1. PICK p \in {None, pool, created + 1} :
          /\ EnsurePool(p)
          /\ loop' = IF p = None THEN Yielded(j)
                     ELSE [pc |-> "wait", i |-> j, at |-> closed[tf], pool |-> p]
          /\ IF p = None THEN BroadcastMatrix(tf, closed[tf]) ELSE UNCHANGED <<queue, lost>>
    BY <1>3 DEF Rescan, tf
  <2>2. lastClosed' = [lastClosed EXCEPT ![tf] = closed[tf]]
    BY <1>3 DEF Rescan, tf
  <2>3. /\ PoolTypes' /\ NoWorkerLeak' /\ faults' \in 0..MaxFaults
        /\ (p # None => p = pool' /\ p \in 1..created')
        /\ created =< created' /\ broken' = broken
        /\ (pool' = pool \/ pool' = None \/ pool' \notin broken)
        /\ fails' - fails = faults' - faults
        /\ Latched => Latched'
    BY <1>1, <2>1, EnsurePoolPool DEF PoolOK, CountTypes
  <2>4. TaskTypes'
    <3>1. loop' \in [pc : {"sleep", "wait", "yield"}, i : 0..Len(TFs), at : Nat,
                     pool : {None} \cup 1..created']
      BY <1>0, <2>0, <2>1, <2>3 DEF Yielded
    <3>2. 1..created \subseteq 1..created'
      BY <1>1, <2>3 DEF PoolTypes
    <3>3. warm' \in [pc : {"ready", "wait", "done"}, pool : {None} \cup 1..created']
      BY <1>1, <3>2 DEF TaskTypes
    <3>4. QED BY <3>1, <3>3 DEF TaskTypes
  <2>5. CountTypes'
    BY <1>1, <2>0, <2>2, <2>3 DEF CountTypes
  <2>6. ClientTypes'
    BY <2>0, <2>1, BroadcastType
  <2>7. Waiting' => loop'.pool = pool' /\ loop'.pool # None /\ loop'.i # 0
    BY <2>0, <2>1, <2>3 DEF Waiting, Yielded
  <2>8. PoolOK'
    BY <2>3, <2>7 DEF PoolOK
  <2>9. FailsOK'
    <3>1. Unreported' => Unreported
      BY <1>0, <1>1, <2>3, <2>7 DEF Unreported, PoolTypes
    <3>3. fails' + One(Unreported)' =< faults' + One(warm.pc = "done")'
      BY <1>1, <2>3, <2>5, <3>1, CreationBalances
    <3>4. up' => Latched'
      BY <1>1, <2>3 DEF FailsOK
    <3>5. QED BY <3>3, <3>4 DEF FailsOK
  <2>10. QED BY <2>3, <2>4, <2>5, <2>6, <2>8, <2>9, TypeParts DEF IInv
<1>4. QED BY <1>2, <1>3 DEF VisitFrom

(* The shutdown closes the pool, and the latch keeps it closed.            *)
LEMMA ShutdownKeepsIInv == ASSUME IInv, up, Shutdown PROVE IInv'
<1>0. None \notin Nat
  BY ObRefreshAssumption
<1>1. PoolTypes /\ TaskTypes /\ ClientTypes /\ CountTypes /\ PoolOK /\ FailsOK
  BY TypeParts DEF IInv
<1>2. PoolTypes' /\ TaskTypes'
  BY <1>0, <1>1 DEF Shutdown, PoolTypes, TaskTypes, Asleep, Warmed
<1>3. ClientTypes' /\ CountTypes'
  <2>1. QueueMax \in Nat /\ <<>> \in Seq(TFSet) /\ <<>> \in Seq(Frame)
    BY ObRefreshAssumption, EmptySeq
  <2>2. ClientTypes'
    BY <1>1, <2>1 DEF Shutdown, ClientTypes
  <2>3. CountTypes'
    BY <1>1 DEF Shutdown, CountTypes
  <2>4. QED BY <2>2, <2>3
<1>4. ~Waiting' /\ pool' = None /\ ~up' /\ openPools' = {}
  BY <1>1 DEF Shutdown, Waiting, Asleep, PoolOK, NoWorkerLeak
<1>5. PoolOK'
  BY <1>4 DEF PoolOK, NoWorkerLeak
<1>6. fails' + One(Unreported)' =< faults' + One(warm.pc = "done")'
  <2>1. ~Unreported'
    BY <1>0, <1>1, <1>4 DEF Shutdown, Unreported, PoolTypes
  <2>2. One(Unreported)' = 0 /\ One(Unreported) \in Nat /\ One(warm.pc = "done") \in {0, 1}
        /\ One(warm.pc = "done")' = 1
    BY <2>1 DEF Shutdown, One, Warmed
  <2>3. fails' = fails /\ faults' = faults
    BY DEF Shutdown
  <2>4. QED BY <1>1, <2>2, <2>3 DEF FailsOK, PoolTypes, CountTypes
<1>7. FailsOK'
  BY <1>4, <1>6 DEF FailsOK
<1>8. QED BY <1>2, <1>3, <1>5, <1>7, TypeParts DEF IInv

(* Every step keeps the invariant.                                         *)
LEMMA NextIInv == IInv /\ [Next]_vars => IInv'
<1> SUFFICES ASSUME IInv, [Next]_vars PROVE IInv'
  OBVIOUS
<1>1. CASE UNCHANGED vars
  BY <1>1, ClientStep, TypeParts DEF IInv, vars, clientVars, ClientTypes, CountTypes
<1>2. CASE Booted /\ (Sweep \/ NextEngine)
  <2>1. CASE Sweep
    <3>1. /\ ~Waiting /\ warm.pc # "ready" /\ 1 \in Nat \ {0} /\ VisitFrom(1)
          /\ UNCHANGED <<up, closed, warm, sub, control, starting, view, switches>>
      BY <1>2, <2>1 DEF Sweep, Waiting, Booted
    <3>2. QED BY <3>1, VisitKeepsIInv
  <2>2. CASE NextEngine
    <3>1. /\ ~Waiting /\ warm.pc # "ready" /\ loop.i + 1 \in Nat \ {0} /\ VisitFrom(loop.i + 1)
          /\ UNCHANGED <<up, closed, warm, sub, control, starting, view, switches>>
      BY <1>2, <2>2, TypeParts DEF NextEngine, Waiting, Booted, IInv, TaskTypes
    <3>2. QED BY <3>1, VisitKeepsIInv
  <2>3. QED BY <1>2, <2>1, <2>2
<1>3. CASE up /\ (WorkerDies \/ WarmEnd \/ WarmStart \/ RescanReturns \/ RescanRaises \/ Shutdown)
  BY <1>3, WorkerDiesKeepsIInv, WarmEndKeepsIInv, WarmStartKeepsIInv, ReturnKeepsIInv, ShutdownKeepsIInv
<1>4. CASE \/ HandleSetTf \/ Deliver
           \/ \E tf \in TFSet : CloseBucket(tf) \/ SwitchTf(tf) \/ SendCatchupStart(tf)
  BY <1>4, WindowKeepsIInv
<1>5. QED BY <1>1, <1>2, <1>3, <1>4 DEF Next

(* The invariant implies the run's property, when the latch needs at least *)
(* three failures.                                                         *)
LEMMA IInvAccounts == ASSUME MaxFails >= 3 PROVE IInv => PoolIsAccounted
<1> SUFFICES ASSUME IInv PROVE LatchNeedsTwoFaults
  BY DEF IInv, PoolOK, PoolIsAccounted
<1>1. PoolTypes /\ CountTypes /\ FailsOK
  BY TypeParts DEF IInv
<1>2. fails \in Nat /\ faults \in Nat /\ MaxFails \in Nat /\ fails =< faults + 1
  <2>1. One(Unreported) \in Nat /\ One(warm.pc = "done") \in {0, 1}
    BY DEF One
  <2>2. QED BY <1>1, <2>1, ObRefreshAssumption DEF FailsOK, PoolTypes, CountTypes
<1>3. SUFFICES ASSUME up, disabled PROVE fails >= MaxFails /\ faults >= 2
  BY DEF LatchNeedsTwoFaults
<1>4. fails >= MaxFails
  BY <1>1, <1>3 DEF FailsOK, Latched
<1>5. QED BY <1>2, <1>4

(* For any timeframes, queue and number of faults: of all the pools ever   *)
(* created only the one in use is open, and three failures (the code's     *)
(* limit) or more are never counted for a single fault, although the       *)
(* warm-up and a rescan report the death of one worker each.               *)
THEOREM PoolHolds == ASSUME MaxFails >= 3 PROVE Spec => []PoolIsAccounted
<1>1. QED BY InitIInv, NextIInv, IInvAccounts, PTL DEF Spec
-----------------------------------------------------------------------------
(* An outdated matrix is never the last word: what the window's timeframe  *)
(* still has to come.                                                      *)

(* A matrix of timeframe tf computed from all its closed buckets comes     *)
(* after position k of the queue, or one was lost.                         *)
Coming(tf, k) ==
    \/ tf \in starting \cup lost \/ tf \in ToSet(control)
    \/ lastClosed[tf] # closed[tf]
    \/ loop.pc = "wait" /\ TFs[loop.i] = tf /\ loop.at = closed[tf]
    \/ \E j \in 1..Len(queue) : j > k /\ queue[j] = [tf |-> tf, at |-> closed[tf]]

(* No matrix is of buckets that have not closed, and the rescan at work is *)
(* the last one begun of its timeframe.                                    *)
NothingAhead ==
    /\ \A tf \in TFSet : lastClosed[tf] # None => lastClosed[tf] =< closed[tf]
    /\ loop.pc = "wait" => lastClosed[TFs[loop.i]] = loop.at
    /\ \A k \in 1..Len(queue) : queue[k].at =< closed[queue[k].tf]
    /\ view.at # None => view.at =< closed[view.tf]

(* Behind an outdated matrix of the served timeframe a newer one comes.    *)
StaleIsFollowed ==
    \A k \in 1..Len(queue) :
        queue[k].tf = sub /\ queue[k].at # closed[sub] => Coming(sub, k)

FreshIInv == NothingAhead /\ StaleIsFollowed

LEMMA FreshInit == Init => FreshIInv
<1> SUFFICES ASSUME Init PROVE FreshIInv
  OBVIOUS
<1>1. \A tf \in TFSet : lastClosed[tf] = None
  BY DEF Init
<1>2. loop.pc # "wait" /\ queue = <<>> /\ view.at = None
  BY DEF Init, Asleep
<1>3. NothingAhead
  BY <1>1, <1>2 DEF NothingAhead
<1>4. StaleIsFollowed
  BY <1>2 DEF StaleIsFollowed
<1>5. QED BY <1>3, <1>4 DEF FreshIInv

(* The elements of a queue to which a frame was offered.                   *)
LEMMA OfferedParts ==
  ASSUME TypeOK, NEW f \in Frame
  PROVE  /\ Len(queue) \in Nat /\ Len(Offered(f)) \in Nat /\ Len(queue) =< Len(Offered(f))
         /\ \A k \in 1..Len(queue) : k \in 1..Len(Offered(f)) /\ Offered(f)[k] = queue[k]
         /\ \A k \in 1..Len(Offered(f)) :
                k \in 1..Len(queue) \/ (k = Len(Offered(f)) /\ Offered(f)[k] = f)
         /\ Room => Len(Offered(f)) \in 1..Len(Offered(f)) /\ Offered(f)[Len(Offered(f))] = f
<1>1. queue \in Seq(Frame)
  BY DEF TypeOK, Frame
<1>2. CASE Room
  <2>1. Offered(f) = Append(queue, f)
    BY <1>2 DEF Offered
  <2>2. Len(queue) \in Nat /\ Len(Append(queue, f)) = Len(queue) + 1
        /\ (\A k \in 1..Len(queue) : Append(queue, f)[k] = queue[k])
        /\ Append(queue, f)[Len(queue) + 1] = f
    BY <1>1
  <2>3. QED BY <2>1, <2>2
<1>3. CASE ~Room
  <2>1. Offered(f) = queue
    BY <1>3 DEF Offered
  <2>2. QED BY <1>1, <1>3, <2>1
<1>4. QED BY <1>2, <1>3

(* A matrix offered is one of buckets that have closed.                    *)
LEMMA OfferKeepsNothingAhead ==
  ASSUME TypeOK, NothingAhead, NEW f \in Frame, f.at =< closed[f.tf],
         queue' = Offered(f), UNCHANGED <<closed, view>>,
         \A tf \in TFSet : lastClosed'[tf] # None => lastClosed'[tf] =< closed[tf],
         loop'.pc # "wait"
  PROVE  NothingAhead'
<1>1. \A k \in 1..Len(queue') : queue'[k].at =< closed'[queue'[k].tf]
  BY OfferedParts DEF NothingAhead
<1>2. QED BY <1>1 DEF NothingAhead

(* A matrix for the served timeframe is the newest, or the timeframe is    *)
(* still due: either way what is outdated in the queue is followed.        *)
LEMMA OfferToTheServed ==
  ASSUME TypeOK, NEW f \in Frame, f.tf = sub, queue' = Offered(f),
         lost' = (lost \ {f.tf}) \cup LostBy(f), UNCHANGED <<closed, sub>>,
         f.at = closed[sub] \/ lastClosed'[sub] # closed[sub]
  PROVE  StaleIsFollowed'
<1> SUFFICES ASSUME NEW k \in 1..Len(queue'), queue'[k].tf = sub, queue'[k].at # closed[sub]
             PROVE  Coming(sub, k)'
  BY DEF StaleIsFollowed
<1>1. CASE ~Room
  BY <1>1 DEF LostBy, Coming
<1>2. CASE f.at # closed[sub]
  BY <1>2 DEF Coming
<1>3. CASE Room /\ f.at = closed[sub]
  <2> DEFINE n == Len(queue')
  <2>1. n \in 1..n /\ queue'[n] = f /\ n \in Nat
    BY <1>3, OfferedParts
  <2>2. f = [tf |-> sub, at |-> closed'[sub]]
    BY <1>3 DEF Frame
  <2>3. k # n
    BY <1>3, <2>1
  <2>4. n > k
    BY <2>1, <2>3
  <2>5. QED BY <2>1, <2>2, <2>4 DEF Coming
<1>4. QED BY <1>1, <1>2, <1>3

(* What follows in the queue or is due stays so when nothing of the served *)
(* timeframe is taken away.                                                *)
LEMMA ComingStays ==
  ASSUME NEW k, Coming(sub, k), sub \in TFSet,
         sub \in starting => sub \in starting', sub \in lost => sub \in lost',
         sub \in ToSet(control) => sub \in ToSet(control'),
         closed'[sub] = closed[sub], lastClosed'[sub] = lastClosed[sub],
         loop.pc = "wait" /\ TFs[loop.i] = sub => loop' = loop,
         \A j \in 1..Len(queue) : j \in 1..Len(queue') /\ queue'[j] = queue[j],
         sub' = sub
  PROVE  Coming(sub, k)'
BY DEF Coming, ToSet

(* The window and the engines, in turn.                                    *)
LEMMA WindowKeepsFresh ==
  ASSUME IInv, FreshIInv,
         \/ HandleSetTf \/ Deliver
         \/ \E tf \in TFSet : CloseBucket(tf) \/ SwitchTf(tf) \/ SendCatchupStart(tf)
  PROVE  FreshIInv'
<1>1. /\ TypeOK /\ queue \in Seq(Frame) /\ closed \in [TFSet -> Nat]
      /\ lastClosed \in [TFSet -> {None} \cup Nat] /\ None \notin TFSet \cup Nat
      /\ sub \in {None} \cup TFSet /\ view \in [tf : TFSet, at : {None} \cup Nat]
      /\ NothingAhead /\ StaleIsFollowed /\ control \in Seq(TFSet) /\ Len(queue) \in Nat
  <2>1. TypeOK /\ NothingAhead /\ StaleIsFollowed /\ None \notin TFSet \cup Nat
    BY ObRefreshAssumption DEF IInv, FreshIInv
  <2>2. queue \in Seq(Frame) /\ control \in Seq(TFSet)
    BY <2>1 DEF TypeOK, Frame
  <2>3. Len(queue) \in Nat
    BY <2>2
  <2>4. /\ closed \in [TFSet -> Nat] /\ lastClosed \in [TFSet -> {None} \cup Nat]
        /\ sub \in {None} \cup TFSet /\ view \in [tf : TFSet, at : {None} \cup Nat]
    BY <2>1 DEF TypeOK
  <2>5. QED BY <2>1, <2>2, <2>3, <2>4
<1>2. \A k \in 1..Len(queue) : queue[k] \in Frame /\ queue[k].tf \in TFSet /\ queue[k].at \in Nat
  <2>1. \A k \in 1..Len(queue) : queue[k] \in Frame
    BY <1>1
  <2>2. \A f \in Frame : f.tf \in TFSet /\ f.at \in Nat
    BY DEF Frame
  <2>3. QED BY <2>1, <2>2
<1>3. CASE HandleSetTf
  <2>1. NothingAhead'
    BY <1>1, <1>3 DEF HandleSetTf, NothingAhead
  <2>2. \A k : Coming(sub, k)'
    BY <1>3 DEF HandleSetTf, Coming
  <2>3. QED BY <2>1, <2>2 DEF FreshIInv, StaleIsFollowed
<1>4. CASE Deliver
  <2>1. queue # <<>> /\ queue' = Tail(queue)
        /\ view' = (IF Applies(Head(queue)) THEN [view EXCEPT !.at = Head(queue).at] ELSE view)
        /\ UNCHANGED <<closed, lastClosed, loop, sub, control, starting, lost>>
    BY <1>4 DEF Deliver
  <2>2. /\ Len(queue') \in Nat /\ Len(queue') = Len(queue) - 1 /\ 1 \in 1..Len(queue)
        /\ Head(queue) = queue[1]
        /\ \A k \in 1..Len(queue') : k + 1 \in 1..Len(queue) /\ queue'[k] = queue[k + 1]
    BY <1>1, <2>1
  <2>3. view'.at # None => view'.at =< closed'[view'.tf]
    <3>1. CASE Applies(Head(queue))
      <4>1. view'.tf = view.tf /\ view'.at = queue[1].at /\ queue[1].tf = view.tf
        BY <1>1, <2>1, <2>2, <3>1 DEF Applies
      <4>2. QED BY <1>1, <2>1, <2>2, <4>1 DEF NothingAhead
    <3>2. CASE ~Applies(Head(queue))
      BY <1>1, <2>1, <3>2 DEF NothingAhead
    <3>3. QED BY <3>1, <3>2
  <2>4. NothingAhead'
    <3>1. \A k \in 1..Len(queue') : queue'[k].at =< closed'[queue'[k].tf]
      BY <1>1, <2>1, <2>2 DEF NothingAhead
    <3>2. QED BY <1>1, <2>1, <2>3, <3>1 DEF NothingAhead
  <2>5. StaleIsFollowed'
    <3> SUFFICES ASSUME NEW k \in 1..Len(queue'), queue'[k].tf = sub, queue'[k].at # closed[sub]
                 PROVE  Coming(sub, k)'
      BY <2>1 DEF StaleIsFollowed
    <3>1. Coming(sub, k + 1)
      BY <1>1, <2>2 DEF StaleIsFollowed
    <3>2. ASSUME NEW j \in 1..Len(queue), j > k + 1, queue[j] = [tf |-> sub, at |-> closed[sub]]
          PROVE  Coming(sub, k)'
      <4>1. j - 1 \in 1..Len(queue') /\ j - 1 > k /\ (j - 1) + 1 = j
        BY <2>2, <3>2
      <4>2. queue'[j - 1] = queue[j]
        BY <2>2, <4>1
      <4>3. QED BY <2>1, <3>2, <4>1, <4>2 DEF Coming
    <3>3. QED BY <2>1, <3>1, <3>2 DEF Coming
  <2>6. QED BY <2>4, <2>5 DEF FreshIInv
<1>5. ASSUME NEW tf \in TFSet, CloseBucket(tf) PROVE FreshIInv'
  <2>1. closed' = [closed EXCEPT ![tf] = @ + 1]
        /\ UNCHANGED <<lastClosed, loop, queue, view, sub, control, starting, lost>>
    BY <1>5 DEF CloseBucket, clientVars
  <2>2. \A t \in TFSet : closed[t] \in Nat /\ closed'[t] \in Nat /\ closed[t] =< closed'[t]
    BY <1>1, <2>1
  <2>3. NothingAhead'
    <3>1. \A t \in TFSet : lastClosed'[t] # None => lastClosed'[t] =< closed'[t]
      <4> SUFFICES ASSUME NEW t \in TFSet, lastClosed[t] # None PROVE lastClosed[t] =< closed'[t]
        BY <2>1
      <4>1. lastClosed[t] \in Nat /\ lastClosed[t] =< closed[t]
        BY <1>1 DEF NothingAhead
      <4>2. QED BY <2>2, <4>1
    <3>2. \A k \in 1..Len(queue) : queue[k].at =< closed'[queue[k].tf]
      <4> SUFFICES ASSUME NEW k \in 1..Len(queue) PROVE queue[k].at =< closed'[queue[k].tf]
        OBVIOUS
      <4>1. queue[k].at =< closed[queue[k].tf]
        BY <1>1 DEF NothingAhead
      <4>2. QED BY <1>2, <2>2, <4>1
    <3>3. view.at # None => view.at =< closed'[view.tf]
      BY <1>1, <2>2 DEF NothingAhead
    <3>4. QED BY <1>1, <2>1, <3>1, <3>2, <3>3 DEF NothingAhead
  <2>4. StaleIsFollowed'
    <3> SUFFICES ASSUME NEW k \in 1..Len(queue), queue[k].tf = sub, queue[k].at # closed'[sub]
                 PROVE  Coming(sub, k)'
      BY <2>1 DEF StaleIsFollowed
    <3>1. CASE sub = tf
      <4>1. lastClosed[tf] # closed[tf] + 1
        <5>1. lastClosed[tf] # None => lastClosed[tf] =< closed[tf] /\ lastClosed[tf] \in Nat
          BY <1>1 DEF NothingAhead
        <5>2. closed[tf] \in Nat /\ closed[tf] + 1 \in Nat /\ None # closed[tf] + 1
          BY <1>1, <2>2
        <5>3. QED BY <5>1, <5>2
      <4>2. QED BY <1>1, <2>1, <3>1, <4>1 DEF Coming
    <3>2. CASE sub # tf
      <4>1. sub \in TFSet /\ closed'[sub] = closed[sub]
        BY <1>1, <1>2, <2>1, <3>2
      <4>2. Coming(sub, k)
        BY <1>1, <4>1 DEF StaleIsFollowed
      <4>3. QED BY <2>1, <4>1, <4>2, ComingStays
    <3>3. QED BY <3>1, <3>2
  <2>5. QED BY <2>3, <2>4 DEF FreshIInv
<1>6. ASSUME NEW tf \in TFSet, SwitchTf(tf) PROVE FreshIInv'
  <2>1. /\ view' = [tf |-> tf, at |-> None] /\ control' = Append(control, tf)
        /\ UNCHANGED <<closed, lastClosed, loop, queue, sub, starting, lost>>
    BY <1>6 DEF SwitchTf
  <2>2. NothingAhead'
    BY <1>1, <2>1 DEF NothingAhead
  <2>3. \A t : t \in ToSet(control) => t \in ToSet(control')
    <3>1. \A n \in DOMAIN control : n \in DOMAIN control' /\ control'[n] = control[n]
      BY <1>1, <2>1
    <3>2. QED BY <3>1 DEF ToSet
  <2>4. StaleIsFollowed'
    <3> SUFFICES ASSUME NEW k \in 1..Len(queue), queue[k].tf = sub, queue[k].at # closed[sub]
                 PROVE  Coming(sub, k)'
      BY <2>1 DEF StaleIsFollowed
    <3>1. Coming(sub, k) /\ sub \in TFSet
      BY <1>1, <1>2 DEF StaleIsFollowed
    <3>2. QED BY <2>1, <2>3, <3>1, ComingStays
  <2>5. QED BY <2>2, <2>4 DEF FreshIInv
<1>7. ASSUME NEW tf \in TFSet, SendCatchupStart(tf) PROVE FreshIInv'
  <2> DEFINE f == [tf |-> tf, at |-> closed[tf]]
  <2>1. /\ starting' = starting \ {tf} /\ queue' = Offered(f)
        /\ lost' = (lost \ {tf}) \cup LostBy(f)
        /\ UNCHANGED <<closed, lastClosed, loop, view, sub, control>>
    BY <1>7 DEF SendCatchupStart
  <2>2. f \in Frame /\ f.tf = tf /\ f.at = closed[tf] /\ closed[tf] =< closed[tf]
    BY <1>1 DEF Frame
  <2> HIDE DEF f
  <2>3. \A k \in 1..Len(queue') : queue'[k].at =< closed'[queue'[k].tf]
    <3> SUFFICES ASSUME NEW k \in 1..Len(queue') PROVE queue'[k].at =< closed[queue'[k].tf]
      BY <2>1
    <3>1. CASE k \in 1..Len(queue)
      BY <1>1, <2>1, <2>2, <3>1, OfferedParts DEF NothingAhead
    <3>2. CASE k \notin 1..Len(queue)
      <4>1. queue'[k] = f
        BY <1>1, <2>1, <2>2, <3>2, OfferedParts
      <4>2. QED BY <2>2, <4>1
    <3>3. QED BY <3>1, <3>2
  <2>4. NothingAhead'
    BY <1>1, <2>1, <2>3 DEF NothingAhead
  <2>5. StaleIsFollowed'
    <3>1. CASE sub = tf
      BY <1>1, <2>1, <2>2, <3>1, OfferToTheServed
    <3>2. CASE sub # tf
      <4> SUFFICES ASSUME NEW k \in 1..Len(queue'), queue'[k].tf = sub,
                          queue'[k].at # closed[sub]
                   PROVE  Coming(sub, k)'
        BY <2>1 DEF StaleIsFollowed
      <4>1. k \in 1..Len(queue) /\ queue'[k] = queue[k]
        BY <1>1, <2>1, <2>2, <3>2, OfferedParts
      <4>2. Coming(sub, k) /\ sub \in TFSet
        BY <1>1, <1>2, <4>1 DEF StaleIsFollowed
      <4>3. \A j \in 1..Len(queue) : j \in 1..Len(queue') /\ queue'[j] = queue[j]
        BY <1>1, <2>1, <2>2, OfferedParts
      <4>4. QED BY <2>1, <3>2, <4>2, <4>3, ComingStays
    <3>3. QED BY <3>1, <3>2
  <2>6. QED BY <2>4, <2>5 DEF FreshIInv
<1>8. QED BY <1>3, <1>4, <1>5, <1>6, <1>7

(* A sweep passes over what is not due, or begins a rescan of what is.     *)
LEMMA VisitKeepsFresh ==
  ASSUME IInv, FreshIInv, ~Waiting, NEW i \in Nat \ {0}, VisitFrom(i),
         UNCHANGED <<closed, sub, control, starting, view>>
  PROVE  FreshIInv'
<1>1. /\ TypeOK /\ queue \in Seq(Frame) /\ closed \in [TFSet -> Nat]
      /\ lastClosed \in [TFSet -> {None} \cup Nat] /\ None \notin TFSet \cup Nat
      /\ sub \in {None} \cup TFSet /\ TFs \in Seq(TFSet)
      /\ NothingAhead /\ StaleIsFollowed /\ loop.pc # "wait"
  BY ObRefreshAssumption DEF IInv, TypeOK, FreshIInv, Frame, Waiting
<1>2. CASE loop' = Asleep /\ UNCHANGED <<lastClosed, queue, lost>>
  <2>1. NothingAhead'
    BY <1>1, <1>2 DEF NothingAhead, Asleep
  <2>2. \A k : Coming(sub, k) => Coming(sub, k)'
    BY <1>1, <1>2 DEF Coming
  <2>3. QED BY <1>1, <1>2, <2>1, <2>2 DEF StaleIsFollowed, FreshIInv
<1>3. ASSUME NEW j \in i..Len(TFs), Due(TFs[j]), Rescan(j, TFs[j]) PROVE FreshIInv'
  <2> DEFINE tf == TFs[j]
  <2>1. j \in 1..Len(TFs) /\ tf \in TFSet /\ sub = tf /\ closed[tf] \in Nat
    BY <1>1, <1>3 DEF Due
  <2>2. /\ lastClosed' = [lastClosed EXCEPT ![tf] = closed[tf]]
        /\ \/ loop' = Yielded(j) /\ BroadcastMatrix(tf, closed[tf])
           \/ \E p : loop' = [pc |-> "wait", i |-> j, at |-> closed[tf], pool |-> p]
                     /\ UNCHANGED <<queue, lost>>
    BY <1>3 DEF Rescan
  <2> HIDE DEF tf
  <2>3. \A t \in TFSet : lastClosed'[t] # None => lastClosed'[t] =< closed[t]
    BY <1>1, <2>1, <2>2 DEF NothingAhead
  <2>4. CASE loop' = Yielded(j) /\ BroadcastMatrix(tf, closed[tf])
    <3> DEFINE f == [tf |-> tf, at |-> closed[tf]]
    <3>1. /\ f \in Frame /\ f.tf = tf /\ f.at = closed[tf] /\ f.at =< closed[f.tf]
          /\ queue' = Offered(f) /\ lost' = (lost \ {f.tf}) \cup LostBy(f)
      BY <2>1, <2>4 DEF BroadcastMatrix, Frame
    <3> HIDE DEF f
    <3>2. NothingAhead'
      BY <1>1, <2>3, <2>4, <3>1, OfferKeepsNothingAhead DEF Yielded
    <3>3. StaleIsFollowed'
      BY <1>1, <2>1, <3>1, OfferToTheServed
    <3>4. QED BY <3>2, <3>3 DEF FreshIInv
  <2>5. ASSUME NEW p, loop' = [pc |-> "wait", i |-> j, at |-> closed[tf], pool |-> p],
               UNCHANGED <<queue, lost>>
        PROVE  FreshIInv'
    <3>1. loop'.pc = "wait" /\ TFs[loop'.i] = tf /\ loop'.at = closed'[tf]
          /\ lastClosed'[tf] = closed[tf]
      BY <1>1, <2>1, <2>2, <2>5 DEF tf
    <3>2. NothingAhead'
      BY <1>1, <2>3, <2>5, <3>1 DEF NothingAhead
    <3>3. \A k : Coming(sub, k)'
      BY <2>1, <3>1 DEF Coming
    <3>4. QED BY <3>2, <3>3 DEF FreshIInv, StaleIsFollowed
  <2>6. QED BY <2>2, <2>4, <2>5
<1>4. QED BY <1>2, <1>3 DEF VisitFrom

(* A rescan that was overtaken leaves its timeframe due.                   *)
LEMMA ReturnKeepsFresh ==
  ASSUME IInv, FreshIInv, RescanReturns \/ RescanRaises PROVE FreshIInv'
<1> DEFINE tf == TFs[loop.i]
<1>1. /\ TypeOK /\ queue \in Seq(Frame) /\ closed \in [TFSet -> Nat]
      /\ lastClosed \in [TFSet -> {None} \cup Nat] /\ None \notin TFSet \cup Nat
      /\ sub \in {None} \cup TFSet /\ NothingAhead /\ StaleIsFollowed
      /\ Waiting /\ loop.pc = "wait" /\ loop.at \in Nat /\ tf \in TFSet
  <2>1. Waiting /\ TypeOK /\ PoolOK /\ TFs \in Seq(TFSet)
    BY ObRefreshAssumption DEF IInv, RescanReturns, RescanRaises, Waiting
  <2>2. loop.i \in 1..Len(TFs) /\ loop.at \in Nat
    <3>1. loop.i \in 0..Len(TFs) /\ loop.at \in Nat /\ loop.i # 0 /\ Len(TFs) \in Nat
      BY <2>1 DEF TypeOK, PoolOK
    <3>2. QED BY <3>1
  <2>3. queue \in Seq(Frame) /\ closed \in [TFSet -> Nat]
        /\ lastClosed \in [TFSet -> {None} \cup Nat] /\ sub \in {None} \cup TFSet
    BY <2>1 DEF TypeOK, Frame
  <2>4. tf \in TFSet
    BY <2>1, <2>2
  <2>5. QED BY <2>1, <2>2, <2>3, <2>4, ObRefreshAssumption DEF FreshIInv, Waiting
<1>2. /\ loop' = Yielded(loop.i)
      /\ UNCHANGED <<closed, lastClosed, sub, control, starting, view>>
      /\ \/ BroadcastMatrix(tf, loop.at)
         \/ queue' = queue /\ lost' = lost \cup {tf}
  BY DEF RescanReturns, RescanRaises, clientVars
<1>3. loop'.pc # "wait"
  BY <1>2 DEF Yielded
<1>4. lastClosed[tf] = loop.at /\ loop.at =< closed[tf] /\ loop.at # None
  BY <1>1 DEF NothingAhead
<1>5. \A t \in TFSet : lastClosed'[t] # None => lastClosed'[t] =< closed[t]
  BY <1>1, <1>2 DEF NothingAhead
<1> HIDE DEF tf
<1>6. CASE sub = tf /\ BroadcastMatrix(tf, loop.at)
  <2> DEFINE f == [tf |-> tf, at |-> loop.at]
  <2>1. /\ f \in Frame /\ f.tf = tf /\ f.at = loop.at /\ f.at =< closed[f.tf]
        /\ queue' = Offered(f) /\ lost' = (lost \ {f.tf}) \cup LostBy(f)
    BY <1>1, <1>4, <1>6 DEF BroadcastMatrix, Frame
  <2> HIDE DEF f
  <2>2. NothingAhead'
    BY <1>1, <1>2, <1>3, <1>5, <2>1, OfferKeepsNothingAhead
  <2>3. f.at = closed[sub] \/ lastClosed'[sub] # closed[sub]
    BY <1>2, <1>4, <1>6, <2>1
  <2>4. StaleIsFollowed'
    BY <1>1, <1>2, <1>6, <2>1, <2>3, OfferToTheServed
  <2>5. QED BY <2>2, <2>4 DEF FreshIInv
<1>7. CASE queue' = queue /\ ((sub # tf /\ lost' = lost) \/ lost' = lost \cup {tf})
  <2>1. NothingAhead'
    BY <1>1, <1>2, <1>3, <1>5, <1>7 DEF NothingAhead
  <2>2. \A k : Coming(sub, k) => Coming(sub, k)'
    BY <1>1, <1>2, <1>7 DEF Coming, tf
  <2>3. QED BY <1>1, <1>2, <1>7, <2>1, <2>2 DEF StaleIsFollowed, FreshIInv
<1>8. QED BY <1>2, <1>6, <1>7 DEF BroadcastMatrix

LEMMA FreshNext == ASSUME IInv, FreshIInv, [Next]_vars PROVE FreshIInv'
<1>1. CASE UNCHANGED <<closed, lastClosed, loop, queue, view, sub, control, starting, lost>>
  BY <1>1 DEF FreshIInv, NothingAhead, StaleIsFollowed, Coming
<1>2. CASE UNCHANGED vars
  BY <1>1, <1>2 DEF vars, clientVars
<1>3. CASE Booted /\ (Sweep \/ NextEngine)
  <2>1. CASE Sweep
    <3>1. ~Waiting /\ 1 \in Nat \ {0} /\ VisitFrom(1)
          /\ UNCHANGED <<closed, sub, control, starting, view>>
      BY <2>1 DEF Sweep, Waiting
    <3>2. QED BY <3>1, VisitKeepsFresh
  <2>2. CASE NextEngine
    <3>1. loop.i + 1 \in Nat \ {0}
      <4>1. loop.i \in 0..Len(TFs) /\ Len(TFs) \in Nat
        BY ObRefreshAssumption DEF IInv, TypeOK
      <4>2. QED BY <4>1
    <3>2. ~Waiting /\ VisitFrom(loop.i + 1)
          /\ UNCHANGED <<closed, sub, control, starting, view>>
      BY <2>2 DEF NextEngine, Waiting
    <3>3. QED BY <3>1, <3>2, VisitKeepsFresh
  <2>3. QED BY <1>3, <2>1, <2>2
<1>4. CASE RescanReturns \/ RescanRaises
  BY <1>4, ReturnKeepsFresh
<1>5. CASE \/ HandleSetTf \/ Deliver
           \/ \E tf \in TFSet : CloseBucket(tf) \/ SwitchTf(tf) \/ SendCatchupStart(tf)
  BY <1>5, WindowKeepsFresh
<1>6. CASE WarmStart \/ WarmEnd \/ WorkerDies
  BY <1>1, <1>6 DEF WarmStart, WarmEnd, WorkerDies, clientVars
<1>7. CASE Shutdown
  <2>1. /\ \A tf \in TFSet : lastClosed'[tf] = None
        /\ loop'.pc # "wait" /\ queue' = <<>> /\ UNCHANGED <<closed, view>>
    BY <1>7 DEF Shutdown, Asleep
  <2>2. NothingAhead'
    BY <2>1 DEF FreshIInv, NothingAhead
  <2>3. StaleIsFollowed'
    BY <2>1 DEF StaleIsFollowed
  <2>4. QED BY <2>2, <2>3 DEF FreshIInv
<1>8. QED BY <1>2, <1>3, <1>4, <1>5, <1>6, <1>7 DEF Next

(* The window may fall back to an older matrix of its timeframe (a rescan  *)
(* overtaken by the catch-up of a new subscription), but only while the    *)
(* newest is still to come, or was dropped.                                *)
THEOREM BackwardHolds == Spec => BackwardOnlyForAWhile
<1> DEFINE Step == (view'.tf = view.tf /\ view.at # None /\ view'.at # None /\ sub = view.tf)
                      => IF view'.at < view.at THEN FresherIsComing(view.tf)' ELSE TRUE
<1>1. ASSUME IInv, FreshIInv, [Next]_vars PROVE [Step]_vars
  <2> SUFFICES ASSUME view'.tf = view.tf, view.at # None, view'.at # None, sub = view.tf,
                      view'.at < view.at
               PROVE  FresherIsComing(view.tf)'
    OBVIOUS
  <2>1. /\ view \in [tf : TFSet, at : {None} \cup Nat] /\ queue \in Seq(Frame)
        /\ NothingAhead /\ StaleIsFollowed /\ view.at \in Nat /\ view.tf \in TFSet
        /\ closed[view.tf] \in Nat
    BY <1>1 DEF IInv, TypeOK, FreshIInv, Frame
  <2>2. view' # view
    BY <2>1
  <2>3. Deliver
    <3>1. ~ \E tf \in TFSet : SwitchTf(tf)
      BY <2>1 DEF SwitchTf
    <3>2. ~(Sweep \/ NextEngine \/ RescanReturns \/ RescanRaises \/ WarmStart \/ WarmEnd
            \/ WorkerDies \/ Shutdown \/ HandleSetTf)
      BY <2>2 DEF Sweep, NextEngine, RescanReturns, RescanRaises, WarmStart, WarmEnd,
                  WorkerDies, Shutdown, HandleSetTf, clientVars
    <3>3. ~ \E tf \in TFSet : CloseBucket(tf) \/ SendCatchupStart(tf)
      BY <2>2 DEF CloseBucket, SendCatchupStart, clientVars
    <3>4. ~(UNCHANGED vars)
      BY <2>2 DEF vars, clientVars
    <3>5. QED BY <1>1, <3>1, <3>2, <3>3, <3>4 DEF Next
  <2>4. /\ queue # <<>> /\ queue' = Tail(queue)
        /\ view' = (IF Applies(Head(queue)) THEN [view EXCEPT !.at = Head(queue).at] ELSE view)
        /\ UNCHANGED <<closed, lastClosed, loop, sub, control, starting, lost>>
    BY <2>3 DEF Deliver
  <2>5. 1 \in 1..Len(queue) /\ Head(queue) = queue[1] /\ queue[1] \in Frame /\ Len(queue) \in Nat
    BY <2>1, <2>4
  <2>6. queue[1].tf = sub /\ queue[1].at = view'.at /\ queue[1].at \in Nat
    BY <2>1, <2>2, <2>4, <2>5 DEF Applies, Frame
  <2>7. queue[1].at # closed[sub]
    BY <2>1, <2>6 DEF NothingAhead
  <2>8. Coming(sub, 1)
    BY <2>1, <2>5, <2>6, <2>7 DEF StaleIsFollowed
  <2>9. ASSUME NEW j \in 1..Len(queue), j > 1, queue[j] = [tf |-> sub, at |-> closed[sub]]
        PROVE  \E k \in 1..Len(queue') : queue'[k] = [tf |-> sub, at |-> closed[sub]]
    <3>1. j - 1 \in 1..Len(queue') /\ queue'[j - 1] = queue[j]
      BY <2>1, <2>4, <2>5, <2>9
    <3>2. QED BY <2>9, <3>1
  <2>10. QED BY <2>4, <2>8, <2>9 DEF Coming, FresherIsComing
<1>2. Init => FreshIInv
  BY FreshInit
<1>3. IInv /\ FreshIInv /\ [Next]_vars => FreshIInv'
  BY FreshNext
<1>4. QED BY <1>1, <1>2, <1>3, InitIInv, NextIInv, PTL DEF Spec, BackwardOnlyForAWhile

-----------------------------------------------------------------------------
(* The OI attributor. *)

(* Dividing a natural number by a positive one gives a natural number.     *)
LEMMA DivNat == ASSUME NEW a \in Nat, NEW b \in Nat \ {0} PROVE a \div b \in Nat
  OBVIOUS

(* A product of natural numbers is one: the EWMA and the cap are made of   *)
(* products the SMT backend does not sign by itself.                       *)
LEMMA TimesNat == ASSUME NEW a \in Nat, NEW b \in Nat PROVE a * b \in Nat
  BY SMT

(* The cap is a magnitude, whatever the averaged volume and the median.    *)
LEMMA CapNat == ASSUME NEW v \in Nat, NEW ref \in Nat PROVE CurrentCap(v, ref) \in Nat
  <1>1. ref \div FloorDen \in Nat
    BY DivNat, ScaleAssumption
  <1>2. Greatest(v, ref \div FloorDen) \in Nat
    BY <1>1 DEF Greatest
  <1>3. CapK \in Nat
    BY ScaleAssumption
  <1> QED
    BY <1>2, <1>3, TimesNat DEF CurrentCap

(* Folding an interval keeps the averaged volume a natural number.         *)
LEMMA FoldNat == ASSUME OiTypeOK PROVE FoldedVw \in Nat
  <1>1. interval_vol \in Nat
    BY DEF OiTypeOK
  <1>2. CASE vw = NoOi
    BY <1>1, <1>2 DEF FoldedVw
  <1>3. CASE vw # NoOi
    <2>1. vw \in Nat
      BY <1>3 DEF OiTypeOK
    <2>2. AlphaNum \in Nat /\ AlphaDen - AlphaNum \in Nat /\ AlphaDen \in Nat \ {0}
      BY ScaleAssumption
    <2>3. AlphaNum * interval_vol \in Nat
      BY <1>1, <2>2, TimesNat
    <2>4. (AlphaDen - AlphaNum) * vw \in Nat
      BY <2>1, <2>2, TimesNat
    <2>5. AlphaNum * interval_vol + (AlphaDen - AlphaNum) * vw \in Nat
      BY <2>3, <2>4
    <2>6. (AlphaNum * interval_vol + (AlphaDen - AlphaNum) * vw) \div AlphaDen \in Nat
      BY <2>2, <2>5, DivNat
    <2> QED
      BY <1>3, <2>6 DEF FoldedVw
  <1> QED
    BY <1>2, <1>3

(* A trade's share has the balance's sign, and is bounded by the trade and *)
(* by the balance: what remains is on the same side of zero and smaller.   *)
LEMMA ShareBounds ==
  ASSUME pending_oi \in Int, NEW q \in Nat
  PROVE  /\ Share(q) \in Int
         /\ Abs(Share(q)) =< q
         /\ Abs(pending_oi - Share(q)) =< Abs(pending_oi)
         /\ \/ pending_oi >= 0 /\ pending_oi - Share(q) >= 0
            \/ pending_oi =< 0 /\ pending_oi - Share(q) =< 0
  BY DEF Share, CopySign, Least, Abs

(* The signed balance and its counters hold their relations together.      *)
OiIInv == OiTypeOK /\ SignedAccounting /\ CountersCoverLoss /\ PendingWithinCap

THEOREM InitOiIInv == OiInit => OiIInv
  <1> SUFFICES ASSUME OiInit PROVE OiIInv
    OBVIOUS
  <1>1. connected \in BOOLEAN /\ connected_once \in BOOLEAN
    BY DEF OiInit
  <1>2. OiTypeOK
    <2>1. market_oi \in Nat
      BY OiAssumption DEF OiInit
    <2> QED
      BY <1>1, <2>1 DEF OiInit, OiTypeOK
  <1> QED
    BY <1>2 DEF OiInit, OiIInv, SignedAccounting, CountersCoverLoss, PendingWithinCap, Abs

(* What on_poll does to the balance, the loss and the cap.                 *)
LEMMA InjectStep ==
  ASSUME OiIInv, NEW oi \in Nat, NEW ref \in Nat, InjectDelta(oi, ref)
  PROVE  /\ vw' \in Nat /\ interval_vol' \in Nat /\ last_oi' \in Int
         /\ pending_oi' \in Int /\ dropped_oi' \in Nat /\ cap' \in Nat
         /\ injected' \in Int /\ lost_oi' \in Int
         /\ bled + pending_oi' + lost_oi' = injected'
         /\ Abs(lost_oi') =< dropped_oi' + resync_discarded_oi
         /\ Abs(pending_oi') =< cap'
  <1> DEFINE balance == pending_oi + (oi - last_oi)
             limit == CurrentCap(FoldedVw, ref)
             held == Held(balance, limit)
             excess == Excess(balance, limit)
  <1>1. FoldedVw \in Nat
    BY FoldNat DEF OiIInv
  <1>2. limit \in Nat
    BY <1>1, CapNat
  <1>3. last_oi \in Int /\ pending_oi \in Int /\ injected \in Int /\ lost_oi \in Int
        /\ bled \in Int /\ dropped_oi \in Nat /\ resync_discarded_oi \in Nat
    BY DEF OiIInv, OiTypeOK, InjectDelta
  <1>4. balance \in Int
    BY <1>3
  <1> HIDE DEF limit, balance
  <1>5. /\ held \in Int /\ Abs(held) =< limit
        /\ excess \in Nat /\ CopySign(excess, balance) = balance - held
        /\ Abs(balance - held) = excess
    BY <1>2, <1>4 DEF Abs, CopySign, Held, Excess, Greatest
  <1> HIDE DEF held, excess
  <1>6. /\ vw' = FoldedVw /\ interval_vol' = 0 /\ last_oi' = oi
        /\ pending_oi' = held
        /\ dropped_oi' = dropped_oi + excess
        /\ injected' = injected + (oi - last_oi)
        /\ lost_oi' = lost_oi + CopySign(excess, balance)
        /\ cap' = limit
    BY DEF InjectDelta, balance, limit, held, excess
  <1>7. bled + pending_oi' + lost_oi' = injected'
    BY <1>3, <1>5, <1>6 DEF balance, OiIInv, SignedAccounting
  <1>8. Abs(lost_oi') =< dropped_oi' + resync_discarded_oi
    BY <1>3, <1>4, <1>5, <1>6 DEF OiIInv, CountersCoverLoss, Abs
  <1>9. dropped_oi' \in Nat
    BY <1>3, <1>4, <1>5, <1>6 DEF Abs
  <1> QED
    BY <1>1, <1>2, <1>3, <1>4, <1>5, <1>6, <1>7, <1>8, <1>9

THEOREM NextOiIInv == OiIInv /\ [OiNext]_oiVars => OiIInv'
  <1> SUFFICES ASSUME OiIInv, [OiNext]_oiVars PROVE OiIInv'
    OBVIOUS
  <1> USE DEF attr, feed, market, history
  <1>1. ASSUME NEW level \in OiLevels, MarketMoves(level) PROVE OiIInv'
    BY <1>1, OiAssumption DEF MarketMoves, OiIInv, OiTypeOK, SignedAccounting,
       CountersCoverLoss, PendingWithinCap, Abs
  <1>2. CASE Disconnect
    BY <1>2 DEF Disconnect, OiIInv, OiTypeOK, SignedAccounting, CountersCoverLoss,
       PendingWithinCap, Abs
  <1>3. ASSUME NEW q \in Qty, OnTrade(q) PROVE OiIInv'
    <2>1. q \in Nat
      BY QtyAssumption
    <2>2. pending_oi \in Int
      BY DEF OiIInv, OiTypeOK
    <2>3. /\ Share(q) \in Int /\ Abs(Share(q)) =< q
          /\ Abs(pending_oi - Share(q)) =< Abs(pending_oi)
      BY <2>1, <2>2, ShareBounds
    <2>4. pending_oi' = pending_oi - Share(q) /\ bled' = bled + Share(q)
          /\ interval_vol' = interval_vol + q
      BY <1>3 DEF OnTrade
    <2>5. OiTypeOK'
      BY <1>3, <2>1, <2>2, <2>3, <2>4 DEF OnTrade, OiIInv, OiTypeOK
    <2>6. SignedAccounting'
      BY <1>3, <2>2, <2>3, <2>4 DEF OnTrade, OiIInv, OiTypeOK, SignedAccounting
    <2>7. CountersCoverLoss'
      BY <1>3 DEF OnTrade, OiIInv, CountersCoverLoss, Abs
    <2>8. Abs(pending_oi - Share(q)) =< cap
      <3>1. Abs(pending_oi) =< cap /\ cap \in Int
        BY DEF OiIInv, PendingWithinCap, OiTypeOK
      <3>2. Abs(pending_oi) \in Int /\ Abs(pending_oi - Share(q)) \in Int
        BY <2>2, <2>3 DEF Abs
      <3> QED
        BY <3>1, <3>2, <2>3
    <2>9. PendingWithinCap'
      <3>1. Abs(pending_oi') =< cap
        BY <2>4, <2>8
      <3>2. cap' = cap
        BY <1>3 DEF OnTrade
      <3> QED
        BY <3>1, <3>2 DEF PendingWithinCap, Abs
    <2> QED
      BY <2>5, <2>6, <2>7, <2>9 DEF OiIInv
  <1>4. CASE FetchOi
    BY <1>4 DEF FetchOi, OiIInv, OiTypeOK, SignedAccounting, CountersCoverLoss,
       PendingWithinCap, Abs
  <1>5. CASE FetchFails
    BY <1>5 DEF FetchFails, OiIInv, OiTypeOK, SignedAccounting, CountersCoverLoss,
       PendingWithinCap, Abs
  <1>6. ASSUME NEW ref \in TargetRefs, ApplyOi(ref) PROVE OiIInv'
    <2>1. polled \in Nat /\ ref \in Nat
      BY <1>6, RefAssumption DEF ApplyOi, OiIInv, OiTypeOK
    <2>2. CASE SeedBaseline(polled)
      BY <1>6, <2>1, <2>2 DEF ApplyOi, SeedBaseline, OiIInv, OiTypeOK, Least,
         SignedAccounting, CountersCoverLoss, PendingWithinCap, Abs
    <2>3. CASE InjectDelta(polled, ref)
      <3>1. /\ vw' \in Nat /\ interval_vol' \in Nat /\ last_oi' \in Int
            /\ pending_oi' \in Int /\ dropped_oi' \in Nat /\ cap' \in Nat
            /\ injected' \in Int /\ lost_oi' \in Int
            /\ bled + pending_oi' + lost_oi' = injected'
            /\ Abs(lost_oi') =< dropped_oi' + resync_discarded_oi
            /\ Abs(pending_oi') =< cap'
        BY <2>1, <2>3, InjectStep
      <3>2. bled' = bled /\ resync_discarded_oi' = resync_discarded_oi
        BY <1>6, <2>3 DEF ApplyOi, InjectDelta
      <3>3. OiTypeOK'
        BY <1>6, <2>1, <2>3, <3>1, <3>2
           DEF ApplyOi, InjectDelta, OiIInv, OiTypeOK, Least, Abs
      <3>4. SignedAccounting'
        BY <3>1, <3>2 DEF SignedAccounting
      <3>5. CountersCoverLoss' /\ PendingWithinCap'
        BY <3>1, <3>2 DEF CountersCoverLoss, PendingWithinCap, Abs
      <3> QED
        BY <3>3, <3>4, <3>5 DEF OiIInv
    <2> QED
      BY <1>6, <2>2, <2>3 DEF ApplyOi
  <1>7. CASE Connect
    BY <1>7 DEF Connect, OiIInv, OiTypeOK, SignedAccounting, CountersCoverLoss,
       PendingWithinCap, Abs
  <1>8. CASE Reconnect
    <2>1. OiTypeOK'
      BY <1>8 DEF Reconnect, Discard, OiIInv, OiTypeOK, Abs
    <2>2. SignedAccounting'
      BY <1>8 DEF Reconnect, Discard, OiIInv, OiTypeOK, SignedAccounting
    <2>3. CountersCoverLoss' /\ PendingWithinCap'
      BY <1>8 DEF Reconnect, Discard, OiIInv, OiTypeOK, CountersCoverLoss, PendingWithinCap, Abs
    <2> QED
      BY <2>1, <2>2, <2>3 DEF OiIInv
  <1>9. CASE UNCHANGED oiVars
    BY <1>9 DEF oiVars, OiIInv, OiTypeOK, SignedAccounting, CountersCoverLoss,
       PendingWithinCap, Abs
  <1> QED
    BY <1>1, <1>2, <1>3, <1>4, <1>5, <1>6, <1>7, <1>8, <1>9 DEF OiNext

(* The inductive invariant holds of every behaviour of the specification.  *)
THEOREM Invariance == OiSpec => []OiIInv
  BY InitOiIInv, NextOiIInv, PTL DEF OiSpec

(* The attributor's state is always of its type.                           *)
THEOREM TypeCorrect == OiSpec => []OiTypeOK
  <1>1. OiIInv => OiTypeOK
    BY DEF OiIInv
  <1> QED
    BY <1>1, Invariance, PTL

(* No OI is lost or invented: shares, balance and signed losses add up to  *)
(* what the polls injected (on_trade, on_poll, on_reconnect).              *)
THEOREM AccountingHolds == OiSpec => []SignedAccounting
  <1>1. OiIInv => SignedAccounting
    BY DEF OiIInv
  <1> QED
    BY <1>1, Invariance, PTL

(* The two cumulative counters never understate the OI that was discarded. *)
THEOREM CountersHold == OiSpec => []CountersCoverLoss
  <1>1. OiIInv => CountersCoverLoss
    BY DEF OiIInv
  <1> QED
    BY <1>1, Invariance, PTL

(* The books balance (BalanceAccounted): the three facts above at once.    *)
THEOREM BooksHold == OiSpec => []BalanceAccounted
  <1>1. OiIInv => BalanceAccounted
    BY DEF OiIInv, BalanceAccounted
  <1> QED
    BY <1>1, Invariance, PTL

(* Cap-and-hold: the balance stays within the last injecting poll's cap.   *)
THEOREM CapHolds == OiSpec => []PendingWithinCap
  <1>1. OiIInv => PendingWithinCap
    BY DEF OiIInv
  <1> QED
    BY <1>1, Invariance, PTL
(* Only a poll grows the balance, and a trade bleeds it without overshoot. *)
THEOREM BleedHolds == OiSpec => BleedTowardZero
  <1>1. ASSUME OiTypeOK, [OiNext]_oiVars PROVE [BleedStep]_oiVars
    <2> USE DEF attr, feed, market, history
    <2>1. ASSUME NEW level \in OiLevels, MarketMoves(level) PROVE BleedStep
      BY <1>1, <2>1 DEF MarketMoves, BleedStep, OiTypeOK, Abs
    <2>2. CASE Disconnect \/ FetchOi \/ FetchFails \/ Connect
      BY <1>1, <2>2 DEF Disconnect, FetchOi, FetchFails, Connect, BleedStep, OiTypeOK, Abs
    <2>3. ASSUME NEW q \in Qty, OnTrade(q) PROVE BleedStep
      <3>1. pending_oi \in Int /\ bled \in Int /\ interval_vol \in Nat /\ q \in Nat
        BY <1>1, QtyAssumption DEF OiTypeOK
      <3>2. /\ Share(q) \in Int /\ Abs(Share(q)) =< q
            /\ Abs(pending_oi - Share(q)) =< Abs(pending_oi)
            /\ \/ pending_oi >= 0 /\ pending_oi - Share(q) >= 0
               \/ pending_oi =< 0 /\ pending_oi - Share(q) =< 0
        BY <3>1, ShareBounds
      <3>3. pending_oi' = pending_oi - Share(q) /\ bled' - bled = Share(q)
            /\ interval_vol' - interval_vol = q
        BY <2>3, <3>1, <3>2 DEF OnTrade
      <3> QED
        BY <3>2, <3>3 DEF BleedStep
    <2>4. ASSUME NEW ref \in TargetRefs, ApplyOi(ref) PROVE BleedStep
      <3>1. polled' # polled
        BY <2>4 DEF ApplyOi
      <3> QED
        BY <3>1 DEF BleedStep
    <2>5. CASE Reconnect
      BY <1>1, <2>5 DEF Reconnect, BleedStep, OiTypeOK, Abs
    <2> QED
      BY <1>1, <2>1, <2>2, <2>3, <2>4, <2>5 DEF OiNext
  <1> QED
    BY <1>1, TypeCorrect, PTL DEF OiSpec, BleedTowardZero
=============================================================================
