----------------------------- MODULE HistoryStore -----------------------------
(***************************************************************************)
(* The SQLite history of the daemon (persistence.py) for one timeframe:    *)
(* boot, the periodic flush, the stop and the crash.                       *)
(*                                                                         *)
(* prepare() runs on the event loop and serialises the engine; _write()    *)
(* commits the payload in one transaction in a worker thread; back on the  *)
(* loop the cursor advances if the write succeeded.  The cursor is the     *)
(* last bucket on disk, found again in the engine's list by identity: what *)
(* follows it is appended, and if the cap has pushed it out the table is   *)
(* replaced.  A stop (SIGINT) cancels the loop; asyncio.run waits for a    *)
(* write that has begun, then close() flushes once more.  A crash is the   *)
(* death of the process.                                                   *)
(*                                                                         *)
(* The timeframes share one transaction and nothing else: one is modelled. *)
(* A bucket is its number in the engine's life; the forming bucket stands  *)
(* for the rest of the engine's state.  Footprints matter only as the      *)
(* source of the legacy replay.                                            *)
(***************************************************************************)
EXTENDS Naturals, Sequences, SequencesExt

CONSTANTS Cap,             \* CLOSED_BUCKETS_CAP
          None,
          LegacyJson,      \* a legacy server_footprints.json exists
          MayStopInWrite,  \* a stop may arrive while a write is under way
          MaxBuckets,      \* bound: buckets closed
          MaxStops         \* bound: stops and crashes

ASSUME HistoryAssumption ==
    /\ Cap \in Nat \ {0} /\ MaxBuckets \in Nat /\ MaxStops \in Nat
    /\ LegacyJson \in BOOLEAN /\ MayStopInWrite \in BOOLEAN /\ None \notin Nat

VARIABLES phase,    \* "down", "up", "closing"
          closed, active,  \* the engine: closed buckets, the forming one
          framed,   \* footprints_db holds nodes
          cursor,   \* the last bucket known to be on disk, or None
          write,    \* None, or the payload handed to the executor and its outcome
          disk,     \* rows, state (forming bucket or None), current schema, footprints
          stops     \* counter of the bound

engine == <<closed, active, framed>>
vars == <<phase, engine, cursor, write, disk, stops>>

Bucket == 1..MaxBuckets
Payload == [replace : BOOLEAN, rows : Seq(Bucket), last : Bucket \cup {None},
            state : Nat, framed : BOOLEAN, phase : {"queued", "ok", "failed"}]
Disk == [rows : Seq(Bucket), state : Nat \cup {None}, current : BOOLEAN, framed : BOOLEAN]

ASSUME NoneAssumption == None \notin Payload /\ None \notin Seq(Nat) \X Nat

TypeOK ==
    /\ phase \in {"down", "up", "closing"}
    /\ closed \in Seq(Bucket) /\ Len(closed) =< Cap /\ active \in Nat
    /\ framed \in BOOLEAN /\ cursor \in Bucket \cup {None}
    /\ write \in Payload \cup {None}
    /\ disk \in Disk /\ Len(disk.rows) =< Cap
    /\ stops \in 0..MaxStops
-------------------------------------------------------------------------------
\* the last Cap elements
Retain(s) == SubSeq(s, IF Len(s) > Cap THEN Len(s) - Cap + 1 ELSE 1, Len(s))
LastOf(s) == IF s = <<>> THEN None ELSE s[Len(s)]

\* the buckets m..n in order
Run(m, n) == [i \in 1..(n + 1 - m) |-> m + i - 1]

\* nothing yet; a database of an older schema; one of the current schema
Init ==
    /\ phase = "down" /\ closed = <<>> /\ active = 0 /\ framed = FALSE
    /\ cursor = None /\ write = None /\ stops = 0
    /\ disk \in {[rows |-> <<>>, state |-> None, current |-> FALSE, framed |-> FALSE]}
           \cup [rows : {Run(1, n) : n \in 0..Cap}, state : 1..(Cap + 1),
                 current : BOOLEAN, framed : BOOLEAN]
    /\ disk.state # None => disk.rows = Run(1, disk.state - 1)

Cold(replay) == /\ \E n \in (IF replay THEN 0..Cap ELSE {0}) :
                       closed' = Run(1, n) /\ active' = n + 1

\* bootstrap() and rehydrate_engines() on a database without engine state:
\* replay the footprints there are, from the database or the legacy file
BootEmpty ==
    /\ phase = "down" /\ disk.state = None
    /\ phase' = "up" /\ cursor' = None
    /\ framed' = (disk.framed \/ LegacyJson)
    /\ Cold(disk.framed \/ LegacyJson)
    /\ UNCHANGED <<write, disk, stops>>

\* the schema guard: clear what depends on the meaning of a bucket, start cold
BootOldSchema ==
    /\ phase = "down" /\ disk.state # None /\ ~disk.current
    /\ phase' = "up" /\ cursor' = None
    /\ framed' = (disk.framed \/ LegacyJson)
    /\ disk' = [disk EXCEPT !.rows = <<>>, !.state = None]
    /\ Cold(FALSE)
    /\ UNCHANGED <<write, stops>>

Boot ==
    /\ phase = "down" /\ disk.state # None /\ disk.current
    /\ phase' = "up"
    /\ closed' = disk.rows /\ active' = disk.state
    /\ framed' = (disk.framed \/ LegacyJson)
    /\ cursor' = LastOf(disk.rows)
    /\ UNCHANGED <<write, disk, stops>>

\* trades close the forming bucket
CloseBucket ==
    /\ phase = "up" /\ active =< MaxBuckets
    /\ closed' = Retain(Append(closed, active)) /\ active' = active + 1
    /\ UNCHANGED <<phase, framed, cursor, write, disk, stops>>

\* a kline or a trade creates the footprint node of its candle
Frame ==
    /\ phase = "up" /\ ~framed /\ framed' = TRUE
    /\ UNCHANGED <<phase, closed, active, cursor, write, disk, stops>>
-------------------------------------------------------------------------------
\* _new_closed: the buckets after the cursor, or all of them
AfterCursorInclusive(i) == SubSeq(closed, i, Len(closed))                \* mutant
AfterCursor(i) == SubSeq(closed, i + 1, Len(closed))
Known == {i \in DOMAIN closed : closed[i] = cursor}

FellOff == cursor # None /\ Known = {}

NewClosed == IF cursor = None \/ Known = {} THEN closed
             ELSE AfterCursor(CHOOSE i \in Known : \A j \in Known : j =< i)

CursorForgotten(new) == LastOf(new)                                      \* mutant
CursorAfter(new) == IF new = <<>> THEN cursor ELSE LastOf(new)

Prepared ==
    [replace |-> FellOff, rows |-> NewClosed,
     last |-> CursorAfter(NewClosed),
     state |-> active, framed |-> framed, phase |-> "queued"]

Committed(p) ==
    [rows |-> Retain(IF p.replace THEN p.rows ELSE disk.rows \o p.rows),
     state |-> p.state, current |-> TRUE, framed |-> disk.framed \/ p.framed]

\* sync_loop: serialise on the loop
Prepare ==
    /\ phase = "up" /\ write = None
    /\ write' = Prepared
    /\ UNCHANGED <<phase, engine, cursor, disk, stops>>

\* the payload has not been written yet, and may still be
Queued == IF write = None THEN FALSE ELSE write.phase = "queued"

\* _write in the executor: one transaction, or nothing
Commit ==
    /\ Queued
    /\ disk' = Committed(write)
    /\ write' = [write EXCEPT !.phase = "ok"]
    /\ UNCHANGED <<phase, engine, cursor, stops>>

RollBack ==
    /\ Queued
    /\ write' = [write EXCEPT !.phase = "failed"]
    /\ UNCHANGED <<phase, engine, cursor, disk, stops>>

AnyOutcome == TRUE                                                       \* mutant
Succeeded == write.phase = "ok"

\* back on the loop
Synced ==
    /\ phase = "up" /\ write # None /\ ~Queued
    /\ cursor' = IF Succeeded THEN write.last ELSE cursor
    /\ write' = None
    /\ UNCHANGED <<phase, engine, disk, stops>>
-------------------------------------------------------------------------------
\* SIGINT: the sync task is cancelled; a write not yet begun is cancelled with it
Interrupt ==
    /\ phase = "up" /\ stops < MaxStops /\ stops' = stops + 1
    /\ write = None \/ MayStopInWrite
    /\ phase' = "closing"
    /\ write' \in IF Queued THEN {write, None} ELSE {write}
    /\ UNCHANGED <<engine, cursor, disk>>

\* the executor has finished: close() prepares and writes once more, then the
\* process ends
FinalFlush ==
    /\ phase = "closing" /\ ~Queued
    /\ disk' \in {Committed(Prepared), disk}
    /\ phase' = "down" /\ closed' = <<>> /\ active' = 0 /\ framed' = FALSE
    /\ cursor' = None /\ write' = None
    /\ UNCHANGED stops

Crash ==
    /\ phase # "down" /\ stops < MaxStops /\ stops' = stops + 1
    /\ phase' = "down" /\ closed' = <<>> /\ active' = 0 /\ framed' = FALSE
    /\ cursor' = None /\ write' = None
    /\ UNCHANGED disk

Next ==
    \/ BootEmpty \/ BootOldSchema \/ Boot \/ CloseBucket \/ Frame
    \/ Prepare \/ Commit \/ RollBack \/ Synced \/ Interrupt \/ FinalFlush \/ Crash

\* the sync loop never stops and, of the writes it retries every ten seconds,
\* some succeed
Fairness == /\ WF_vars(Prepare) /\ SF_vars(Commit) /\ WF_vars(Synced)
            /\ WF_vars(Commit \/ RollBack)

Spec == Init /\ [][Next]_vars /\ Fairness
-------------------------------------------------------------------------------
\* Whenever a payload may be cut, the cursor names the last bucket on disk: what
\* is appended follows it directly.  (persistence.py: "a per-tf reference to the
\* last-persisted bucket object".)
CursorIsLastPersisted ==
    (phase = "up" /\ write = None) \/ (phase = "closing" /\ ~Queued)
        => cursor = LastOf(disk.rows)

\* The store implements its promise: a payload cut at the cursor, appended to
\* the table (or replacing it) and pruned is exactly the engine at the moment of
\* the snapshot, the forming bucket included; a failed write changes nothing; a
\* stop or a crash at any point leaves the last such snapshot, from which the
\* next start continues.
States == {<<Run(a - k, a - 1), a>> : a \in 1..(MaxBuckets + 1), k \in 0..Cap}
Durable == INSTANCE DurableHistory WITH
    States <- {st \in States : st[2] > Len(st[1])},
    Fresh <- {<<Run(1, n), n + 1>> : n \in 0..Cap},
    engine <- IF phase = "down" THEN None ELSE <<closed, active>>,
    taken <- IF Queued THEN <<Committed(write).rows, write.state>> ELSE None,
    durable <- IF disk.state = None THEN None ELSE <<disk.rows, disk.state>>
ImplementsDurableHistory == Durable!Spec

\* A closed bucket reaches the disk although writes fail in between, unless the
\* daemon stops first or the cap pushes the bucket out.
EventuallySaved ==
    \A n \in Bucket :
        (phase = "up" /\ n \in ToSet(closed)) ~>
            (phase # "up" \/ n \in ToSet(disk.rows) \/ n \notin ToSet(closed))

\* The store and its cursor agree at every moment: what is on disk has its shape
\* and the cursor, once set, is the last row written (periodic_sync).
StoreIsConsistent == TypeOK /\ CursorIsLastPersisted
===============================================================================
