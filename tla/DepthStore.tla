------------------------------ MODULE DepthStore ------------------------------
(***************************************************************************)
(* The daemon's copy of the order book and its recording: public_stream    *)
(* (feeds.py) keeps local_ob from one REST answer and the diff stream, and *)
(* tees every diff and, at times, the whole book into buffers; sync_loop   *)
(* (depth_store.py) drains the buffers on the event loop and writes them   *)
(* to depth.db in a worker thread, in one transaction that ends with the   *)
(* prune.                                                                  *)
(*                                                                         *)
(* The exchange is external: it changes one level at a time, and a diff    *)
(* takes at least one tick of the clock to arrive.  Its update ids grow by *)
(* one; a quantity is the id of the update that set it, so books that      *)
(* differ at all differ here.  One life of the daemon; the trade tape,     *)
(* drained and written beside the two tables, is left out.                 *)
(***************************************************************************)
EXTENDS DepthReplay, Sequences, SequencesExt

CONSTANTS Retention,     \* DEPTH_RETENTION_HOURS, in ticks
          DeltaCap,      \* DEPTH_BUFFER_CAP
          SnapCap,       \* maxlen of the snapshot buffer
          SnapInFlight,  \* a snapshot may be taken while a diff is on its way
          MaxU, MaxTime, MaxSnaps, MaxCuts, MaxFails   \* bounds

Changes == UNION {[L -> 0..MaxU] : L \in SUBSET Level}
Diff == [u : 1..MaxU, ts : 0..MaxTime, ch : Changes]
Snap == [ts : 0..MaxTime, u : 0..MaxU, book : Book]
Payload == [deltas : Seq(Diff), snaps : Seq(Snap)]

ASSUME DepthAssumption ==
    /\ Bids \cap Asks = {} /\ Bids # {} /\ Asks # {} /\ None \notin Book \cup Payload
    /\ Retention \in Nat /\ DeltaCap \in Nat \ {0} /\ SnapCap \in Nat \ {0}
    /\ SnapInFlight \in BOOLEAN /\ MaxU \in Nat \ {0}
    /\ {MaxTime, MaxSnaps, MaxCuts, MaxFails} \subseteq Nat

VARIABLES now,       \* wall clock
          market,    \* market[u]: the exchange's book after update u
          wire,      \* diffs on their way, oldest first
          link,      \* public_stream: "boot", "down", "up"
          local,     \* local_ob: bids and asks
          base,      \* local_ob: lastUpdateId
          lastU,     \* _last_depth_u
          deltaBuf, snapBuf,   \* the capture buffers
          write,     \* the payload in the executor, or None
          db,        \* the tables
          snapped, cuts, fails,   \* counters for the bounds
          seen,      \* ghost: seen[u], the local book after diff u was applied
          lost,      \* ghost: diffs dropped by a full buffer or a failed write
          missed     \* ghost: diffs newer than the REST answer that never arrived

stream == <<market, wire, link, local, base, lastU>>
counts == <<snapped, cuts, fails>>
ghosts == <<seen, lost, missed>>
vars == <<now, stream, deltaBuf, snapBuf, write, db, counts, ghosts>>

TypeOK ==
    /\ now \in 0..MaxTime /\ Len(market) \in 1..MaxU /\ link \in {"boot", "down", "up"}
    /\ Range(wire) \subseteq Diff /\ local \in Book
    /\ base \in 0..MaxU /\ lastU \in base..MaxU
    /\ Range(deltaBuf) \subseteq Diff /\ Len(deltaBuf) =< DeltaCap
    /\ Range(snapBuf) \subseteq Snap /\ Len(snapBuf) =< SnapCap
    /\ DOMAIN db.deltas \subseteq 1..MaxU /\ DOMAIN db.snaps \subseteq 0..MaxTime
    /\ DOMAIN seen \cup lost \cup missed \subseteq 1..MaxU
-------------------------------------------------------------------------------
\* a deque with a maxlen: a full one drops its oldest element
Push(s, x, cap) == SubSeq(Append(s, x), IF Len(s) < cap THEN 1 ELSE 2, Len(s) + 1)
PushedOut(s, cap) == IF Len(s) < cap THEN {} ELSE {s[1].u}

Init ==
    /\ now = 0 /\ market = <<[l \in Level |-> 1]>> /\ wire = <<>> /\ link = "boot"
    /\ local = EmptyBook /\ base = 0 /\ lastU = 0
    /\ deltaBuf = <<>> /\ snapBuf = <<>> /\ write = None /\ db = EmptyDb
    /\ snapped = 0 /\ cuts = 0 /\ fails = 0 /\ seen = <<>> /\ lost = {}
    /\ missed = {}

Tick ==
    /\ now < MaxTime /\ now' = now + 1
    /\ UNCHANGED <<stream, deltaBuf, snapBuf, write, db, counts, ghosts>>

\* the exchange: a level is set or emptied, and the diff leaves for the subscribers
Trade ==
    LET u == Len(market) + 1 IN
    /\ u =< MaxU
    /\ \E ch \in {<<>>} \cup UNION {[{l} -> {0, u}] : l \in Level} :
        /\ market' = Append(market, ApplyDiff(Last(market), ch))
        /\ wire' = Append(wire, [u |-> u, ts |-> now, ch |-> ch])
    /\ UNCHANGED <<now, link, local, base, lastU, deltaBuf, snapBuf, write, db, counts, ghosts>>

\* a diff that arrives while the daemon is not connected is gone
Miss ==
    /\ link # "up" /\ wire # <<>> /\ wire' = Tail(wire)
    /\ missed' = missed \cup {u \in {Head(wire).u} : u > base}
    /\ UNCHANGED <<now, market, link, local, base, lastU, deltaBuf, snapBuf, write, db,
                   counts, seen, lost>>

\* public_stream begins: one REST request, an empty book if it fails
RestAnswer ==
    /\ link = "boot" /\ link' = "down"
    /\ \/ local' = Last(market) /\ base' = Len(market)
       \/ local' = EmptyBook /\ base' = 0
    /\ lastU' = base' /\ missed' = {}
    /\ UNCHANGED <<now, market, wire, deltaBuf, snapBuf, write, db, counts, seen, lost>>

HasBothSides(book) == (\E l \in Bids : book[l] > 0) /\ (\E l \in Asks : book[l] > 0)

\* _capture_depth_snapshot
StampWithRest(book) == [ts |-> now, u |-> base, book |-> book]  \* mutant
SnapshotOf(book) == [ts |-> now, u |-> lastU, book |-> book]
CaptureSnapshot ==
    snapBuf' = IF HasBothSides(local) THEN Push(snapBuf, SnapshotOf(local), SnapCap)
               ELSE snapBuf

Quiet == \A i \in DOMAIN wire : wire[i].u =< lastU
Connect ==
    /\ link = "down" /\ (SnapInFlight \/ Quiet) /\ link' = "up"
    /\ CaptureSnapshot
    /\ UNCHANGED <<now, market, wire, local, base, lastU, deltaBuf, write, db, counts, ghosts>>

Cut ==
    /\ link = "up" /\ cuts < MaxCuts
    /\ link' = "down" /\ cuts' = cuts + 1
    /\ UNCHANGED <<now, market, wire, local, base, lastU, deltaBuf, snapBuf, write, db,
                   snapped, fails, ghosts>>

\* a diff older than the REST answer is skipped
Skip ==
    /\ link = "up" /\ wire # <<>> /\ Head(wire).ts < now /\ Head(wire).u < base
    /\ wire' = Tail(wire)
    /\ UNCHANGED <<now, market, link, local, base, lastU, deltaBuf, snapBuf, write, db,
                   counts, ghosts>>

\* the diff is applied, then _capture_depth_diff tees it
Deliver ==
    LET d == Head(wire) IN
    /\ link = "up" /\ wire # <<>> /\ d.ts < now /\ d.u >= base
    /\ wire' = Tail(wire)
    /\ local' = ApplyDiff(local, d.ch) /\ lastU' = d.u
    /\ IF d.ch = <<>> THEN UNCHANGED <<deltaBuf, lost>>
       ELSE /\ deltaBuf' = Push(deltaBuf, d, DeltaCap)
            /\ lost' = lost \cup PushedOut(deltaBuf, DeltaCap)
    /\ seen' = [v \in DOMAIN seen \cup {d.u} |-> IF v = d.u THEN local' ELSE seen[v]]
    /\ UNCHANGED <<now, market, link, base, snapBuf, write, db, counts, missed>>

\* depth_snapshot_loop
PeriodicSnapshot ==
    /\ snapped < MaxSnaps /\ (SnapInFlight \/ Quiet)
    /\ CaptureSnapshot /\ snapped' = snapped + 1
    /\ UNCHANGED <<now, stream, deltaBuf, write, db, cuts, fails, ghosts>>
-------------------------------------------------------------------------------
\* prepare(): drain the buffers on the event loop, hand them to the executor
Prepare ==
    /\ write = None
    /\ write' = [deltas |-> deltaBuf, snaps |-> snapBuf]
    /\ deltaBuf' = <<>> /\ snapBuf' = <<>>
    /\ UNCHANGED <<now, stream, db, counts, ghosts>>

\* INSERT OR REPLACE: the rows by primary key, of two with one key the later
ByKey(rows, keys) == [k \in Range(keys) |-> rows[Max({i \in DOMAIN rows : keys[i] = k})]]
Inserted(payload) ==
    [deltas |-> Over(ByKey(payload.deltas, [i \in DOMAIN payload.deltas |-> payload.deltas[i].u]),
                     db.deltas),
     snaps  |-> Over(ByKey(payload.snaps, [i \in DOMAIN payload.snaps |-> payload.snaps[i].ts]),
                     db.snaps)]

Cutoff == IF now > Retention THEN now - Retention ELSE 0

Commit ==
    /\ write # None /\ write' = None
    /\ db' = Pruned(Inserted(write), Cutoff)
    /\ UNCHANGED <<now, stream, deltaBuf, snapBuf, counts, ghosts>>

\* the transaction fails; the drained payload is not put back
RollBack ==
    /\ write # None /\ fails < MaxFails
    /\ write' = None /\ fails' = fails + 1
    /\ lost' = lost \cup {d.u : d \in Range(write.deltas)}
    /\ UNCHANGED <<now, stream, deltaBuf, snapBuf, db, snapped, cuts, seen, missed>>

Next == \/ Tick \/ Trade \/ Miss \/ RestAnswer \/ Connect \/ Cut \/ Skip \/ Deliver
        \/ PeriodicSnapshot \/ Prepare \/ Commit \/ RollBack

Spec == Init /\ [][Next]_vars
-------------------------------------------------------------------------------

\* no diff between the anchor of u and u was lost
Unbroken(u) == /\ AnchorsAt(db, u) # {}
               /\ \A v \in lost : ~(db.snaps[AnchorAt(db, u)].u < v /\ v =< u)

(* The replay of the recorded diffs from the anchor below u gives the book the *)
(* daemon held once it had applied u, whatever was captured, drained, written  *)
(* and pruned around it, for chains in which nothing was lost.  The first      *)
(* segment that reaches below the cutoff is excepted: see below.               *)
InPrunedSegment(u) == LET a == AnchorAt(db, u) IN a < Cutoff /\ a = Min(DOMAIN db.snaps)
ReplayIsExact ==
    \A u \in DOMAIN db.deltas :
        Unbroken(u) /\ ~InPrunedSegment(u) => ReconstructAtU(db, u) = seen[u]

(* The two readers order the record by different keys, build_window by event   *)
(* time and reconstruct_at_u by update id; for every moment of the retained    *)
(* hours that has an anchor and an unbroken chain they show the same book.  (A *)
(* diff stamped with the very tick of the window's first anchor is skipped by  *)
(* build_window only: excepted.)                                               *)
KnownAt(t) == {u \in DOMAIN db.deltas : db.deltas[u].ts =< t}
              \cup {db.snaps[s].u : s \in {s \in DOMAIN db.snaps : s =< t}}
Walkable(t0, t1) ==
    LET u == Max(KnownAt(t1))
        from == Max({s \in DOMAIN db.snaps : s =< t1})
    IN  /\ t0 >= Cutoff
        /\ \A v \in DOMAIN db.deltas : db.deltas[v].ts # t0
        /\ \A v \in lost : ~(db.snaps[from].u < v /\ v =< u)
WindowAgreesWithReplay ==
    \A t0 \in DOMAIN db.snaps : \A t1 \in t0..now :
        Walkable(t0, t1) => WindowBook(db, t0, t1) = ReconstructAtU(db, Max(KnownAt(t1)))

(* A diff the prune leaves does not lose the snapshot before it: what could be *)
(* replayed before a write can be replayed after it.                           *)
RetainedStaysAnchored ==
    [][\A u \in DOMAIN db.deltas \cap DOMAIN db'.deltas :
            AnchorsAt(db, u) # {} => AnchorsAt(db', u) # {}]_vars

(* depth_store.py:277-279 calls the snapshots the "ground truth" that corrects *)
(* "any delta-chain drift (a Binance @depth gap with no gap-recovery)".  A       *)
(* snapshot is a copy of local_ob: it is the exchange's book at its update id   *)
(* as long as no diff since the REST answer was missed, whatever connections,   *)
(* captures and writes came between; a missed one is missing in it as well.     *)
SnapshotsKnowWhatArrived ==
    \A t \in DOMAIN db.snaps :
        LET s == db.snaps[t] IN
        base > 0 /\ (\A v \in missed : v > s.u) => s.book = market[s.u]

(* The record is faithful: the buffers keep their bounds, the replay of the    *)
(* diffs gives the book that was held, and the snapshots are what had arrived. *)
RecordIsFaithful == TypeOK /\ ReplayIsExact /\ SnapshotsKnowWhatArrived
===============================================================================
