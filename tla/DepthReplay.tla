------------------------------ MODULE DepthReplay ------------------------------
(***************************************************************************)
(* What depth_store.py reads back from depth.db: the book as of an update  *)
(* id (reconstruct_at_u) and the last column of a heat-map window          *)
(* (build_window), and the prune that every write ends with.               *)
(*                                                                         *)
(* A book gives each price level its resting quantity, 0 if none.  A diff  *)
(* names some levels with their new absolute quantities, so replaying a    *)
(* set of diffs leaves at each level what the last diff naming it says.    *)
(* The two tables are functions on their primary keys: deltas on the       *)
(* update id u, snaps on the wall clock ts.                                *)
(***************************************************************************)
EXTENDS Naturals, FiniteSetsExt, Functions

CONSTANTS Bids, Asks,   \* price levels of the two sides
          None          \* no book

Level == Bids \cup Asks
Book == [Level -> Nat]
EmptyBook == [l \in Level |-> 0]
EmptyDb == [deltas |-> <<>>, snaps |-> <<>>]

\* one function over another: what new says, and what old says elsewhere
Over(new, old) ==
    [k \in DOMAIN new \cup DOMAIN old |-> IF k \in DOMAIN new THEN new[k] ELSE old[k]]

\* absolute quantities: what the diff names replaces what was there
ApplyDiff(book, ch) == Over(ch, book)

\* the diffs of the chain that name a level
Naming(deltas, chain, l) == {u \in chain : l \in DOMAIN deltas[u].ch}

\* ORDER BY u
ReplayById(book, deltas, chain) ==
    [l \in Level |-> LET named == Naming(deltas, chain, l)
                     IN  IF named = {} THEN book[l] ELSE deltas[Max(named)].ch[l]]

\* ORDER BY ts_ms, u
LastInTime(deltas, S) ==
    CHOOSE v \in S : \A w \in S \ {v} : \/ deltas[v].ts > deltas[w].ts
                                        \/ deltas[v].ts = deltas[w].ts /\ v > w
ReplayByTime(book, deltas, chain) ==
    [l \in Level |-> LET named == Naming(deltas, chain, l)
                     IN  IF named = {} THEN book[l] ELSE deltas[LastInTime(deltas, named)].ch[l]]

\* ORDER BY u DESC LIMIT 1 through the index on u: of two anchors with one u,
\* the later row
AnchorsAt(db, u) == {t \in DOMAIN db.snaps : db.snaps[t].u =< u}
AnchorAt(db, u) ==
    CHOOSE t \in AnchorsAt(db, u) : \A s \in AnchorsAt(db, u) \ {t} :
        \/ db.snaps[s].u < db.snaps[t].u
        \/ db.snaps[s].u = db.snaps[t].u /\ s < t

ReconstructAtU(db, u) ==
    IF AnchorsAt(db, u) = {} THEN None
    ELSE LET a == db.snaps[AnchorAt(db, u)]
         IN  ReplayById(a.book, db.deltas, {v \in DOMAIN db.deltas : a.u < v /\ v =< u})

\* the anchor of a window: the last snapshot at or before t0, or the first one
FirstAnchor(db, t0) ==
    LET before == {t \in DOMAIN db.snaps : t =< t0}
    IN  IF before = {} THEN Min(DOMAIN db.snaps) ELSE Max(before)

\* The book of the column that ends at t1.  Each later snapshot re-anchors the
\* walk, and goes before the diffs of its own millisecond.
WindowNoReanchor(db, t0, t1) ==  \* mutant
    LET first == FirstAnchor(db, t0)
    IN  ReplayByTime(db.snaps[first].book, db.deltas,
                     {u \in DOMAIN db.deltas : db.deltas[u].ts > first /\ db.deltas[u].ts =< t1})
WindowBook(db, t0, t1) ==
    LET first == FirstAnchor(db, t0)
        later == {t \in DOMAIN db.snaps : first < t /\ t =< t1}
        from  == Max(later \cup {first})
        walked == {u \in DOMAIN db.deltas :
                     /\ db.deltas[u].ts > first /\ db.deltas[u].ts >= from
                     /\ db.deltas[u].ts =< t1}
    IN  ReplayByTime(db.snaps[from].book, db.deltas, walked)
-------------------------------------------------------------------------------
\* The prune: no diff older than the cutoff, and of the snapshots at or before
\* it only the last.
KeptSnapsStrict(db, cutoff) == {t \in DOMAIN db.snaps : t >= cutoff}  \* mutant
KeptSnaps(db, cutoff) ==
    LET old == {t \in DOMAIN db.snaps : t =< cutoff}
    IN  IF old = {} THEN DOMAIN db.snaps ELSE {t \in DOMAIN db.snaps : t >= Max(old)}
Pruned(db, cutoff) ==
    [deltas |-> Restrict(db.deltas, {u \in DOMAIN db.deltas : db.deltas[u].ts >= cutoff}),
     snaps  |-> Restrict(db.snaps, KeptSnaps(db, cutoff))]
===============================================================================
