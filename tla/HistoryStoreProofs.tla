-------------------------- MODULE HistoryStoreProofs --------------------------
(***************************************************************************)
(* Proof that the history store implements its promise, for every cap and  *)
(* any number of buckets, failed writes, stops and crashes.                *)
(***************************************************************************)
EXTENDS HistoryStore, Integers, SequenceTheorems, TLAPS

-----------------------------------------------------------------------------
(* Runs of consecutive buckets.                                            *)

(* A run is a sequence; its elements and its length.                       *)
LEMMA RunProperties ==
  ASSUME NEW m \in Nat \ {0}, NEW n \in Nat, m =< n + 1
  PROVE  /\ Run(m, n) \in Seq(m..n) /\ Run(m, n) \in Seq(Nat)
         /\ Len(Run(m, n)) = n + 1 - m
         /\ DOMAIN Run(m, n) = 1..(n + 1 - m)
         /\ \A i \in 1..(n + 1 - m) : Run(m, n)[i] = m + i - 1
<1>1. n + 1 - m \in Nat
  OBVIOUS
<1>2. Run(m, n) \in [1..(n + 1 - m) -> m..n] /\ Run(m, n) \in [1..(n + 1 - m) -> Nat]
  BY <1>1 DEF Run
<1>3. QED BY <1>1, <1>2 DEF Run

(* A sequence with the elements of a run is that run.                      *)
LEMMA IsRun ==
  ASSUME NEW m \in Nat \ {0}, NEW n \in Nat, m =< n + 1,
         NEW s \in Seq(Nat), Len(s) = n + 1 - m,
         \A i \in 1..Len(s) : s[i] = m + i - 1
  PROVE  s = Run(m, n)
<1>1. s \in [1..(n + 1 - m) -> Nat]
  OBVIOUS
<1>2. s = [i \in 1..(n + 1 - m) |-> s[i]]
  BY <1>1
<1>3. QED BY <1>2 DEF Run

(* A run without its first i-1 elements.                                   *)
LEMMA RunSuffix ==
  ASSUME NEW m \in Nat \ {0}, NEW n \in Nat, m =< n + 1, NEW i \in 1..(n + 2 - m)
  PROVE  SubSeq(Run(m, n), i, Len(Run(m, n))) = Run(m + i - 1, n)
<1> DEFINE s == SubSeq(Run(m, n), i, Len(Run(m, n)))
           l == n + 1 - m
<1>1. Run(m, n) \in Seq(Nat) /\ Len(Run(m, n)) = l /\ l \in Nat
      /\ \A j \in 1..l : Run(m, n)[j] = m + j - 1
  BY RunProperties
<1>2. \A j \in i..l : j \in 1..l
  BY <1>1
<1>3. /\ s \in Seq(Nat) /\ Len(s) = l - i + 1
      /\ \A j \in 1..(l - i + 1) : s[j] = Run(m, n)[i + j - 1]
  <2> HIDE DEF l
  <2>1. i \in 1..(Len(Run(m, n)) + 1)
    BY <1>1 DEF l
  <2>2. QED BY <1>1, <2>1, SubSeqProperties
<1>4. \A j \in 1..Len(s) : s[j] = (m + i - 1) + j - 1
  BY <1>1, <1>3
<1>5. m + i - 1 \in Nat \ {0} /\ m + i - 1 =< n + 1 /\ Len(s) = n + 1 - (m + i - 1)
  BY <1>3
<1>6. QED BY <1>3, <1>4, <1>5, IsRun

(* Pruning a run to the cap.                                               *)
Later(m, n) == IF m > n THEN m ELSE n

(* It keeps the last elements: from the first one, or from where the cap   *)
(* begins.                                                                 *)
LEMMA RunRetained ==
  ASSUME NEW m \in Nat \ {0}, NEW n \in Nat, m =< n + 1
  PROVE  /\ Retain(Run(m, n)) = Run(Later(m, n + 1 - Cap), n)
         /\ Later(m, n + 1 - Cap) \in m..(n + 1)
<1> DEFINE l == n + 1 - m
<1>0. l \in Nat /\ Len(Run(m, n)) = l /\ Cap \in Nat \ {0}
  BY RunProperties, HistoryAssumption
<1>1. CASE l > Cap
  <2> DEFINE i == l - Cap + 1
  <2>1. i \in 1..(n + 2 - m)
    BY <1>0, <1>1
  <2>2. Retain(Run(m, n)) = SubSeq(Run(m, n), i, Len(Run(m, n)))
    BY <1>0, <1>1 DEF Retain
  <2>3. Retain(Run(m, n)) = Run(m + i - 1, n)
    BY <2>1, <2>2, RunSuffix
  <2>4. m + i - 1 = Later(m, n + 1 - Cap) /\ m + i - 1 \in m..(n + 1)
    BY <1>0, <1>1 DEF Later
  <2>5. QED BY <2>3, <2>4
<1>2. CASE ~(l > Cap)
  <2>1. 1 \in 1..(n + 2 - m)
    BY <1>0
  <2>2. Retain(Run(m, n)) = SubSeq(Run(m, n), 1, Len(Run(m, n)))
    BY <1>0, <1>2 DEF Retain
  <2>3. Retain(Run(m, n)) = Run(m + 1 - 1, n)
    BY <2>1, <2>2, RunSuffix
  <2>4. m + 1 - 1 = m /\ m = Later(m, n + 1 - Cap) /\ m \in m..(n + 1)
    BY <1>0, <1>2 DEF Later
  <2>5. QED BY <2>3, <2>4
<1>3. QED BY <1>1, <1>2

(* The next bucket appended to a run.                                      *)
LEMMA RunAppended ==
  ASSUME NEW m \in Nat \ {0}, NEW n \in Nat, m =< n + 1
  PROVE  Append(Run(m, n), n + 1) = Run(m, n + 1)
<1> DEFINE s == Append(Run(m, n), n + 1)
<1>1. /\ Run(m, n) \in Seq(Nat) /\ Len(Run(m, n)) = n + 1 - m
      /\ \A j \in 1..(n + 1 - m) : Run(m, n)[j] = m + j - 1
  BY RunProperties
<1>2. /\ s \in Seq(Nat) /\ Len(s) = (n + 1) + 1 - m
      /\ \A j \in 1..(n + 1 - m) : s[j] = m + j - 1
      /\ s[n + 1 - m + 1] = n + 1
  BY <1>1, AppendProperties
<1>3. \A j \in 1..Len(s) : s[j] = m + j - 1
  BY <1>2
<1>4. n + 1 \in Nat /\ m =< (n + 1) + 1
  OBVIOUS
<1> HIDE DEF s
<1>5. s = Run(m, n + 1)
  BY <1>2, <1>3, <1>4, IsRun
<1>6. QED BY <1>5 DEF s

(* Two runs that follow each other.                                        *)
LEMMA RunJoined ==
  ASSUME NEW m \in Nat \ {0}, NEW k \in Nat, NEW n \in Nat, m =< k + 1, k =< n
  PROVE  Run(m, k) \o Run(k + 1, n) = Run(m, n)
<1> DEFINE s == Run(m, k) \o Run(k + 1, n)
<1>1. /\ Run(m, k) \in Seq(Nat) /\ Len(Run(m, k)) = k + 1 - m
      /\ \A j \in 1..(k + 1 - m) : Run(m, k)[j] = m + j - 1
  BY RunProperties
<1> DEFINE k1 == k + 1
<1>2. k1 \in Nat \ {0} /\ k1 =< n + 1
  OBVIOUS
<1> HIDE DEF k1
<1>3. /\ Run(k + 1, n) \in Seq(Nat) /\ Len(Run(k + 1, n)) = n + 1 - (k + 1)
      /\ \A j \in 1..(n + 1 - (k + 1)) : Run(k + 1, n)[j] = (k + 1) + j - 1
  <2>1. /\ Run(k1, n) \in Seq(Nat) /\ Len(Run(k1, n)) = n + 1 - k1
        /\ \A j \in 1..(n + 1 - k1) : Run(k1, n)[j] = k1 + j - 1
    BY <1>2, RunProperties
  <2>2. QED BY <2>1 DEF k1
<1>4. /\ s \in Seq(Nat) /\ Len(s) = Len(Run(m, k)) + Len(Run(k + 1, n))
      /\ \A j \in 1..(Len(Run(m, k)) + Len(Run(k + 1, n))) :
            s[j] = IF j =< Len(Run(m, k)) THEN Run(m, k)[j] ELSE Run(k + 1, n)[j - Len(Run(m, k))]
  BY <1>1, <1>3, ConcatProperties
<1> HIDE DEF s
<1>5. Len(s) = n + 1 - m
  <2>1. Len(s) = (k + 1 - m) + (n + 1 - (k + 1))
    BY <1>1, <1>3, <1>4
  <2>2. QED BY <2>1
<1>6. ASSUME NEW j \in 1..Len(s) PROVE s[j] = m + j - 1
  <2>1. CASE j =< k + 1 - m
    BY <1>1, <1>3, <1>4, <1>5, <2>1
  <2>2. CASE ~(j =< k + 1 - m)
    <3>1. j - (k + 1 - m) \in 1..(n + 1 - (k + 1))
      BY <1>5, <2>2
    <3>2. s[j] = Run(k + 1, n)[j - (k + 1 - m)]
      BY <1>1, <1>3, <1>4, <1>5, <2>2
    <3>3. QED BY <1>3, <3>1, <3>2
  <2>3. QED BY <2>1, <2>2
<1>7. s = Run(m, n)
  <2>1. m =< n + 1
    OBVIOUS
  <2>2. QED BY <1>4, <1>5, <1>6, <2>1, IsRun
<1>8. QED BY <1>7 DEF s

-----------------------------------------------------------------------------
(* The invariant.                                                          *)

(* The closed buckets and the forming one of an engine.                    *)
Snapshot(rows, st) ==
    /\ st \in 1..(MaxBuckets + 1) /\ Len(rows) \in 0..Cap /\ Len(rows) < st
    /\ rows = Run(st - Len(rows), st - 1)

(* The engine c, a has gone on from the rows and the forming bucket st.    *)
Follows(rows, st, c, a) ==
    rows # <<>> => st =< a /\ c = Run(Later(st - Len(rows), a - Cap), a - 1)

DiskOK == /\ disk \in Disk
          /\ IF disk.state = None THEN disk.rows = <<>> ELSE Snapshot(disk.rows, disk.state)

EngineOK ==
    IF phase = "down" THEN closed = <<>> /\ active = 0 /\ cursor = None /\ write = None
    ELSE Snapshot(closed, active) /\ Follows(disk.rows, disk.state, closed, active)

(* The disk as a queued payload will leave it is an engine that the        *)
(* running one has gone on from, and its cursor will be the last row.      *)
Sound(w) ==
    /\ Snapshot(Committed(w).rows, w.state)
    /\ Follows(Committed(w).rows, w.state, closed, active)
    /\ w.last = LastOf(Committed(w).rows)

WriteOK ==
    IF write = None THEN phase # "down" => cursor = LastOf(disk.rows)
    ELSE /\ write \in Payload
         /\ IF write.phase = "ok" THEN write.last = LastOf(disk.rows) ELSE cursor = LastOf(disk.rows)
         /\ write.phase = "queued" => Sound(write)

IInv ==
    /\ phase \in {"down", "up", "closing"} /\ framed \in BOOLEAN /\ stops \in 0..MaxStops
    /\ cursor \in Bucket \cup {None}
    /\ phase = "closing" => write = None
    /\ DiskOK /\ EngineOK /\ WriteOK

(* What a snapshot's rows are, and its last row.                           *)
LEMMA SnapshotProperties ==
  ASSUME NEW rows, NEW st, Snapshot(rows, st)
  PROVE  /\ rows \in Seq(Bucket) /\ Len(rows) =< Cap /\ st \in Nat \ {0}
         /\ rows = <<>> <=> Len(rows) = 0
         /\ rows # <<>> => LastOf(rows) = st - 1 /\ st - 1 \in Bucket
         /\ LastOf(rows) \in Bucket \cup {None}
         /\ Retain(rows) = rows
         /\ DOMAIN rows = 1..Len(rows)
         /\ \A i \in 1..Len(rows) : rows[i] = st - Len(rows) + i - 1
<1> DEFINE m == st - Len(rows)
           n == st - 1
<1>0. Cap \in Nat \ {0} /\ MaxBuckets \in Nat
  BY HistoryAssumption
<1>1. m \in Nat \ {0} /\ n \in Nat /\ m =< n + 1 /\ n + 1 - m = Len(rows) /\ rows = Run(m, n)
      /\ n =< MaxBuckets /\ Len(rows) \in 0..Cap /\ st \in Nat \ {0}
  BY <1>0 DEF Snapshot
<1> HIDE DEF m, n
<1>2. /\ rows \in Seq(m..n) /\ DOMAIN rows = 1..Len(rows)
      /\ \A i \in 1..Len(rows) : rows[i] = m + i - 1
  BY <1>1, RunProperties
<1>3. rows \in Seq(Bucket)
  <2>1. \A i \in 1..Len(rows) : rows[i] \in Bucket
    BY <1>0, <1>1, <1>2 DEF Bucket
  <2>2. QED BY <1>2, <2>1
<1>4. rows = <<>> <=> Len(rows) = 0
  BY <1>2
<1>5. rows # <<>> => LastOf(rows) = st - 1 /\ st - 1 \in Bucket
  <2> SUFFICES ASSUME rows # <<>> PROVE LastOf(rows) = st - 1 /\ st - 1 \in Bucket
    OBVIOUS
  <2>1. Len(rows) \in 1..Len(rows)
    BY <1>1, <1>4
  <2>2. rows[Len(rows)] = st - 1
    <3>1. rows[Len(rows)] = m + Len(rows) - 1
      BY <1>2, <2>1
    <3>2. m + Len(rows) - 1 = n
      BY <1>1
    <3>3. QED BY <3>1, <3>2 DEF n
  <2>3. st - 1 \in Bucket
    BY <1>0, <1>1, <2>1 DEF Bucket, m, n
  <2>4. QED BY <2>2, <2>3 DEF LastOf
<1>6. Retain(rows) = rows
  <2>1. Retain(rows) = Run(Later(m, n + 1 - Cap), n)
    BY <1>1, RunRetained
  <2>2. Later(m, n + 1 - Cap) = m
    BY <1>0, <1>1 DEF Later
  <2>3. QED BY <1>1, <2>1, <2>2
<1>7. LastOf(rows) \in Bucket \cup {None}
  BY <1>5 DEF LastOf
<1>8. \A i \in 1..Len(rows) : rows[i] = st - Len(rows) + i - 1
  BY <1>2 DEF m
<1>9. QED BY <1>1, <1>2, <1>3, <1>4, <1>5, <1>6, <1>7, <1>8

(* What the loop hands to the executor, cut at the cursor, leaves the disk *)
(* as the engine is (prepare and _write).                                  *)
LEMMA PreparedIsEngine ==
  ASSUME Snapshot(closed, active), Follows(disk.rows, disk.state, closed, active), DiskOK,
         cursor = LastOf(disk.rows), framed \in BOOLEAN
  PROVE  /\ Prepared \in Payload /\ Prepared.phase = "queued"
         /\ Committed(Prepared).rows = closed /\ Prepared.state = active
         /\ Prepared.last = LastOf(closed)
<1>0. /\ closed \in Seq(Bucket) /\ active \in Nat \ {0} /\ Retain(closed) = closed
      /\ LastOf(closed) \in Bucket \cup {None}
      /\ Cap \in Nat \ {0} /\ MaxBuckets \in Nat /\ None \notin Nat
      /\ DOMAIN closed = 1..Len(closed) /\ Len(closed) \in Nat
  BY SnapshotProperties, HistoryAssumption
<1>1. SUFFICES /\ NewClosed \in Seq(Bucket) /\ CursorAfter(NewClosed) = LastOf(closed)
               /\ Retain(IF FellOff THEN NewClosed ELSE disk.rows \o NewClosed) = closed
  BY <1>0 DEF Prepared, Payload, Committed, FellOff
<1>2. CASE disk.rows = <<>>
  <2>1. cursor = None
    BY <1>2 DEF LastOf
  <2>2. ~FellOff /\ NewClosed = closed
    BY <2>1 DEF FellOff, NewClosed
  <2>3. disk.rows \o NewClosed = closed
    BY <1>0, <1>2, <2>2, ConcatEmptySeq
  <2>4. CursorAfter(closed) = LastOf(closed)
    BY <2>1 DEF CursorAfter, LastOf
  <2>5. QED BY <1>0, <2>2, <2>3, <2>4
<1>3. CASE disk.rows # <<>>
  <2> DEFINE st == disk.state
             g == st - Len(disk.rows)
             f == Later(g, active - Cap)
             k == st - f
  <2>1. disk.state # None /\ Snapshot(disk.rows, disk.state)
    BY <1>3 DEF DiskOK
  <2>2. /\ disk.rows \in Seq(Bucket) /\ Len(disk.rows) \in 1..Cap /\ st \in 1..(MaxBuckets + 1)
        /\ g \in Nat \ {0} /\ g < st /\ disk.rows = Run(g, st - 1) /\ cursor = st - 1
    BY <1>0, <1>3, <2>1, SnapshotProperties DEF Snapshot
  <2>3. st =< active /\ closed = Run(f, active - 1)
    BY <1>3 DEF Follows
  <2> HIDE DEF st, g
  <2>4. f \in Nat \ {0} /\ f >= g /\ f =< active /\ (f = g \/ f = active - Cap)
    BY <1>0, <2>2, <2>3 DEF Later
  <2>a. f = Later(g, active - Cap)
    OBVIOUS
  <2> HIDE DEF f
  <2>5. /\ Len(closed) = active - f
        /\ \A i \in 1..(active - f) : closed[i] = f + i - 1
    <3>1. active - 1 \in Nat /\ f =< (active - 1) + 1 /\ (active - 1) + 1 - f = active - f
      BY <1>0, <2>4
    <3>2. QED BY <2>3, <2>4, <3>1, RunProperties
  <2>6. cursor # None
    BY <1>0, <2>2
  <2>7. CASE f >= st
    <3>1. Known = {}
      BY <1>0, <2>2, <2>4, <2>5, <2>7 DEF Known
    <3>2. FellOff /\ NewClosed = closed
      BY <2>6, <3>1 DEF FellOff, NewClosed
    <3>3. closed # <<>>
      BY <1>0, <2>2, <2>4, <2>5, <2>7
    <3>4. CursorAfter(closed) = LastOf(closed)
      BY <3>3 DEF CursorAfter
    <3>5. QED BY <1>0, <3>2, <3>4
  <2>8. CASE f < st
    <3>1. k \in 1..Len(closed)
      BY <1>0, <2>2, <2>3, <2>4, <2>5, <2>8
    <3>2. Known = {k}
      <4>1. ASSUME NEW i \in DOMAIN closed PROVE closed[i] = cursor <=> i = k
        <5>1. i \in 1..(active - f) /\ closed[i] = f + i - 1
          BY <1>0, <2>5
        <5>2. f + i - 1 = st - 1 <=> i = st - f
          BY <2>2, <2>4, <5>1
        <5>3. QED BY <2>2, <5>1, <5>2
      <4> HIDE DEF k
      <4>2. QED BY <1>0, <3>1, <4>1 DEF Known
    <3>3. ~FellOff /\ NewClosed = AfterCursor(k)
      <4> HIDE DEF k
      <4>1. k \in Nat
        BY <1>0, <3>1
      <4>2. (CHOOSE i \in Known : \A j \in Known : j =< i) = k
        BY <3>2, <4>1
      <4>3. QED BY <2>6, <3>2, <4>2 DEF FellOff, NewClosed
    <3>4. AfterCursor(k) = Run(st, active - 1)
      <4>1. f + (k + 1) - 1 = st /\ k + 1 \in 1..(active - 1 + 2 - f) /\ active - 1 \in Nat
            /\ f =< active - 1 + 1
        BY <1>0, <2>2, <2>3, <2>4, <2>5, <3>1
      <4> HIDE DEF k
      <4>2. QED BY <2>3, <2>4, <4>1, RunSuffix DEF AfterCursor
    <3>5. disk.rows \o NewClosed = Run(g, active - 1)
      <4> DEFINE p == st - 1
                 q == active - 1
      <4>1. p \in Nat /\ q \in Nat /\ g =< p + 1 /\ p =< q /\ p + 1 = st
        BY <1>0, <2>2, <2>3
      <4>2. disk.rows = Run(g, p) /\ NewClosed = Run(st, q)
        BY <2>2, <3>3, <3>4
      <4> HIDE DEF p, q
      <4>3. Run(g, p) \o Run(p + 1, q) = Run(g, q)
        BY <2>2, <4>1, RunJoined
      <4>4. disk.rows \o NewClosed = Run(g, q)
        BY <4>1, <4>2, <4>3
      <4>5. QED BY <4>4 DEF q
    <3>6. Retain(disk.rows \o NewClosed) = closed
      <4>1. active - 1 \in Nat /\ g =< (active - 1) + 1 /\ (active - 1) + 1 - Cap = active - Cap
        BY <1>0, <2>2, <2>3
      <4>2. QED BY <2>2, <2>3, <2>a, <3>5, <4>1, RunRetained
    <3>7. NewClosed \in Seq(Bucket)
      <4>1. \A i \in (k + 1)..Len(closed) : closed[i] \in Bucket
        BY <1>0, <3>1
      <4>2. k + 1 \in Int /\ Len(closed) \in Int
        BY <1>0, <3>1
      <4> HIDE DEF k
      <4>3. QED BY <3>3, <4>1, <4>2, SubSeqProperties DEF AfterCursor
    <3>8. CursorAfter(NewClosed) = LastOf(closed)
      <4>0. NewClosed = Run(st, active - 1) /\ Len(NewClosed) = active - st
            /\ \A i \in 1..(active - st) : NewClosed[i] = st + i - 1
        <5> DEFINE q == active - 1
        <5>1. st \in Nat \ {0} /\ q \in Nat /\ st =< q + 1 /\ q + 1 - st = active - st
          BY <1>0, <2>2, <2>3
        <5>2. NewClosed = Run(st, q)
          BY <3>3, <3>4
        <5> HIDE DEF q
        <5>3. Len(NewClosed) = q + 1 - st
              /\ \A i \in 1..(q + 1 - st) : NewClosed[i] = st + i - 1
          BY <5>1, <5>2, RunProperties
        <5>4. QED BY <5>1, <5>2, <5>3 DEF q
      <4>1. LastOf(closed) = active - 1
        BY <1>0, <2>4, <2>5, <3>1, SnapshotProperties
      <4>2. CASE st = active
        <5>0. Len(NewClosed) = 0
          BY <1>0, <4>0, <4>2
        <5>1. NewClosed = <<>>
          BY <3>7, <5>0
        <5>2. QED BY <2>2, <4>1, <4>2, <5>1 DEF CursorAfter
      <4>3. CASE st # active
        <5>1. NewClosed # <<>> /\ active - st \in 1..(active - st)
          BY <1>0, <2>2, <2>3, <3>7, <4>0, <4>3
        <5>2. NewClosed[Len(NewClosed)] = st + (active - st) - 1
          BY <4>0, <5>1
        <5>3. st + (active - st) - 1 = active - 1
          BY <1>0, <2>2
        <5>4. QED BY <4>1, <5>1, <5>2, <5>3 DEF CursorAfter, LastOf
      <4>4. QED BY <4>2, <4>3
    <3>9. QED BY <3>3, <3>6, <3>7, <3>8
  <2>9. QED BY <1>0, <2>2, <2>4, <2>7, <2>8
<1>4. QED BY <1>2, <1>3

(* The buckets from the first one are an engine to start with.             *)
LEMMA FreshSnapshot ==
  ASSUME Cap =< MaxBuckets, NEW n \in 0..Cap
  PROVE  Snapshot(Run(1, n), n + 1)
<1>0. n \in Nat /\ Cap \in Nat /\ MaxBuckets \in Nat
  BY HistoryAssumption
<1>1. Len(Run(1, n)) = n
  BY <1>0, RunProperties
<1>2. (n + 1) - n = 1 /\ (n + 1) - 1 = n /\ n + 1 \in 1..(MaxBuckets + 1)
  BY <1>0
<1>3. QED BY <1>0, <1>1, <1>2 DEF Snapshot

(* An engine goes on from itself.                                          *)
LEMMA FollowsItself ==
  ASSUME NEW c, NEW a, Snapshot(c, a)
  PROVE  Follows(c, a, c, a)
<1>1. a \in Nat /\ Cap \in Nat /\ Len(c) \in 0..Cap /\ c = Run(a - Len(c), a - 1)
  BY HistoryAssumption DEF Snapshot
<1>2. Later(a - Len(c), a - Cap) = a - Len(c)
  BY <1>1 DEF Later
<1>3. QED BY <1>1, <1>2 DEF Follows

(* Closing the forming bucket keeps a snapshot one, and one that goes on   *)
(* from whatever it went on from (the append and trim of                   *)
(* _close_active_bucket).                                                  *)
LEMMA CloseKeeps ==
  ASSUME NEW c, NEW a, Snapshot(c, a), a =< MaxBuckets
  PROVE  /\ Snapshot(Retain(Append(c, a)), a + 1)
         /\ \A rows, st : Snapshot(rows, st) /\ Follows(rows, st, c, a)
              => Follows(rows, st, Retain(Append(c, a)), a + 1)
<1> DEFINE m == a - Len(c)
           n == a - 1
           f == Later(m, a + 1 - Cap)
           d == Retain(Append(c, a))
<1>0. Cap \in Nat \ {0} /\ MaxBuckets \in Nat
  BY HistoryAssumption
<1>1. /\ m \in Nat \ {0} /\ n \in Nat /\ m =< n + 1 /\ n + 1 = a /\ c = Run(m, n)
      /\ Len(c) \in 0..Cap /\ a \in Nat \ {0} /\ m =< a + 1
  BY <1>0 DEF Snapshot
<1>2. Append(c, a) = Run(m, a)
  <2> HIDE DEF m, n
  <2>1. Append(Run(m, n), n + 1) = Run(m, n + 1)
    BY <1>1, RunAppended
  <2>2. QED BY <1>1, <2>1
<1>3. d = Run(f, a) /\ f \in m..(a + 1)
  <2> HIDE DEF m
  <2>1. QED BY <1>1, <1>2, RunRetained
<1>4. f \in Nat \ {0} /\ f =< a + 1 /\ a + 1 - f =< Cap /\ f >= m
  <2>1. a + 1 - f =< Cap
    BY <1>0, <1>1 DEF Later
  <2> HIDE DEF f, m
  <2>2. QED BY <1>1, <1>3, <2>1
<1>5. Len(d) = a + 1 - f
  <2> HIDE DEF f, d
  <2>1. QED BY <1>1, <1>3, <1>4, RunProperties
<1>6. Snapshot(d, a + 1)
  <2> HIDE DEF f, d
  <2>1. (a + 1) - Len(d) = f /\ (a + 1) - 1 = a /\ a + 1 \in 1..(MaxBuckets + 1)
        /\ Len(d) \in 0..Cap /\ Len(d) < a + 1
    BY <1>0, <1>1, <1>4, <1>5
  <2>2. QED BY <1>3, <2>1 DEF Snapshot
<1>7. ASSUME NEW rows, NEW st, Snapshot(rows, st), Follows(rows, st, c, a), rows # <<>>
      PROVE  st =< a + 1 /\ d = Run(Later(st - Len(rows), a + 1 - Cap), a + 1 - 1)
  <2> DEFINE g == st - Len(rows)
             e == Later(g, a - Cap)
  <2>1. g \in Nat \ {0} /\ st =< a /\ st \in Nat /\ g =< st /\ c = Run(e, n)
    BY <1>0, <1>7 DEF Follows, Snapshot
  <2>2. e \in Nat \ {0} /\ e =< n + 1
    BY <1>0, <1>1, <2>1 DEF Later
  <2>3. Len(c) = n + 1 - e
    <3> HIDE DEF e, n
    <3>1. QED BY <1>1, <2>1, <2>2, RunProperties
  <2>4. e = m
    <3> HIDE DEF e
    <3>1. QED BY <1>1, <2>2, <2>3
  <2>5. Later(e, a + 1 - Cap) = Later(g, a + 1 - Cap)
    <3> HIDE DEF g
    <3>1. QED BY <1>0, <1>1, <2>1 DEF Later
  <2>6. f = Later(g, a + 1 - Cap)
    BY <2>4, <2>5
  <2>7. a + 1 - 1 = a /\ st =< a + 1
    BY <1>1, <2>1
  <2>8. QED BY <1>3, <2>6, <2>7
<1> HIDE DEF d
<1>8. ASSUME NEW rows, NEW st, Snapshot(rows, st), Follows(rows, st, c, a)
      PROVE  Follows(rows, st, d, a + 1)
  <2>1. CASE rows = <<>>
    BY <2>1 DEF Follows
  <2>2. CASE rows # <<>>
    <3>1. st =< a + 1 /\ d = Run(Later(st - Len(rows), a + 1 - Cap), a + 1 - 1)
      BY <1>7, <1>8, <2>2
    <3>2. a + 1 - Cap = (a + 1) - Cap /\ a + 1 - 1 = (a + 1) - 1
      BY <1>0, <1>1
    <3>3. QED BY <3>1, <3>2 DEF Follows
  <2>3. QED BY <2>1, <2>2
<1>9. QED BY <1>6, <1>8 DEF d

-----------------------------------------------------------------------------
(* The invariant holds at the start and is kept by every step.             *)

(* A database is empty, or holds the first buckets of some engine.         *)
LEMMA InitIInv == ASSUME Cap =< MaxBuckets PROVE Init => IInv
<1> SUFFICES ASSUME Init PROVE IInv
  OBVIOUS
<1>0. /\ Cap \in Nat /\ MaxBuckets \in Nat /\ MaxStops \in Nat /\ None \notin Nat
  BY HistoryAssumption
<1>a. /\ phase = "down" /\ closed = <<>> /\ active = 0 /\ framed = FALSE
      /\ cursor = None /\ write = None /\ stops = 0
  BY DEF Init
<1>b. EngineOK /\ WriteOK
  BY <1>a DEF EngineOK, WriteOK
<1>c. DiskOK => IInv
  <2>1. stops \in 0..MaxStops
    BY <1>0, <1>a
  <2>2. framed \in BOOLEAN
    BY <1>a
  <2>3. cursor \in Bucket \cup {None}
    BY <1>a
  <2>4. QED BY <1>a, <1>b, <2>1, <2>2, <2>3 DEF IInv
<1>1. CASE disk = [rows |-> <<>>, state |-> None, current |-> FALSE, framed |-> FALSE]
  <2>1. <<>> \in Seq(Bucket)
    BY EmptySeq
  <2>2. disk \in Disk /\ disk.state = None /\ disk.rows = <<>>
    BY <1>1, <2>1 DEF Disk
  <2>3. QED BY <1>c, <2>2 DEF DiskOK
<1>2. CASE disk \in [rows : {Run(1, n) : n \in 0..Cap}, state : 1..(Cap + 1),
                     current : BOOLEAN, framed : BOOLEAN]
  <2>1. disk.state # None /\ disk.state - 1 \in 0..Cap /\ disk.rows = Run(1, disk.state - 1)
    BY <1>0, <1>2 DEF Init
  <2> DEFINE n == disk.state - 1
  <2>2. Snapshot(Run(1, n), n + 1)
    <3> HIDE DEF n
    <3>1. QED BY <2>1, FreshSnapshot DEF n
  <2>3. Snapshot(disk.rows, disk.state)
    <3>1. n + 1 = disk.state
      BY <1>0, <1>2
    <3>2. QED BY <2>1, <2>2, <3>1
  <2>4. disk.rows \in Seq(Bucket) /\ disk.state \in Nat
    BY <2>3, SnapshotProperties
  <2>5. DiskOK
    BY <1>2, <2>1, <2>3, <2>4 DEF DiskOK, Disk
  <2>6. QED BY <1>c, <2>5
<1>3. QED BY <1>1, <1>2 DEF Init

(* A start, whatever it found.                                             *)
LEMMA BootKeepsIInv ==
  ASSUME Cap =< MaxBuckets, IInv, BootEmpty \/ BootOldSchema \/ Boot
  PROVE  IInv'
<1>0. /\ Cap \in Nat \ {0} /\ MaxBuckets \in Nat /\ LegacyJson \in BOOLEAN /\ phase = "down"
      /\ write = None /\ disk \in Disk /\ disk.framed \in BOOLEAN
  BY HistoryAssumption DEF BootEmpty, BootOldSchema, Boot, IInv, EngineOK, DiskOK, Disk
<1>1. CASE BootEmpty
  <2>1. disk.rows = <<>> /\ disk' = disk
    BY <1>1 DEF BootEmpty, IInv, DiskOK
  <2>2. PICK n \in 0..Cap : closed' = Run(1, n) /\ active' = n + 1
    BY <1>0, <1>1 DEF BootEmpty, Cold
  <2>3. Snapshot(closed', active')
    BY <2>2, FreshSnapshot
  <2>4. QED BY <1>0, <1>1, <2>1, <2>3
            DEF BootEmpty, IInv, DiskOK, EngineOK, WriteOK, Follows, Snapshot, LastOf
<1>2. CASE BootOldSchema
  <2>0. <<>> \in Seq(Bucket)
    BY EmptySeq
  <2>1. disk' \in Disk /\ disk'.rows = <<>> /\ disk'.state = None
    BY <1>0, <1>2, <2>0 DEF BootOldSchema, Disk
  <2>2. closed' = Run(1, 0) /\ active' = 0 + 1 /\ 0 \in 0..Cap
    BY <1>0, <1>2 DEF BootOldSchema, Cold
  <2>3. Snapshot(closed', active')
    BY <2>2, FreshSnapshot
  <2>4. QED BY <1>0, <1>2, <2>1, <2>3
            DEF BootOldSchema, IInv, DiskOK, EngineOK, WriteOK, Follows, Snapshot, LastOf
<1>3. CASE Boot
  <2>1. Snapshot(disk.rows, disk.state)
    BY <1>3 DEF Boot, IInv, DiskOK
  <2>2. Follows(disk.rows, disk.state, disk.rows, disk.state)
    BY <2>1, FollowsItself
  <2>3. cursor' \in Bucket \cup {None}
    BY <1>3, <2>1, SnapshotProperties DEF Boot
  <2>4. QED BY <1>0, <1>3, <2>1, <2>2, <2>3
            DEF Boot, IInv, DiskOK, EngineOK, WriteOK, Snapshot, Follows
<1>4. QED BY <1>1, <1>2, <1>3

(* A bucket closes, also while a payload is on its way.                    *)
LEMMA CloseBucketKeepsIInv ==
  ASSUME IInv, CloseBucket
  PROVE  IInv'
<1>1. /\ Snapshot(closed, active) /\ active =< MaxBuckets
      /\ closed' = Retain(Append(closed, active)) /\ active' = active + 1
      /\ phase = "up" /\ UNCHANGED <<phase, framed, cursor, write, disk, stops>>
  BY DEF IInv, EngineOK, CloseBucket
<1>2. Snapshot(closed', active')
  BY <1>1, CloseKeeps
<1>3. Follows(disk.rows, disk.state, closed', active')
  <2>1. CASE disk.rows = <<>>
    BY <2>1 DEF Follows
  <2>2. CASE disk.rows # <<>>
    <3>1. Snapshot(disk.rows, disk.state) /\ Follows(disk.rows, disk.state, closed, active)
      BY <1>1, <2>2 DEF IInv, DiskOK, EngineOK
    <3>2. QED BY <1>1, <3>1, CloseKeeps
  <2>3. QED BY <2>1, <2>2
<1>4. write # None /\ write.phase = "queued" => Sound(write)'
  <2> SUFFICES ASSUME write # None, write.phase = "queued" PROVE Sound(write)'
    OBVIOUS
  <2>1. Sound(write)
    BY DEF IInv, WriteOK
  <2>2. Follows(Committed(write).rows, write.state, closed', active')
    BY <1>1, <2>1, CloseKeeps DEF Sound
  <2>3. QED BY <1>1, <2>1, <2>2 DEF Sound, Snapshot, Follows, Committed
<1>5. DiskOK'
  BY <1>1 DEF IInv, DiskOK, Snapshot
<1>6. EngineOK'
  BY <1>1, <1>2, <1>3 DEF IInv, EngineOK, Snapshot, Follows
<1>7. WriteOK'
  BY <1>1, <1>4 DEF IInv, WriteOK
<1>8. QED BY <1>1, <1>5, <1>6, <1>7 DEF IInv

(* The loop serialises the engine.                                         *)
LEMMA PrepareKeepsIInv ==
  ASSUME IInv, Prepare
  PROVE  IInv' /\ Committed(write').rows = closed /\ write'.state = active
         /\ write'.phase = "queued" /\ write' # None
<1>1. /\ phase = "up" /\ write = None /\ write' = Prepared
      /\ UNCHANGED <<phase, closed, active, framed, cursor, disk, stops>>
      /\ Snapshot(closed, active) /\ Follows(disk.rows, disk.state, closed, active)
      /\ DiskOK /\ cursor = LastOf(disk.rows) /\ framed \in BOOLEAN
  BY DEF IInv, EngineOK, WriteOK, Prepare, engine
<1>2. /\ Prepared \in Payload /\ Prepared.phase = "queued"
      /\ Committed(Prepared).rows = closed /\ Prepared.state = active
      /\ Prepared.last = LastOf(closed)
  BY <1>1, PreparedIsEngine
<1>3. Prepared # None
  BY <1>2, NoneAssumption
<1> DEFINE w == Prepared
<1> HIDE DEF w
<1>4. w = write' /\ w \in Payload /\ w.phase = "queued" /\ Committed(w).rows = closed
      /\ w.state = active /\ w.last = LastOf(closed) /\ w # None
  BY <1>1, <1>2, <1>3 DEF w
<1>5. Committed(write)' = Committed(w)
  BY <1>1, <1>4 DEF Committed
<1>6. Follows(closed, active, closed, active)
  BY <1>1, FollowsItself
<1>7. Sound(write)'
  BY <1>1, <1>4, <1>5, <1>6 DEF Sound, Snapshot, Follows, Committed
<1>8. DiskOK' /\ EngineOK'
  BY <1>1 DEF IInv, DiskOK, EngineOK, Snapshot, Follows
<1>9. WriteOK'
  BY <1>1, <1>4, <1>7 DEF IInv, WriteOK
<1>10. QED BY <1>1, <1>4, <1>8, <1>9 DEF IInv

(* The executor writes the payload, or rolls back.                         *)
LEMMA CommitKeepsIInv ==
  ASSUME IInv, Commit
  PROVE  IInv' /\ disk'.state # None
<1>1. /\ write # None /\ write.phase = "queued" /\ disk' = Committed(write)
      /\ write' = [write EXCEPT !.phase = "ok"]
      /\ UNCHANGED <<phase, closed, active, framed, cursor, stops>>
  BY DEF Commit, Queued, engine
<1>2. write \in Payload /\ Sound(write) /\ disk \in Disk /\ None \notin Nat
  BY <1>1, HistoryAssumption DEF IInv, WriteOK, DiskOK
<1>3. phase # "down" /\ phase # "closing" /\ Snapshot(closed, active)
  BY <1>1 DEF IInv, EngineOK
<1>4. /\ disk'.rows = Committed(write).rows /\ disk'.state = write.state /\ disk'.current = TRUE
      /\ disk'.framed = (disk.framed \/ write.framed)
  BY <1>1 DEF Committed
<1>5. Snapshot(disk'.rows, disk'.state) /\ Follows(disk'.rows, disk'.state, closed, active)
      /\ write.last = LastOf(disk'.rows)
  BY <1>2, <1>4 DEF Sound
<1>6. disk'.rows \in Seq(Bucket) /\ disk'.state \in Nat /\ disk'.state # None
  BY <1>2, <1>5, SnapshotProperties
<1>7. DiskOK'
  <2>1. disk.framed \in BOOLEAN /\ write.framed \in BOOLEAN
    BY <1>2 DEF Disk, Payload
  <2>2. disk' \in Disk
    <3> DEFINE R == Committed(write).rows
               b == disk.framed \/ write.framed
    <3>1. disk' = [rows |-> R, state |-> write.state, current |-> TRUE, framed |-> b]
      BY <1>1 DEF Committed
    <3>2. R \in Seq(Bucket) /\ write.state \in Nat /\ b \in BOOLEAN
      BY <1>4, <1>6, <2>1
    <3> HIDE DEF R, b
    <3>3. QED BY <3>1, <3>2 DEF Disk
  <2>3. QED BY <1>5, <1>6, <2>2 DEF DiskOK, Snapshot
<1>8. EngineOK'
  BY <1>1, <1>3, <1>5 DEF EngineOK, Snapshot, Follows
<1>9. write' \in Payload /\ write'.phase = "ok" /\ write'.last = write.last
  BY <1>1, <1>2 DEF Payload
<1>10. WriteOK'
  <2>1. write' # None
    BY <1>9, NoneAssumption
  <2>2. QED BY <1>5, <1>9, <2>1 DEF WriteOK, LastOf
<1>11. QED BY <1>1, <1>3, <1>6, <1>7, <1>8, <1>10 DEF IInv

(* A failed write leaves the disk.                                         *)
LEMMA RollBackKeepsIInv ==
  ASSUME IInv, RollBack
  PROVE  IInv'
<1>1. /\ write # None /\ write.phase = "queued" /\ write \in Payload
      /\ write' = [write EXCEPT !.phase = "failed"]
      /\ UNCHANGED <<phase, closed, active, framed, cursor, disk, stops>>
      /\ cursor = LastOf(disk.rows) /\ phase # "down" /\ phase # "closing"
  BY DEF RollBack, Queued, engine, IInv, WriteOK, EngineOK
<1>2. write' \in Payload /\ write'.phase = "failed"
  BY <1>1 DEF Payload
<1>3. write' # None
  BY <1>2, NoneAssumption
<1>4. WriteOK'
  BY <1>1, <1>2, <1>3 DEF WriteOK, LastOf
<1>5. DiskOK' /\ EngineOK'
  BY <1>1 DEF IInv, DiskOK, EngineOK, Snapshot, Follows
<1>6. QED BY <1>1, <1>4, <1>5 DEF IInv

(* Back on the loop, the cursor moves if the write succeeded.              *)
LEMMA SyncedKeepsIInv ==
  ASSUME IInv, Synced
  PROVE  IInv'
<1>1. /\ write # None /\ write.phase # "queued" /\ write \in Payload /\ write' = None
      /\ cursor' = IF write.phase = "ok" THEN write.last ELSE cursor
      /\ UNCHANGED <<phase, closed, active, framed, disk, stops>> /\ phase = "up"
  BY DEF Synced, Succeeded, Queued, engine, IInv, WriteOK
<1>2. cursor' = LastOf(disk.rows) /\ cursor' \in Bucket \cup {None}
  BY <1>1 DEF IInv, WriteOK, Payload
<1>3. DiskOK' /\ EngineOK'
  BY <1>1 DEF IInv, DiskOK, EngineOK, Snapshot, Follows
<1>4. WriteOK'
  BY <1>1, <1>2 DEF WriteOK, LastOf
<1>5. QED BY <1>1, <1>2, <1>3, <1>4 DEF IInv

(* SIGINT, which comes between writes.                                     *)
LEMMA InterruptKeepsIInv ==
  ASSUME ~MayStopInWrite, IInv, Interrupt
  PROVE  IInv' /\ write' = write
<1>1. /\ phase = "up" /\ phase' = "closing" /\ write = None /\ write' = write
      /\ stops' = stops + 1 /\ stops < MaxStops
      /\ UNCHANGED <<closed, active, framed, cursor, disk>>
  BY DEF Interrupt, Queued, engine
<1>2. stops' \in 0..MaxStops
  BY <1>1, HistoryAssumption DEF IInv
<1>3. DiskOK' /\ EngineOK' /\ WriteOK'
  BY <1>1 DEF IInv, DiskOK, EngineOK, WriteOK, Snapshot, Follows, LastOf
<1>4. QED BY <1>1, <1>2, <1>3 DEF IInv

(* The flush of close() leaves the engine on disk, or what was there.      *)
LEMMA FinalFlushKeepsIInv ==
  ASSUME IInv, FinalFlush
  PROVE  /\ IInv'
         /\ disk' = disk \/ (disk'.rows = closed /\ disk'.state = active /\ disk'.state # None)
<1>1. /\ phase = "closing" /\ write = None /\ disk' \in {Committed(Prepared), disk}
      /\ phase' = "down" /\ closed' = <<>> /\ active' = 0 /\ framed' = FALSE
      /\ cursor' = None /\ write' = None /\ stops' = stops
      /\ Snapshot(closed, active) /\ Follows(disk.rows, disk.state, closed, active)
      /\ DiskOK /\ cursor = LastOf(disk.rows) /\ framed \in BOOLEAN
  BY DEF FinalFlush, IInv, EngineOK, WriteOK
<1>2. /\ Prepared \in Payload /\ Committed(Prepared).rows = closed /\ Prepared.state = active
  BY <1>1, PreparedIsEngine
<1>3. ASSUME disk' = Committed(Prepared)
      PROVE  DiskOK' /\ disk'.rows = closed /\ disk'.state = active /\ disk'.state # None
  <2> DEFINE b == disk.framed \/ Prepared.framed
  <2>1. /\ disk' = [rows |-> closed, state |-> active, current |-> TRUE, framed |-> b]
    BY <1>2, <1>3 DEF Committed
  <2>2. disk.framed \in BOOLEAN /\ Prepared.framed \in BOOLEAN
    BY <1>1, <1>2 DEF DiskOK, Disk, Payload
  <2>3. b \in BOOLEAN
    BY <2>2
  <2>4. closed \in Seq(Bucket) /\ active \in Nat /\ active # None
    BY <1>1, SnapshotProperties, HistoryAssumption
  <2> HIDE DEF b
  <2>5. disk' \in Disk /\ disk'.rows = closed /\ disk'.state = active
    BY <2>1, <2>3, <2>4 DEF Disk
  <2>6. QED BY <1>1, <2>4, <2>5 DEF DiskOK, Snapshot
<1>4. CASE disk' = disk
  <2>1. DiskOK'
    BY <1>1, <1>4 DEF DiskOK, Snapshot
  <2>2. QED BY <1>1, <1>4, <2>1 DEF IInv, EngineOK, WriteOK
<1>5. CASE disk' = Committed(Prepared)
  BY <1>1, <1>3, <1>5 DEF IInv, EngineOK, WriteOK
<1>6. QED BY <1>1, <1>4, <1>5

(* A crash leaves the disk.                                                *)
LEMMA CrashKeepsIInv ==
  ASSUME IInv, Crash
  PROVE  IInv'
<1>1. /\ phase' = "down" /\ closed' = <<>> /\ active' = 0 /\ framed' = FALSE
      /\ cursor' = None /\ write' = None /\ disk' = disk /\ stops' = stops + 1 /\ stops < MaxStops
  BY DEF Crash
<1>2. stops' \in 0..MaxStops
  BY <1>1, HistoryAssumption DEF IInv
<1>3. DiskOK' /\ EngineOK' /\ WriteOK'
  BY <1>1 DEF IInv, DiskOK, EngineOK, WriteOK, Snapshot
<1>4. QED BY <1>1, <1>2, <1>3 DEF IInv

(* Every step keeps the invariant.                                         *)
LEMMA NextIInv ==
  ASSUME ~MayStopInWrite, Cap =< MaxBuckets PROVE IInv /\ [Next]_vars => IInv'
<1> SUFFICES ASSUME IInv, [Next]_vars PROVE IInv'
  OBVIOUS
<1>1. CASE UNCHANGED vars
  BY <1>1 DEF vars, engine, IInv, DiskOK, EngineOK, WriteOK, Sound, Snapshot, Follows, LastOf, Committed
<1>2. CASE Frame
  BY <1>2 DEF Frame, IInv, DiskOK, EngineOK, WriteOK, Sound, Snapshot, Follows, LastOf, Committed
<1>3. QED
  BY <1>1, <1>2, BootKeepsIInv, CloseBucketKeepsIInv, PrepareKeepsIInv, CommitKeepsIInv, RollBackKeepsIInv,
     SyncedKeepsIInv, InterruptKeepsIInv, FinalFlushKeepsIInv, CrashKeepsIInv DEF Next

(* The invariant implies the run's property.                               *)
LEMMA IInvConsistent == IInv => StoreIsConsistent
<1> SUFFICES ASSUME IInv PROVE TypeOK /\ CursorIsLastPersisted
  BY DEF StoreIsConsistent
<1>1. closed \in Seq(Bucket) /\ Len(closed) =< Cap /\ active \in Nat
  <2>1. CASE phase = "down"
    <3>1. closed = <<>> /\ active = 0
      BY <2>1 DEF IInv, EngineOK
    <3>2. QED BY <3>1, EmptySeq, HistoryAssumption
  <2>2. CASE phase # "down"
    BY <2>2, SnapshotProperties DEF IInv, EngineOK
  <2>3. QED BY <2>1, <2>2
<1>2. disk \in Disk /\ Len(disk.rows) =< Cap
  <2>1. CASE disk.state = None
    <3>1. disk.rows = <<>>
      BY <2>1 DEF IInv, DiskOK
    <3>2. QED BY <3>1, EmptySeq, HistoryAssumption DEF IInv, DiskOK
  <2>2. CASE disk.state # None
    BY <2>2, SnapshotProperties DEF IInv, DiskOK
  <2>3. QED BY <2>1, <2>2
<1>3. TypeOK
  BY <1>1, <1>2 DEF IInv, WriteOK, TypeOK
<1>4. CursorIsLastPersisted
  BY DEF IInv, WriteOK, CursorIsLastPersisted, Queued
<1>5. QED BY <1>3, <1>4

(* However writes fail, closes come in between, the cap pushes the cursor  *)
(* out, and processes stop or die: what is on disk has its shape and the   *)
(* cursor is its last row whenever a payload may be cut.  Assumed: no stop *)
(* meets a write under way, and the bound does not cut a first history.    *)
THEOREM StoreHolds ==
  ASSUME ~MayStopInWrite, Cap =< MaxBuckets PROVE Spec => []StoreIsConsistent
<1>1. Init => IInv
  BY InitIInv
<1>2. IInv /\ [Next]_vars => IInv'
  BY NextIInv
<1>3. QED BY <1>1, <1>2, IInvConsistent, PTL DEF Spec

-----------------------------------------------------------------------------
(* The store implements DurableHistory.                                    *)

(* A snapshot is one of the states of the abstract engine, and not None.   *)
LEMMA SnapshotIsState ==
  ASSUME NEW c, NEW a, Snapshot(c, a)
  PROVE  <<c, a>> \in {st \in States : st[2] > Len(st[1])} /\ <<c, a>> # None
<1>0. Cap \in Nat /\ MaxBuckets \in Nat /\ a \in 1..(MaxBuckets + 1) /\ Len(c) \in 0..Cap
      /\ Len(c) < a /\ c = Run(a - Len(c), a - 1)
  BY HistoryAssumption DEF Snapshot
<1>1. <<c, a>> \in States
  BY <1>0 DEF States
<1>2. c \in Seq(Bucket) /\ \A i \in 1..Len(c) : c[i] \in Nat
  BY <1>0, SnapshotProperties DEF Bucket
<1>3. c \in Seq(Nat)
  BY <1>2
<1>4. <<c, a>> # None
  BY <1>0, <1>3, NoneAssumption
<1>5. QED BY <1>0, <1>1, <1>4

(* The initial states map to initial states.                               *)
LEMMA InitRefines == ASSUME IInv, Init PROVE Durable!Init
<1>1. phase = "down" /\ write = None
  BY DEF Init
<1>2. disk.state # None => <<disk.rows, disk.state>> \in {st \in States : st[2] > Len(st[1])}
  BY SnapshotIsState DEF IInv, DiskOK
<1>3. QED BY <1>1, <1>2 DEF Durable!Init, Queued

(* A start of the daemon is Start, or Discard under an older schema.       *)
LEMMA BootRefines ==
  ASSUME Cap =< MaxBuckets, IInv, BootEmpty \/ BootOldSchema \/ Boot
  PROVE  Durable!Start \/ Durable!Discard
<1>0. phase = "down" /\ phase' = "up" /\ write = None /\ write' = None /\ 0 \in 0..Cap
  <2>1. phase = "down" /\ phase' = "up" /\ write' = write
    BY DEF BootEmpty, BootOldSchema, Boot
  <2>2. write = None
    BY <2>1 DEF IInv, EngineOK
  <2>3. QED BY <2>1, <2>2, HistoryAssumption
<1>1. CASE BootEmpty
  <2>1. disk.state = None /\ disk' = disk
    BY <1>1 DEF BootEmpty
  <2>2. PICK n \in 0..Cap : closed' = Run(1, n) /\ active' = n + 1
    BY <1>0, <1>1 DEF BootEmpty, Cold
  <2>3. <<closed', active'>> \in {<<Run(1, i), i + 1>> : i \in 0..Cap}
    BY <2>2
  <2>4. QED BY <1>0, <2>1, <2>3 DEF Durable!Start, Queued
<1>2. CASE BootOldSchema
  <2>1. disk.state # None /\ <<disk.rows, disk.state>> # None
    BY <1>2, SnapshotIsState DEF BootOldSchema, IInv, DiskOK
  <2>2. disk'.state = None
    BY <1>2 DEF BootOldSchema, IInv, DiskOK, Disk
  <2>3. closed' = Run(1, 0) /\ active' = 0 + 1
    BY <1>2 DEF BootOldSchema, Cold
  <2>4. <<closed', active'>> \in {<<Run(1, i), i + 1>> : i \in 0..Cap}
    BY <1>0, <2>3
  <2>5. QED BY <1>0, <2>1, <2>2, <2>4 DEF Durable!Discard, Queued
<1>3. CASE Boot
  <2>1. disk.state # None /\ <<disk.rows, disk.state>> # None /\ disk' = disk
        /\ closed' = disk.rows /\ active' = disk.state
    BY <1>3, SnapshotIsState DEF Boot, IInv, DiskOK
  <2>2. QED BY <1>0, <2>1 DEF Durable!Start, Queued
<1>4. QED BY <1>1, <1>2, <1>3

(* A close is Work.                                                        *)
LEMMA CloseBucketRefines ==
  ASSUME IInv, CloseBucket
  PROVE  Durable!Work
<1>1. phase = "up" /\ UNCHANGED <<phase, write, disk>>
  BY DEF CloseBucket
<1>2. IInv'
  BY CloseBucketKeepsIInv
<1>3. Snapshot(closed, active) /\ Snapshot(closed', active')
  BY <1>1, <1>2 DEF IInv, EngineOK, Snapshot
<1>4. /\ <<closed, active>> # None
      /\ <<closed', active'>> \in {st \in States : st[2] > Len(st[1])}
  BY <1>3, SnapshotIsState
<1>5. QED BY <1>1, <1>4 DEF Durable!Work, Queued, Committed

(* Serialising the engine is Take.                                         *)
LEMMA PrepareRefines ==
  ASSUME IInv, Prepare
  PROVE  Durable!Take
<1>1. phase = "up" /\ write = None /\ UNCHANGED <<phase, closed, active, disk>>
  BY DEF Prepare, engine
<1>2. Committed(write').rows = closed /\ write'.state = active /\ write'.phase = "queued"
      /\ write' # None
  BY PrepareKeepsIInv
<1>3. <<closed, active>> # None
  BY <1>1, SnapshotIsState DEF IInv, EngineOK
<1>4. Committed(write)' = Committed(write')
  BY <1>1 DEF Committed
<1>5. QED BY <1>1, <1>2, <1>3, <1>4 DEF Durable!Take, Queued

(* The transaction is Save, its failure Fail.                              *)
LEMMA WriteRefines ==
  ASSUME IInv, Commit \/ RollBack
  PROVE  Durable!Save \/ Durable!Fail
<1>1. /\ write # None /\ write.phase = "queued" /\ phase # "down" /\ write \in Payload
      /\ UNCHANGED <<phase, closed, active>>
  BY DEF Commit, RollBack, Queued, engine, IInv, EngineOK, WriteOK
<1>2. <<Committed(write).rows, write.state>> # None
  BY <1>1, SnapshotIsState DEF IInv, WriteOK, Sound
<1>3. CASE Commit
  <2>1. disk'.rows = Committed(write).rows /\ disk'.state = write.state /\ disk'.state # None
    BY <1>3, CommitKeepsIInv DEF Commit, Committed
  <2>2. write'.phase = "ok"
    BY <1>1, <1>3 DEF Commit, Payload
  <2>3. QED BY <1>1, <1>2, <2>1, <2>2 DEF Durable!Save, Queued
<1>4. CASE RollBack
  <2>1. disk' = disk /\ write'.phase = "failed"
    BY <1>1, <1>4 DEF RollBack, Payload
  <2>2. QED BY <1>1, <1>2, <2>1 DEF Durable!Fail, Queued
<1>5. QED BY <1>3, <1>4

(* The last flush and the crash are Stop.                                  *)
LEMMA StopRefines ==
  ASSUME IInv, FinalFlush \/ Crash
  PROVE  Durable!Stop
<1>1. phase # "down" /\ phase' = "down" /\ write' = None
  BY DEF FinalFlush, Crash
<1>2. <<closed, active>> # None
  BY <1>1, SnapshotIsState DEF IInv, EngineOK
<1>3. disk' = disk \/ (disk'.rows = closed /\ disk'.state = active /\ disk'.state # None)
  BY FinalFlushKeepsIInv DEF Crash
<1>4. QED BY <1>1, <1>2, <1>3 DEF Durable!Stop, Queued

(* The rest changes nothing the promise speaks of.                         *)
LEMMA RestStutters ==
  ASSUME ~MayStopInWrite, IInv, Frame \/ Synced \/ Interrupt \/ UNCHANGED vars
  PROVE  UNCHANGED Durable!vars
<1>1. CASE Frame \/ UNCHANGED vars
  BY <1>1 DEF Frame, vars, engine, Durable!vars, Queued, Committed
<1>2. CASE Synced
  <2>1. /\ phase = "up" /\ write.phase # "queued" /\ write # None /\ write' = None
        /\ UNCHANGED <<phase, closed, active, disk>>
    BY <1>2 DEF Synced, Queued, engine
  <2>2. QED BY <2>1 DEF Durable!vars, Queued
<1>3. CASE Interrupt
  <2>1. /\ phase = "up" /\ phase' = "closing" /\ write' = write
        /\ UNCHANGED <<closed, active, disk>>
    BY <1>3, InterruptKeepsIInv DEF Interrupt, engine
  <2>2. QED BY <2>1 DEF Durable!vars, Queued, Committed
<1>4. QED BY <1>1, <1>2, <1>3

(* For every cap and any number of buckets, failed writes, stops and       *)
(* crashes, the store is DurableHistory: what is on disk is always a whole *)
(* snapshot of the engine, a failed write leaves the previous one, and the *)
(* next start continues from exactly it.  Assumed as in StoreHolds.        *)
THEOREM StoreIsDurable ==
  ASSUME ~MayStopInWrite, Cap =< MaxBuckets PROVE Spec => ImplementsDurableHistory
<1>1. Init => IInv
  BY InitIInv
<1>2. IInv /\ [Next]_vars => IInv'
  BY NextIInv
<1>3. IInv /\ Init => Durable!Init
  BY InitRefines
<1>4. IInv /\ [Next]_vars => [Durable!Next]_(Durable!vars)
  <2> SUFFICES ASSUME IInv, [Next]_vars PROVE [Durable!Next]_(Durable!vars)
    OBVIOUS
  <2>1. QED
    BY BootRefines, CloseBucketRefines, PrepareRefines, WriteRefines, StopRefines, RestStutters
       DEF Next, Durable!Next
<1>5. QED BY <1>1, <1>2, <1>3, <1>4, PTL DEF Spec, ImplementsDurableHistory, Durable!Spec
=============================================================================
