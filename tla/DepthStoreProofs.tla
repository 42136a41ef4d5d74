---------------------------- MODULE DepthStoreProofs ----------------------------
(***************************************************************************)
(* Proofs about the recorded order book: a snapshot is what had arrived,   *)
(* and the replay of the diffs from an anchor gives the book that was      *)
(* held, by id as well as by time, for any levels, caps, retention and     *)
(* order of captures, writes, prunes and connections.                      *)
(***************************************************************************)
EXTENDS DepthStore, WellFoundedInduction, TLAPS

(* What the state is made of.                                              *)
StreamTypes ==
    /\ now \in 0..MaxTime /\ market \in Seq(Book) /\ Len(market) \in 1..MaxU
    /\ wire \in Seq(Diff) /\ link \in {"boot", "down", "up"}
    /\ local \in Book /\ base \in 0..MaxU /\ lastU \in 0..MaxU /\ base =< lastU
BufferTypes ==
    /\ deltaBuf \in Seq(Diff) /\ Len(deltaBuf) =< DeltaCap
    /\ snapBuf \in Seq(Snap) /\ Len(snapBuf) =< SnapCap
    /\ write \in {None} \cup Payload
TableTypes ==
    /\ DOMAIN db.deltas \subseteq 1..MaxU /\ DOMAIN db.snaps \subseteq 0..MaxTime
    /\ \A u \in DOMAIN db.deltas : db.deltas[u] \in Diff /\ db.deltas[u].u = u
    /\ \A t \in DOMAIN db.snaps : db.snaps[t] \in Snap /\ db.snaps[t].ts = t
GhostTypes ==
    /\ DOMAIN seen \subseteq 1..MaxU /\ \A u \in DOMAIN seen : seen[u] \in Book
    /\ lost \subseteq 1..MaxU /\ missed \subseteq 1..MaxU
Types == StreamTypes /\ BufferTypes /\ TableTypes /\ GhostTypes

(* What is recorded, wherever it is: in the buffers, in the payload of the *)
(* write, in the tables.                                                   *)
BufDiffs == Range(deltaBuf)
WriteDiffs == IF write = None THEN {} ELSE Range(write.deltas)
DbDiffs == {db.deltas[u] : u \in DOMAIN db.deltas}
Diffs == BufDiffs \cup WriteDiffs \cup DbDiffs
BufSnaps == Range(snapBuf)
WriteSnaps == IF write = None THEN {} ELSE Range(write.snaps)
DbSnaps == {db.snaps[t] : t \in DOMAIN db.snaps}
Snaps == BufSnaps \cup WriteSnaps \cup DbSnaps

(* The wire carries the latest updates of the exchange, in order.          *)
WireIsTheTail ==
    /\ Len(wire) < Len(market)
    /\ \A i \in DOMAIN wire :
          /\ wire[i].u = (Len(market) - Len(wire)) + i /\ wire[i].ts =< now
          /\ market[wire[i].u] = ApplyDiff(market[wire[i].u - 1], wire[i].ch)

(* Before the REST answer there is nothing.                                *)
BootIsEmpty ==
    link = "boot" => /\ local = EmptyBook /\ base = 0 /\ lastU = 0 /\ DOMAIN seen = {}
                     /\ Snaps = {} /\ Diffs = {}

(* The local book is the exchange's at the last update unless one was      *)
(* missed, and so is every snapshot taken of it.                           *)
LocalKnows ==
    /\ lastU =< Len(market)
    /\ \A v \in missed : v > base
    /\ base > 0 => \A v \in 1..MaxU : lastU < v /\ v =< Len(market) - Len(wire) => v \in missed
    /\ base > 0 /\ (\A v \in missed : v > lastU) => local = market[lastU]
    /\ \A i \in DOMAIN wire : wire[i].u > lastU \/ lastU = base
SnapsKnow ==
    \A s \in Snaps : /\ base =< s.u /\ s.u =< lastU
                     /\ base > 0 /\ (\A v \in missed : v > s.u) => s.book = market[s.u]

KnowIInv == Types /\ WireIsTheTail /\ BootIsEmpty /\ LocalKnows /\ SnapsKnow

(* An update is recorded once, after it was applied, and what is nearer to *)
(* the tables is older.                                                    *)
DiffsInOrder ==
    /\ \A d \in Diffs : d.u \in DOMAIN seen
    /\ \A u \in DOMAIN seen : u =< lastU /\ \A i \in DOMAIN wire : u < wire[i].u
    /\ \A d, e \in Diffs : d.u = e.u => d = e
    /\ \A d \in DbDiffs : \A e \in WriteDiffs \cup BufDiffs : d.u < e.u
    /\ \A d \in WriteDiffs : \A e \in BufDiffs : d.u < e.u
SeenEnds == lastU \in DOMAIN seen => seen[lastU] = local

(* The clock and the ids agree on which of a diff and a snapshot, or of    *)
(* two snapshots, came first.                                              *)
SnapsInOrder ==
    /\ \A s \in BufSnaps : \A d \in WriteDiffs \cup DbDiffs : d.u =< s.u
    /\ \A s \in Snaps : s.ts =< now /\ (s.u < lastU => s.ts < now)
    /\ \A s, r \in Snaps : s.u < r.u => s.ts < r.ts
    /\ \A s \in Snaps : \A d \in Diffs : (d.u < s.u => d.ts < s.ts) /\ (d.u > s.u => d.ts >= s.ts)
    /\ \A d \in Diffs : d.ts < now
    /\ \A s \in Snaps : \A i \in DOMAIN wire : wire[i].u > s.u => wire[i].ts >= s.ts

(* From a snapshot on, the recorded diffs that name a level say what the   *)
(* local book held there, as long as none of them was lost.  The first     *)
(* snapshot of the tables is exempt once it is older than the cutoff: the  *)
(* prune has taken diffs behind it.                                        *)
NamedIn(D, a, b, l) == {d \in D : a < d.u /\ d.u =< b /\ l \in DOMAIN d.ch}
Shows(D, book, s, u) ==
    \A l \in Level :
        \/ NamedIn(D, s.u, u, l) = {} /\ book[l] = s.book[l]
        \/ \E d \in NamedIn(D, s.u, u, l) : /\ book[l] = d.ch[l]
                                           /\ \A e \in NamedIn(D, s.u, u, l) : e.u =< d.u
NoneLost(L, a, b) == \A v \in L : ~(a < v /\ v =< b)
Exact(s) ==
    /\ NoneLost(lost, s.u, lastU) => Shows(Diffs, local, s, lastU)
    /\ \A u \in DOMAIN seen :
          s.u =< u /\ NoneLost(lost, s.u, u) => Shows(Diffs, seen[u], s, u)
ChainsAreExact ==
    /\ \A s \in BufSnaps \cup WriteSnaps : Exact(s)
    /\ \A s \in DbSnaps : s.ts >= Cutoff \/ s.ts # Min(DOMAIN db.snaps) => Exact(s)

OrderIInv == KnowIInv /\ DiffsInOrder /\ SeenEnds /\ SnapsInOrder
RecordIInv == OrderIInv /\ ChainsAreExact

(* For the reader by time: diffs happen in the order of their ids, the     *)
(* book after a diff has what the diff says, and snapshots of one id have  *)
(* one book.                                                               *)
TimesInOrder ==
    /\ \A d, e \in Diffs : d.u < e.u => d.ts =< e.ts
    /\ \A d \in Diffs : \A i \in DOMAIN wire : d.ts =< wire[i].ts
    /\ \A i, k \in DOMAIN wire : i < k => wire[i].ts =< wire[k].ts
SeenSays == \A d \in Diffs : \A l \in DOMAIN d.ch : seen[d.u][l] = d.ch[l]
SnapsAgree ==
    /\ \A s \in Snaps : s.u = lastU => s.book = local
    /\ \A s, r \in Snaps : s.u = r.u => s.book = r.book
WindowIInv == RecordIInv /\ TimesInOrder /\ SeenSays /\ SnapsAgree

-----------------------------------------------------------------------------
(* Numbers, books and sequences.                                           *)

LEMMA Constants ==
  /\ MaxU \in Nat \ {0} /\ MaxTime \in Nat /\ Retention \in Nat
  /\ DeltaCap \in Nat \ {0} /\ SnapCap \in Nat \ {0}
  /\ None \notin Payload
BY DepthAssumption

LEMMA MaxOfSome ==
  ASSUME NEW n \in Nat, NEW S \in SUBSET (0..n), S # {}
  PROVE  Max(S) \in S /\ \A y \in S : y =< Max(S)
<1> DEFINE Above == {m \in Nat : \A y \in S : y =< m}
           R == OpToRel(<, Nat)
<1>1. n \in Above
  OBVIOUS
<1>2. \E m \in Above : \A k \in Above : ~(<<k, m>> \in R)
  <2>1. IsWellFoundedOn(R, Nat)
    BY NatLessThanWellFounded
  <2> HIDE DEF R
  <2>2. Above # {} /\ Above \subseteq Nat
    BY <1>1
  <2> HIDE DEF Above
  <2>3. QED BY <2>1, <2>2, WFMin
<1>3. PICK m \in Above : \A k \in Above : ~(<<k, m>> \in R)
  BY <1>2
<1>4. \A k \in Above : ~(k < m)
  BY <1>3 DEF OpToRel
<1>5. m \in S
  <2> SUFFICES ASSUME m \notin S PROVE FALSE
    OBVIOUS
  <2>1. \A y \in S : y < m /\ y \in Nat
    OBVIOUS
  <2>2. m \in Nat /\ m > 0 /\ m - 1 \in Nat /\ m - 1 < m
    <3>1. PICK y \in S : TRUE
      OBVIOUS
    <3>2. y < m /\ y \in Nat /\ m \in Nat
      BY <2>1
    <3>3. QED BY <3>2
  <2>3. m - 1 \in Above
    BY <2>1, <2>2
  <2>4. QED BY <1>4, <2>2, <2>3
<1>6. \A y \in S : m >= y
  OBVIOUS
<1>7. QED BY <1>5, <1>6 DEF Max

LEMMA MinOfSome ==
  ASSUME NEW S \in SUBSET Nat, S # {}
  PROVE  Min(S) \in S /\ \A y \in S : Min(S) =< y
<1> DEFINE R == OpToRel(<, Nat)
<1>1. IsWellFoundedOn(R, Nat)
  BY NatLessThanWellFounded
<1>2. \E m \in S : \A k \in S : ~(<<k, m>> \in R)
  <2> HIDE DEF R
  <2>1. QED BY <1>1, WFMin
<1>3. PICK m \in S : \A k \in S : ~(<<k, m>> \in R)
  BY <1>2
<1>4. \A k \in S : ~(k < m)
  BY <1>3 DEF OpToRel
<1>5. \A k \in S : m =< k
  BY <1>4
<1>6. QED BY <1>5 DEF Min

(* What an element is in a range, and what a deque keeps.                  *)
LEMMA RangeOf ==
  ASSUME NEW S, NEW s \in Seq(S)
  PROVE  /\ Range(s) \subseteq S
         /\ \A x : x \in Range(s) <=> \E i \in DOMAIN s : s[i] = x
BY DEF Range

LEMMA PushParts ==
  ASSUME NEW S, NEW s \in Seq(S), NEW x \in S, NEW cap \in Nat \ {0}, Len(s) =< cap
  PROVE  /\ Push(s, x, cap) \in Seq(S) /\ Len(Push(s, x, cap)) =< cap
         /\ Range(Push(s, x, cap)) \subseteq Range(s) \cup {x} /\ x \in Range(Push(s, x, cap))
         /\ \A y \in Range(s) : y \in Range(Push(s, x, cap)) \/ y.u \in PushedOut(s, cap)
         /\ \A v \in PushedOut(s, cap) : \E y \in Range(s) : y.u = v
<1>1. Append(s, x) \in Seq(S) /\ Len(Append(s, x)) = Len(s) + 1 /\ Len(s) \in Nat
      /\ \A i \in 1..Len(s) : Append(s, x)[i] = s[i]
      /\ Append(s, x)[Len(s) + 1] = x
  OBVIOUS
<1>2. CASE Len(s) < cap
  <2>1. Push(s, x, cap) = Append(s, x)
    BY <1>1, <1>2 DEF Push
  <2>2. PushedOut(s, cap) = {}
    BY <1>2 DEF PushedOut
  <2>3. QED BY <1>1, <1>2, <2>1, <2>2 DEF Range
<1>3. CASE ~(Len(s) < cap)
  <2> DEFINE p == Push(s, x, cap)
  <2>1. p = SubSeq(Append(s, x), 2, Len(s) + 1) /\ PushedOut(s, cap) = {s[1].u}
    BY <1>3 DEF Push, PushedOut
  <2>2. /\ p \in Seq(S) /\ Len(p) = Len(s)
        /\ \A i \in 1..Len(s) : p[i] = Append(s, x)[i + 1]
    BY <1>1, <2>1
  <2>3. Len(s) > 0 /\ 1 \in DOMAIN s
    BY <1>1, <1>3
  <2> HIDE DEF p
  <2>4. \A i \in 1..Len(s) : p[i] = IF i = Len(s) THEN x ELSE s[i + 1]
    BY <1>1, <2>2
  <2>5. \A i \in 2..Len(s) : p[i - 1] = s[i]
    BY <1>1, <2>4
  <2>6. x \in Range(p) /\ Range(p) \subseteq Range(s) \cup {x}
    <3>1. \A i \in DOMAIN p : p[i] = x \/ (i + 1 \in DOMAIN s /\ p[i] = s[i + 1])
      BY <1>1, <2>2, <2>4
    <3>2. Len(s) \in DOMAIN p /\ p[Len(s)] = x
      BY <1>1, <2>2, <2>3, <2>4
    <3>3. QED BY <3>1, <3>2 DEF Range
  <2>7. ASSUME NEW y \in Range(s) PROVE y \in Range(p) \/ y.u = s[1].u
    <3>1. PICK i \in 1..Len(s) : s[i] = y
      BY DEF Range
    <3>2. CASE i = 1
      BY <3>1, <3>2
    <3>3. CASE i # 1
      <4>1. i - 1 \in 1..Len(p) /\ p[i - 1] = y
        BY <1>1, <2>2, <2>5, <3>1, <3>3
      <4>2. QED BY <2>2, <4>1 DEF Range
    <3>4. QED BY <3>2, <3>3
  <2>8. s[1] \in Range(s)
    BY <2>3 DEF Range
  <2>9. QED BY <1>1, <1>3, <2>1, <2>2, <2>6, <2>7, <2>8 DEF p
<1>4. QED BY <1>2, <1>3

(* A diff on a book.                                                       *)
LEMMA ApplyParts ==
  ASSUME NEW book \in Book, NEW ch \in Changes
  PROVE  /\ ApplyDiff(book, ch) \in Book
         /\ \A l \in Level : ApplyDiff(book, ch)[l] = IF l \in DOMAIN ch THEN ch[l] ELSE book[l]
         /\ ch = <<>> => ApplyDiff(book, ch) = book
         /\ ApplyDiff(ApplyDiff(book, ch), ch) = ApplyDiff(book, ch)
<1>1. PICK L \in SUBSET Level : ch \in [L -> 0..MaxU]
  BY DEF Changes
<1>2. DOMAIN ch \subseteq Level /\ DOMAIN book = Level
  BY <1>1 DEF Book
<1>3. ApplyDiff(book, ch) = [l \in Level |-> IF l \in DOMAIN ch THEN ch[l] ELSE book[l]]
  BY <1>2 DEF ApplyDiff, Over
<1>4. ASSUME NEW l \in Level PROVE (IF l \in DOMAIN ch THEN ch[l] ELSE book[l]) \in Nat
  BY <1>1, Constants DEF Book
<1>5. ApplyDiff(book, ch) \in Book
  BY <1>3, <1>4 DEF Book
<1>6. ch = <<>> => ApplyDiff(book, ch) = book
  <2> SUFFICES ASSUME ch = <<>> PROVE ApplyDiff(book, ch) = book
    OBVIOUS
  <2>1. DOMAIN ch = {}
    OBVIOUS
  <2>2. ApplyDiff(book, ch) = [l \in Level |-> book[l]]
    BY <1>3, <2>1
  <2>3. QED BY <2>2 DEF Book
<1>7. ApplyDiff(ApplyDiff(book, ch), ch)
        = [l \in Level |-> IF l \in DOMAIN ch THEN ch[l] ELSE ApplyDiff(book, ch)[l]]
  BY <1>2, <1>5 DEF ApplyDiff, Over, Book
<1>8. QED BY <1>3, <1>5, <1>6, <1>7

(* INSERT OR REPLACE: under each key one of the rows with that key, or the *)
(* old row if there is none.                                               *)
Replaces(table, rows, keys, n, old) ==
    /\ \A k \in DOMAIN table : \/ \E i \in 1..n : keys[i] = k /\ table[k] = rows[i]
                               \/ k \in DOMAIN old /\ table[k] = old[k]
    /\ \A i \in 1..n : /\ keys[i] \in DOMAIN table
                       /\ \E j \in 1..n : keys[j] = keys[i] /\ table[keys[i]] = rows[j]
    /\ \A k \in DOMAIN old : k \in DOMAIN table

(* The rows of a payload over a table replace it.                          *)
LEMMA ReplacedParts ==
  ASSUME NEW n \in Nat, NEW rows, DOMAIN rows = 1..n, NEW keys, DOMAIN keys = 1..n,
         NEW old, NEW table, table = Over(ByKey(rows, keys), old)
  PROVE  Replaces(table, rows, keys, n, old)
<1> DEFINE new == ByKey(rows, keys)
<1>1. \A k : k \in Range(keys) <=> \E i \in 1..n : keys[i] = k
  BY DEF Range
<1>2. DOMAIN new = Range(keys)
  BY DEF ByKey
<1>3. ASSUME NEW k \in Range(keys)
      PROVE  \E i \in 1..n : keys[i] = k /\ new[k] = rows[i]
  <2> DEFINE S == {i \in DOMAIN rows : keys[i] = k}
  <2>1. S # {} /\ S \in SUBSET (0..n)
    BY <1>1
  <2>2. Max(S) \in S
    <3> HIDE DEF S
    <3>1. QED BY <2>1, MaxOfSome
  <2>3. new[k] = rows[Max(S)]
    BY DEF ByKey
  <2> DEFINE m == Max(S)
  <2>4. m \in S /\ new[k] = rows[m]
    BY <2>2, <2>3
  <2> HIDE DEF m, new
  <2>5. m \in 1..n /\ keys[m] = k /\ new[k] = rows[m]
    BY <2>4
  <2>6. QED BY <2>5
<1> HIDE DEF new
<1>4. /\ DOMAIN table = DOMAIN new \cup DOMAIN old
      /\ \A k \in DOMAIN table : table[k] = IF k \in DOMAIN new THEN new[k] ELSE old[k]
  BY DEF Over, new
<1>5. ASSUME NEW k \in DOMAIN table
      PROVE  \/ \E i \in 1..n : keys[i] = k /\ table[k] = rows[i]
             \/ k \in DOMAIN old /\ table[k] = old[k]
  <2>1. CASE k \in Range(keys)
    BY <1>2, <1>3, <1>4, <2>1
  <2>2. CASE k \notin Range(keys)
    BY <1>2, <1>4, <2>2
  <2>3. QED BY <2>1, <2>2
<1>6. ASSUME NEW i \in 1..n
      PROVE  /\ keys[i] \in DOMAIN table
             /\ \E j \in 1..n : keys[j] = keys[i] /\ table[keys[i]] = rows[j]
  <2>1. keys[i] \in Range(keys)
    BY <1>1
  <2> DEFINE k == keys[i]
  <2> HIDE DEF k
  <2>2. k \in Range(keys)
    BY <2>1 DEF k
  <2>3. k \in DOMAIN new /\ k \in DOMAIN table /\ table[k] = new[k]
    BY <1>2, <1>4, <2>2
  <2>4. \E j \in 1..n : keys[j] = k /\ table[k] = rows[j]
    BY <1>3, <2>2, <2>3
  <2>5. QED BY <2>3, <2>4 DEF k
<1>7. QED BY <1>4, <1>5, <1>6 DEF Replaces

(* What a write leaves under each key, before the prune.                   *)
LEMMA InsertedParts ==
  ASSUME NEW payload \in Payload, NEW table, table = Inserted(payload)
  PROVE  /\ \A u \in DOMAIN table.deltas :
               \/ \E d \in Range(payload.deltas) : d.u = u /\ table.deltas[u] = d
               \/ u \in DOMAIN db.deltas /\ table.deltas[u] = db.deltas[u]
         /\ \A d \in Range(payload.deltas) :
               /\ d.u \in DOMAIN table.deltas
               /\ \E e \in Range(payload.deltas) : e.u = d.u /\ table.deltas[d.u] = e
         /\ \A u \in DOMAIN db.deltas : u \in DOMAIN table.deltas
         /\ \A t \in DOMAIN table.snaps :
               \/ \E s \in Range(payload.snaps) : s.ts = t /\ table.snaps[t] = s
               \/ t \in DOMAIN db.snaps /\ table.snaps[t] = db.snaps[t]
         /\ \A s \in Range(payload.snaps) :
               /\ s.ts \in DOMAIN table.snaps
               /\ \E r \in Range(payload.snaps) : r.ts = s.ts /\ table.snaps[s.ts] = r
         /\ \A t \in DOMAIN db.snaps : t \in DOMAIN table.snaps
<1>1. PICK ds \in Seq(Diff), ss \in Seq(Snap) : payload.deltas = ds /\ payload.snaps = ss
  BY DEF Payload
<1>2. DOMAIN ds = 1..Len(ds) /\ DOMAIN ss = 1..Len(ss) /\ Len(ds) \in Nat /\ Len(ss) \in Nat
  OBVIOUS
<1>3. PICK us : us = [i \in DOMAIN ds |-> ds[i].u]
  OBVIOUS
<1>4. PICK ts : ts = [i \in DOMAIN ss |-> ss[i].ts]
  OBVIOUS
<1>5. table.deltas = Over(ByKey(ds, us), db.deltas) /\ table.snaps = Over(ByKey(ss, ts), db.snaps)
  BY <1>1, <1>3, <1>4 DEF Inserted
<1>6. DOMAIN us = 1..Len(ds) /\ DOMAIN ts = 1..Len(ss)
  BY <1>2, <1>3, <1>4
<1>7. /\ \A i \in 1..Len(ds) : us[i] = ds[i].u
      /\ \A i \in 1..Len(ss) : ts[i] = ss[i].ts
  BY <1>2, <1>3, <1>4
<1>8. /\ \A d : d \in Range(ds) <=> \E i \in 1..Len(ds) : ds[i] = d
      /\ \A s : s \in Range(ss) <=> \E i \in 1..Len(ss) : ss[i] = s
  BY <1>2 DEF Range
<1>9. PICK old1, old2, new1, new2 : /\ old1 = db.deltas /\ old2 = db.snaps
                                    /\ new1 = table.deltas /\ new2 = table.snaps
  OBVIOUS
<1>10. Replaces(new1, ds, us, Len(ds), old1)
  <2>1. new1 = Over(ByKey(ds, us), old1)
    BY <1>5, <1>9
  <2>2. QED BY <1>2, <1>6, <2>1, ReplacedParts, Zenon
<1>11. Replaces(new2, ss, ts, Len(ss), old2)
  <2>1. new2 = Over(ByKey(ss, ts), old2)
    BY <1>5, <1>9
  <2>2. QED BY <1>2, <1>6, <2>1, ReplacedParts, Zenon
<1>12. /\ \A u \in DOMAIN new1 :
            \/ \E d \in Range(ds) : d.u = u /\ new1[u] = d
            \/ u \in DOMAIN old1 /\ new1[u] = old1[u]
       /\ \A d \in Range(ds) :
            d.u \in DOMAIN new1 /\ \E e \in Range(ds) : e.u = d.u /\ new1[d.u] = e
  <2>1. ASSUME NEW u \in DOMAIN new1
        PROVE  \/ \E d \in Range(ds) : d.u = u /\ new1[u] = d
               \/ u \in DOMAIN old1 /\ new1[u] = old1[u]
    <3>1. CASE \E i \in 1..Len(ds) : us[i] = u /\ new1[u] = ds[i]
      <4>1. PICK i \in 1..Len(ds) : us[i] = u /\ new1[u] = ds[i]
        BY <3>1
      <4>2. ds[i] \in Range(ds) /\ ds[i].u = u
        BY <1>7, <1>8, <4>1
      <4>3. QED BY <4>1, <4>2
    <3>2. CASE u \in DOMAIN old1 /\ new1[u] = old1[u]
      BY <3>2
    <3>3. QED BY <1>10, <3>1, <3>2 DEF Replaces
  <2>2. ASSUME NEW d \in Range(ds)
        PROVE  d.u \in DOMAIN new1 /\ \E e \in Range(ds) : e.u = d.u /\ new1[d.u] = e
    <3>1. PICK i \in 1..Len(ds) : ds[i] = d
      BY <1>8
    <3>2. us[i] = d.u
      BY <1>7, <3>1
    <3>3. PICK j \in 1..Len(ds) : us[j] = d.u /\ new1[d.u] = ds[j]
      BY <1>10, <3>2 DEF Replaces
    <3>4. ds[j] \in Range(ds) /\ ds[j].u = d.u
      BY <1>7, <1>8, <3>3
    <3>5. QED BY <1>10, <3>2, <3>3, <3>4 DEF Replaces
  <2>3. QED BY <2>1, <2>2
<1>13. /\ \A t \in DOMAIN new2 :
            \/ \E s \in Range(ss) : s.ts = t /\ new2[t] = s
            \/ t \in DOMAIN old2 /\ new2[t] = old2[t]
       /\ \A s \in Range(ss) :
            s.ts \in DOMAIN new2 /\ \E r \in Range(ss) : r.ts = s.ts /\ new2[s.ts] = r
  <2>1. ASSUME NEW t \in DOMAIN new2
        PROVE  \/ \E s \in Range(ss) : s.ts = t /\ new2[t] = s
               \/ t \in DOMAIN old2 /\ new2[t] = old2[t]
    <3>1. CASE \E i \in 1..Len(ss) : ts[i] = t /\ new2[t] = ss[i]
      <4>1. PICK i \in 1..Len(ss) : ts[i] = t /\ new2[t] = ss[i]
        BY <3>1
      <4>2. ss[i] \in Range(ss) /\ ss[i].ts = t
        BY <1>7, <1>8, <4>1
      <4>3. QED BY <4>1, <4>2
    <3>2. CASE t \in DOMAIN old2 /\ new2[t] = old2[t]
      BY <3>2
    <3>3. QED BY <1>11, <3>1, <3>2 DEF Replaces
  <2>2. ASSUME NEW s \in Range(ss)
        PROVE  s.ts \in DOMAIN new2 /\ \E r \in Range(ss) : r.ts = s.ts /\ new2[s.ts] = r
    <3>1. PICK i \in 1..Len(ss) : ss[i] = s
      BY <1>8
    <3>2. ts[i] = s.ts
      BY <1>7, <3>1
    <3>3. PICK j \in 1..Len(ss) : ts[j] = s.ts /\ new2[s.ts] = ss[j]
      BY <1>11, <3>2 DEF Replaces
    <3>4. ss[j] \in Range(ss) /\ ss[j].ts = s.ts
      BY <1>7, <1>8, <3>3
    <3>5. QED BY <1>11, <3>2, <3>3, <3>4 DEF Replaces
  <2>3. QED BY <2>1, <2>2
<1>14. (\A u \in DOMAIN old1 : u \in DOMAIN new1) /\ (\A t \in DOMAIN old2 : t \in DOMAIN new2)
  BY <1>10, <1>11 DEF Replaces
<1>15. QED BY <1>1, <1>9, <1>12, <1>13, <1>14

-----------------------------------------------------------------------------
(* Types.                                                                  *)

(* What a snapshot of the local book is, and where it goes.                *)
LEMMA CaptureParts ==
  ASSUME StreamTypes, BufferTypes, CaptureSnapshot
  PROVE  /\ SnapshotOf(local) \in Snap /\ SnapshotOf(local).u = lastU
         /\ SnapshotOf(local).ts = now /\ SnapshotOf(local).book = local
         /\ snapBuf' \in Seq(Snap) /\ Len(snapBuf') =< SnapCap
         /\ Range(snapBuf') \subseteq Range(snapBuf) \cup {SnapshotOf(local)}
         /\ ~HasBothSides(local) => snapBuf' = snapBuf
<1>1. /\ SnapshotOf(local) \in Snap /\ SnapshotOf(local).u = lastU
      /\ SnapshotOf(local).ts = now /\ SnapshotOf(local).book = local
  BY DEF StreamTypes, SnapshotOf, Snap
<1>2. CASE HasBothSides(local)
  <2>1. snapBuf' = Push(snapBuf, SnapshotOf(local), SnapCap)
    BY <1>2 DEF CaptureSnapshot
  <2>2. snapBuf \in Seq(Snap) /\ Len(snapBuf) =< SnapCap /\ SnapCap \in Nat \ {0}
    BY Constants DEF BufferTypes
  <2>3. /\ snapBuf' \in Seq(Snap) /\ Len(snapBuf') =< SnapCap
        /\ Range(snapBuf') \subseteq Range(snapBuf) \cup {SnapshotOf(local)}
    BY <1>1, <2>1, <2>2, PushParts
  <2>4. QED BY <1>1, <1>2, <2>3
<1>3. CASE ~HasBothSides(local)
  <2>1. snapBuf' = snapBuf
    BY <1>3 DEF CaptureSnapshot
  <2>2. QED BY <1>1, <2>1 DEF BufferTypes
<1>4. QED BY <1>2, <1>3

(* The diff a trade sends.                                                 *)
LEMMA TradeParts ==
  ASSUME StreamTypes, Trade
  PROVE  \E ch \in Changes :
            LET d == [u |-> Len(market) + 1, ts |-> now, ch |-> ch]
            IN  /\ Len(market) < MaxU /\ Last(market) \in Book /\ Last(market) = market[Len(market)]
                /\ market' = Append(market, ApplyDiff(Last(market), ch))
                /\ ApplyDiff(Last(market), ch) \in Book
                /\ d \in Diff /\ wire' = Append(wire, d)
<1> DEFINE u == Len(market) + 1
<1>1. market \in Seq(Book) /\ Len(market) \in 1..MaxU /\ now \in 0..MaxTime /\ MaxU \in Nat
  BY Constants DEF StreamTypes
<1>2. Last(market) \in Book /\ Last(market) = market[Len(market)]
  BY <1>1 DEF Last
<1>3. u =< MaxU /\ u \in 1..MaxU
  BY <1>1 DEF Trade
<1>4. PICK ch \in {<<>>} \cup UNION {[{l} -> {0, u}] : l \in Level} :
        /\ market' = Append(market, ApplyDiff(Last(market), ch))
        /\ wire' = Append(wire, [u |-> u, ts |-> now, ch |-> ch])
  BY DEF Trade
<1>5. ch \in Changes
  <2>1. CASE ch = <<>>
    <3>1. <<>> \in [{} -> 0..MaxU]
      OBVIOUS
    <3>2. {} \in SUBSET Level
      OBVIOUS
    <3>3. QED BY <2>1, <3>1, <3>2 DEF Changes
  <2>2. CASE ch # <<>>
    <3>1. PICK l \in Level : ch \in [{l} -> {0, u}]
      BY <2>2
    <3>2. {0, u} \subseteq 0..MaxU
      BY <1>1, <1>3
    <3>3. ch \in [{l} -> 0..MaxU] /\ {l} \in SUBSET Level
      BY <3>1, <3>2
    <3>4. QED BY <3>3 DEF Changes
  <2>3. QED BY <2>1, <2>2
<1>6. [u |-> u, ts |-> now, ch |-> ch] \in Diff
  BY <1>1, <1>3, <1>5 DEF Diff
<1>7. ApplyDiff(Last(market), ch) \in Book
  BY <1>2, <1>5, ApplyParts
<1>8. QED BY <1>1, <1>2, <1>3, <1>4, <1>5, <1>6, <1>7

(* The head of the wire, and what is left of it.                           *)
LEMMA WireParts ==
  ASSUME StreamTypes, wire # <<>>
  PROVE  /\ Head(wire) \in Diff /\ Head(wire) = wire[1] /\ Len(wire) \in Nat \ {0}
         /\ Tail(wire) \in Seq(Diff) /\ Len(Tail(wire)) = Len(wire) - 1
         /\ \A i \in 1..(Len(wire) - 1) : Tail(wire)[i] = wire[i + 1]
BY DEF StreamTypes

LEMMA StreamTypesNext ==
  ASSUME Types, [Next]_vars
  PROVE  StreamTypes'
<1> USE DEF Types
<1>1. CASE Tick
  BY <1>1, Constants DEF Tick, StreamTypes, stream
<1>2. CASE Trade
  <2>1. PICK ch \in Changes :
            LET d == [u |-> Len(market) + 1, ts |-> now, ch |-> ch]
            IN  /\ Len(market) < MaxU
                /\ market' = Append(market, ApplyDiff(Last(market), ch))
                /\ ApplyDiff(Last(market), ch) \in Book
                /\ d \in Diff /\ wire' = Append(wire, d)
    BY <1>2, TradeParts
  <2>2. market' \in Seq(Book) /\ Len(market') = Len(market) + 1
    BY <2>1 DEF StreamTypes
  <2>3. wire' \in Seq(Diff)
    BY <2>1 DEF StreamTypes
  <2>4. Len(market') \in 1..MaxU
    BY <2>1, <2>2, Constants DEF StreamTypes
  <2>5. QED BY <1>2, <2>2, <2>3, <2>4 DEF Trade, StreamTypes
<1>3. CASE Miss
  <2>1. wire' \in Seq(Diff)
    BY <1>3, WireParts DEF Miss
  <2>2. QED BY <1>3, <2>1 DEF Miss, StreamTypes
<1>4. CASE RestAnswer
  <2>1. EmptyBook \in Book
    BY DEF EmptyBook, Book
  <2>2. Last(market) \in Book
    BY DEF StreamTypes, Last
  <2>3. local' \in Book /\ base' \in 0..MaxU
    BY <1>4, <2>1, <2>2, Constants DEF RestAnswer, StreamTypes
  <2>4. lastU' = base' /\ base' =< lastU'
    BY <1>4, <2>3 DEF RestAnswer
  <2>5. QED BY <1>4, <2>3, <2>4 DEF RestAnswer, StreamTypes
<1>5. CASE Connect
  BY <1>5 DEF Connect, StreamTypes
<1>6. CASE Cut
  BY <1>6 DEF Cut, StreamTypes
<1>7. CASE Skip
  <2>1. wire' \in Seq(Diff)
    BY <1>7, WireParts DEF Skip
  <2>2. QED BY <1>7, <2>1 DEF Skip, StreamTypes
<1>8. CASE Deliver
  <2>1. wire' \in Seq(Diff) /\ Head(wire) \in Diff
    BY <1>8, WireParts DEF Deliver
  <2>2. Head(wire).ch \in Changes /\ Head(wire).u \in 1..MaxU
    BY <2>1 DEF Diff
  <2>3. local' \in Book
    BY <1>8, <2>2, ApplyParts DEF Deliver, StreamTypes
  <2>4. lastU' \in 0..MaxU /\ base' = base /\ base' =< lastU'
    BY <1>8, <2>2, Constants DEF Deliver, StreamTypes
  <2>5. QED BY <1>8, <2>1, <2>3, <2>4 DEF Deliver, StreamTypes
<1>9. CASE PeriodicSnapshot
  BY <1>9 DEF PeriodicSnapshot, StreamTypes, stream
<1>10. CASE Prepare \/ Commit \/ RollBack \/ UNCHANGED vars
  BY <1>10 DEF Prepare, Commit, RollBack, vars, StreamTypes, stream
<1>11. QED BY <1>1, <1>2, <1>3, <1>4, <1>5, <1>6, <1>7, <1>8, <1>9, <1>10 DEF Next

LEMMA BufferTypesNext ==
  ASSUME Types, [Next]_vars
  PROVE  BufferTypes'
<1> USE DEF Types
<1>1. CASE Connect \/ PeriodicSnapshot
  <2>1. CaptureSnapshot /\ UNCHANGED <<deltaBuf, write>>
    BY <1>1 DEF Connect, PeriodicSnapshot
  <2>2. snapBuf' \in Seq(Snap) /\ Len(snapBuf') =< SnapCap
    BY <2>1, CaptureParts
  <2>3. QED BY <2>1, <2>2 DEF BufferTypes
<1>2. CASE Deliver
  <2>1. Head(wire) \in Diff /\ deltaBuf \in Seq(Diff) /\ Len(deltaBuf) =< DeltaCap
    BY <1>2, WireParts DEF Deliver, BufferTypes
  <2>2. \/ deltaBuf' = deltaBuf
        \/ deltaBuf' = Push(deltaBuf, Head(wire), DeltaCap)
    BY <1>2 DEF Deliver
  <2>3. deltaBuf' \in Seq(Diff) /\ Len(deltaBuf') =< DeltaCap
    BY <2>1, <2>2, PushParts, Constants
  <2>4. UNCHANGED <<snapBuf, write>>
    BY <1>2 DEF Deliver
  <2>5. QED BY <2>3, <2>4 DEF BufferTypes
<1>3. CASE Prepare
  <2>1. write' \in Payload
    BY <1>3 DEF Prepare, BufferTypes, Payload
  <2>2. deltaBuf' = <<>> /\ snapBuf' = <<>>
    BY <1>3 DEF Prepare
  <2>3. deltaBuf' \in Seq(Diff) /\ Len(deltaBuf') =< DeltaCap
    BY <2>2, Constants
  <2>4. snapBuf' \in Seq(Snap) /\ Len(snapBuf') =< SnapCap
    BY <2>2, Constants
  <2>5. QED BY <2>1, <2>3, <2>4 DEF BufferTypes
<1>4. CASE Commit \/ RollBack
  BY <1>4 DEF Commit, RollBack, BufferTypes
<1>5. CASE Tick \/ Trade \/ Miss \/ RestAnswer \/ Cut \/ Skip \/ UNCHANGED vars
  BY <1>5 DEF Tick, Trade, Miss, RestAnswer, Cut, Skip, vars, BufferTypes
<1>6. QED BY <1>1, <1>2, <1>3, <1>4, <1>5 DEF Next

(* The tables after a write: the inserted rows the prune leaves.           *)
LEMMA CommitParts ==
  ASSUME Types, Commit, NEW table, table = Inserted(write)
  PROVE  /\ write \in Payload /\ write # None
         /\ DOMAIN db'.deltas = {u \in DOMAIN table.deltas : table.deltas[u].ts >= Cutoff}
         /\ \A u \in DOMAIN db'.deltas : db'.deltas[u] = table.deltas[u]
         /\ DOMAIN db'.snaps = KeptSnaps(table, Cutoff)
         /\ DOMAIN db'.snaps \subseteq DOMAIN table.snaps
         /\ \A t \in DOMAIN db'.snaps : db'.snaps[t] = table.snaps[t]
<1>1. write \in Payload /\ write # None
  BY DEF Types, BufferTypes, Commit
<1>2. db' = Pruned(table, Cutoff)
  BY DEF Commit
<1>3. /\ db'.deltas = [u \in {v \in DOMAIN table.deltas : table.deltas[v].ts >= Cutoff} |-> table.deltas[u]]
      /\ db'.snaps = [t \in KeptSnaps(table, Cutoff) |-> table.snaps[t]]
  BY <1>2 DEF Pruned, Restrict
<1>4. KeptSnaps(table, Cutoff) \subseteq DOMAIN table.snaps
  BY DEF KeptSnaps
<1>5. QED BY <1>1, <1>3, <1>4

LEMMA RowsAfterCommit ==
  ASSUME Types, Commit
  PROVE  /\ \A u \in DOMAIN db'.deltas :
               \/ \E d \in Range(write.deltas) : d.u = u /\ db'.deltas[u] = d
               \/ u \in DOMAIN db.deltas /\ db'.deltas[u] = db.deltas[u]
         /\ \A t \in DOMAIN db'.snaps :
               \/ \E s \in Range(write.snaps) : s.ts = t /\ db'.snaps[t] = s
               \/ t \in DOMAIN db.snaps /\ db'.snaps[t] = db.snaps[t]
<1>1. PICK table : table = Inserted(write)
  OBVIOUS
<1>2. /\ write \in Payload
      /\ DOMAIN db'.deltas = {u \in DOMAIN table.deltas : table.deltas[u].ts >= Cutoff}
      /\ \A u \in DOMAIN db'.deltas : db'.deltas[u] = table.deltas[u]
      /\ DOMAIN db'.snaps \subseteq DOMAIN table.snaps
      /\ \A t \in DOMAIN db'.snaps : db'.snaps[t] = table.snaps[t]
  BY <1>1, CommitParts
<1>3. /\ \A u \in DOMAIN table.deltas :
           \/ \E d \in Range(write.deltas) : d.u = u /\ table.deltas[u] = d
           \/ u \in DOMAIN db.deltas /\ table.deltas[u] = db.deltas[u]
      /\ \A t \in DOMAIN table.snaps :
           \/ \E s \in Range(write.snaps) : s.ts = t /\ table.snaps[t] = s
           \/ t \in DOMAIN db.snaps /\ table.snaps[t] = db.snaps[t]
  BY <1>1, <1>2, InsertedParts
<1>4. ASSUME NEW u \in DOMAIN db'.deltas
      PROVE  \/ \E d \in Range(write.deltas) : d.u = u /\ db'.deltas[u] = d
             \/ u \in DOMAIN db.deltas /\ db'.deltas[u] = db.deltas[u]
  <2>1. u \in DOMAIN table.deltas /\ db'.deltas[u] = table.deltas[u]
    BY <1>2
  <2>2. QED BY <1>3, <2>1
<1>5. ASSUME NEW t \in DOMAIN db'.snaps
      PROVE  \/ \E s \in Range(write.snaps) : s.ts = t /\ db'.snaps[t] = s
             \/ t \in DOMAIN db.snaps /\ db'.snaps[t] = db.snaps[t]
  <2>1. t \in DOMAIN table.snaps /\ db'.snaps[t] = table.snaps[t]
    BY <1>2
  <2>2. QED BY <1>3, <2>1
<1>6. QED BY <1>4, <1>5

(* The rows of a payload are diffs and snapshots.                          *)
LEMMA PayloadParts ==
  ASSUME NEW payload \in Payload
  PROVE  /\ Range(payload.deltas) \subseteq Diff /\ Range(payload.snaps) \subseteq Snap
         /\ payload.deltas \in Seq(Diff) /\ payload.snaps \in Seq(Snap)
<1>1. payload.deltas \in Seq(Diff) /\ payload.snaps \in Seq(Snap)
  BY DEF Payload
<1>2. QED BY <1>1, RangeOf

LEMMA TableTypesNext ==
  ASSUME Types, [Next]_vars
  PROVE  TableTypes'
<1>1. CASE Commit
  <2>1. write \in Payload
    BY <1>1 DEF Types, BufferTypes, Commit
  <2>2. Range(write.deltas) \subseteq Diff /\ Range(write.snaps) \subseteq Snap
    BY <2>1, PayloadParts
  <2>3. ASSUME NEW u \in DOMAIN db'.deltas
        PROVE  u \in 1..MaxU /\ db'.deltas[u] \in Diff /\ db'.deltas[u].u = u
    <3>1. CASE \E d \in Range(write.deltas) : d.u = u /\ db'.deltas[u] = d
      <4>1. PICK d \in Diff : d.u = u /\ db'.deltas[u] = d
        BY <2>2, <3>1
      <4>2. QED BY <4>1 DEF Diff
    <3>2. CASE u \in DOMAIN db.deltas /\ db'.deltas[u] = db.deltas[u]
      BY <3>2 DEF Types, TableTypes
    <3>3. QED BY <1>1, <3>1, <3>2, RowsAfterCommit
  <2>4. ASSUME NEW t \in DOMAIN db'.snaps
        PROVE  t \in 0..MaxTime /\ db'.snaps[t] \in Snap /\ db'.snaps[t].ts = t
    <3>1. CASE \E s \in Range(write.snaps) : s.ts = t /\ db'.snaps[t] = s
      <4>1. PICK s \in Snap : s.ts = t /\ db'.snaps[t] = s
        BY <2>2, <3>1
      <4>2. QED BY <4>1 DEF Snap
    <3>2. CASE t \in DOMAIN db.snaps /\ db'.snaps[t] = db.snaps[t]
      BY <3>2 DEF Types, TableTypes
    <3>3. QED BY <1>1, <3>1, <3>2, RowsAfterCommit
  <2>5. QED BY <2>3, <2>4 DEF TableTypes
<1>2. CASE Tick \/ Trade \/ Miss \/ RestAnswer \/ Connect \/ Cut \/ Skip \/ Deliver
           \/ PeriodicSnapshot \/ Prepare \/ RollBack \/ UNCHANGED vars
  <2>1. db' = db
    BY <1>2 DEF Tick, Trade, Miss, RestAnswer, Connect, Cut, Skip, Deliver, PeriodicSnapshot,
                Prepare, RollBack, vars
  <2>2. QED BY <2>1 DEF Types, TableTypes
<1>3. QED BY <1>1, <1>2 DEF Next

LEMMA GhostTypesNext ==
  ASSUME Types, [Next]_vars
  PROVE  GhostTypes'
<1> USE DEF Types
<1>1. CASE Miss
  <2>1. Head(wire).u \in 1..MaxU
    BY <1>1, WireParts DEF Miss, Diff
  <2>2. QED BY <1>1, <2>1 DEF Miss, GhostTypes
<1>2. CASE RestAnswer
  BY <1>2 DEF RestAnswer, GhostTypes
<1>3. CASE Deliver
  <2>1. Head(wire) \in Diff /\ Head(wire).u \in 1..MaxU
    BY <1>3, WireParts DEF Deliver, Diff
  <2>2. local' \in Book
    BY StreamTypesNext DEF StreamTypes
  <2>3. seen' = [v \in DOMAIN seen \cup {Head(wire).u} |->
                    IF v = Head(wire).u THEN local' ELSE seen[v]]
    BY <1>3 DEF Deliver
  <2>4. DOMAIN seen' \subseteq 1..MaxU /\ \A u \in DOMAIN seen' : seen'[u] \in Book
    BY <2>1, <2>2, <2>3 DEF GhostTypes
  <2>5. PushedOut(deltaBuf, DeltaCap) \subseteq 1..MaxU
    <3>1. deltaBuf \in Seq(Diff) /\ Len(deltaBuf) =< DeltaCap /\ Range(deltaBuf) \subseteq Diff
      BY RangeOf DEF BufferTypes
    <3>2. \A v \in PushedOut(deltaBuf, DeltaCap) : \E y \in Range(deltaBuf) : y.u = v
      BY <2>1, <3>1, PushParts, Constants
    <3>3. QED BY <3>1, <3>2 DEF Diff
  <2>6. lost' \subseteq 1..MaxU /\ missed' = missed
    BY <1>3, <2>5 DEF Deliver, GhostTypes
  <2>7. QED BY <2>4, <2>6 DEF GhostTypes
<1>4. CASE RollBack
  <2>1. Range(write.deltas) \subseteq Diff
    BY <1>4, PayloadParts DEF RollBack, BufferTypes
  <2>2. {d.u : d \in Range(write.deltas)} \subseteq 1..MaxU
    BY <2>1 DEF Diff
  <2>3. QED BY <1>4, <2>2 DEF RollBack, GhostTypes
<1>5. CASE Tick \/ Trade \/ Connect \/ Cut \/ Skip \/ PeriodicSnapshot \/ Prepare \/ Commit
           \/ UNCHANGED vars
  <2>1. UNCHANGED <<seen, lost, missed>>
    BY <1>5 DEF Tick, Trade, Connect, Cut, Skip, PeriodicSnapshot, Prepare, Commit, vars, ghosts
  <2>2. QED BY <2>1 DEF GhostTypes
<1>6. QED BY <1>1, <1>2, <1>3, <1>4, <1>5 DEF Next

LEMMA TypesNext ==
  ASSUME Types, [Next]_vars
  PROVE  Types'
BY StreamTypesNext, BufferTypesNext, TableTypesNext, GhostTypesNext DEF Types

-----------------------------------------------------------------------------
(* Where what is recorded comes from.                                      *)

(* A diff that arrives enters the buffer, a drain moves the buffer to the  *)
(* payload, a write moves the payload to the tables or drops it.           *)
LEMMA DiffPlaces ==
  ASSUME Types, [Next]_vars
  PROVE  \/ /\ Deliver /\ BufDiffs' \subseteq BufDiffs \cup {Head(wire)}
            /\ WriteDiffs' = WriteDiffs /\ DbDiffs' = DbDiffs
         \/ /\ Prepare /\ BufDiffs' = {} /\ WriteDiffs = {} /\ WriteDiffs' = BufDiffs
            /\ DbDiffs' = DbDiffs
         \/ /\ Commit /\ BufDiffs' = BufDiffs /\ WriteDiffs' = {} /\ WriteDiffs = Range(write.deltas)
            /\ DbDiffs' \subseteq DbDiffs \cup WriteDiffs
         \/ /\ RollBack /\ BufDiffs' = BufDiffs /\ WriteDiffs' = {} /\ WriteDiffs = Range(write.deltas)
            /\ DbDiffs' = DbDiffs
         \/ /\ ~Deliver /\ ~Commit /\ ~RollBack
            /\ BufDiffs' = BufDiffs /\ WriteDiffs' = WriteDiffs /\ DbDiffs' = DbDiffs
            /\ UNCHANGED <<db, local, lastU, seen, lost>> \/ RestAnswer
<1> USE DEF Types
<1>1. CASE Deliver
  <2>1. UNCHANGED <<write, db>>
    BY <1>1 DEF Deliver
  <2>2. WriteDiffs' = WriteDiffs /\ DbDiffs' = DbDiffs
    BY <2>1 DEF WriteDiffs, DbDiffs
  <2>3. Head(wire) \in Diff /\ deltaBuf \in Seq(Diff) /\ Len(deltaBuf) =< DeltaCap
    BY <1>1, WireParts DEF Deliver, BufferTypes
  <2>4. \/ deltaBuf' = deltaBuf
        \/ deltaBuf' = Push(deltaBuf, Head(wire), DeltaCap)
    BY <1>1 DEF Deliver
  <2>5. Range(deltaBuf') \subseteq Range(deltaBuf) \cup {Head(wire)}
    BY <2>3, <2>4, PushParts, Constants
  <2>6. BufDiffs' \subseteq BufDiffs \cup {Head(wire)}
    BY <2>5 DEF BufDiffs
  <2>7. QED BY <1>1, <2>2, <2>6
<1>2. CASE Prepare
  <2>1. Range(deltaBuf') = {}
    BY <1>2 DEF Prepare, Range
  <2>2. write' = [deltas |-> deltaBuf, snaps |-> snapBuf] /\ write' # None
    <3>1. write' = [deltas |-> deltaBuf, snaps |-> snapBuf]
      BY <1>2 DEF Prepare
    <3>2. write' \in Payload
      BY <3>1 DEF BufferTypes, Payload
    <3>3. QED BY <3>1, <3>2, Constants
  <2>3. WriteDiffs' = BufDiffs
    BY <2>2 DEF WriteDiffs, BufDiffs
  <2>4. DbDiffs' = DbDiffs /\ WriteDiffs = {}
    BY <1>2 DEF Prepare, DbDiffs, WriteDiffs
  <2>5. BufDiffs' = {}
    BY <2>1 DEF BufDiffs
  <2>6. QED BY <1>2, <2>3, <2>4, <2>5
<1>3. CASE Commit
  <2>1. BufDiffs' = BufDiffs /\ WriteDiffs' = {} /\ WriteDiffs = Range(write.deltas)
    BY <1>3 DEF Commit, BufDiffs, WriteDiffs
  <2>2. ASSUME NEW d \in DbDiffs' PROVE d \in DbDiffs \cup WriteDiffs
    <3>1. PICK u \in DOMAIN db'.deltas : d = db'.deltas[u]
      BY DEF DbDiffs
    <3>2. QED BY <1>3, <2>1, <3>1, RowsAfterCommit DEF DbDiffs
  <2>3. QED BY <1>3, <2>1, <2>2
<1>4. CASE RollBack
  BY <1>4 DEF RollBack, BufDiffs, WriteDiffs, DbDiffs
<1>5. CASE Tick \/ Trade \/ Miss \/ RestAnswer \/ Connect \/ Cut \/ Skip \/ PeriodicSnapshot
           \/ UNCHANGED vars
  <2>1. UNCHANGED <<deltaBuf, write, db>>
    BY <1>5 DEF Tick, Trade, Miss, RestAnswer, Connect, Cut, Skip, PeriodicSnapshot, vars
  <2>2. BufDiffs' = BufDiffs /\ WriteDiffs' = WriteDiffs /\ DbDiffs' = DbDiffs
    BY <2>1 DEF BufDiffs, WriteDiffs, DbDiffs
  <2>3. UNCHANGED <<local, lastU, seen, lost>> \/ RestAnswer
    BY <1>5 DEF Tick, Trade, Miss, Connect, Cut, Skip, PeriodicSnapshot, vars, stream, ghosts
  <2>4. QED BY <1>1, <1>3, <1>4, <2>1, <2>2, <2>3
<1>6. QED BY <1>1, <1>2, <1>3, <1>4, <1>5 DEF Next

(* The same for a snapshot, whose book is the local book of now.           *)
LEMMA SnapPlaces ==
  ASSUME Types, [Next]_vars
  PROVE  \/ /\ Connect \/ PeriodicSnapshot
            /\ BufSnaps' \subseteq BufSnaps \cup {SnapshotOf(local)}
            /\ ~HasBothSides(local) => BufSnaps' = BufSnaps
            /\ WriteSnaps' = WriteSnaps /\ DbSnaps' = DbSnaps
         \/ /\ Prepare /\ BufSnaps' = {} /\ WriteSnaps = {} /\ WriteSnaps' = BufSnaps
            /\ DbSnaps' = DbSnaps
         \/ /\ Commit /\ BufSnaps' = BufSnaps /\ WriteSnaps' = {} /\ WriteSnaps = Range(write.snaps)
            /\ DbSnaps' \subseteq DbSnaps \cup WriteSnaps
         \/ /\ BufSnaps' = BufSnaps /\ WriteSnaps' \subseteq WriteSnaps /\ DbSnaps' = DbSnaps
            /\ ~Connect /\ ~PeriodicSnapshot /\ db' = db
<1> USE DEF Types
<1>1. CASE Connect \/ PeriodicSnapshot
  <2>1. CaptureSnapshot /\ UNCHANGED <<write, db>>
    BY <1>1 DEF Connect, PeriodicSnapshot
  <2>2. WriteSnaps' = WriteSnaps /\ DbSnaps' = DbSnaps
    BY <2>1 DEF WriteSnaps, DbSnaps
  <2>3. /\ BufSnaps' \subseteq BufSnaps \cup {SnapshotOf(local)}
        /\ ~HasBothSides(local) => BufSnaps' = BufSnaps
    BY <2>1, CaptureParts DEF BufSnaps
  <2>4. QED BY <1>1, <2>2, <2>3
<1>2. CASE Prepare
  <2>1. Range(snapBuf') = {}
    BY <1>2 DEF Prepare, Range
  <2>2. write' = [deltas |-> deltaBuf, snaps |-> snapBuf] /\ write' # None
    <3>1. write' = [deltas |-> deltaBuf, snaps |-> snapBuf]
      BY <1>2 DEF Prepare
    <3>2. write' \in Payload
      BY <3>1 DEF BufferTypes, Payload
    <3>3. QED BY <3>1, <3>2, Constants
  <2>3. WriteSnaps' = BufSnaps
    BY <2>2 DEF WriteSnaps, BufSnaps
  <2>4. DbSnaps' = DbSnaps /\ WriteSnaps = {}
    BY <1>2 DEF Prepare, DbSnaps, WriteSnaps
  <2>5. BufSnaps' = {}
    BY <2>1 DEF BufSnaps
  <2>6. QED BY <1>2, <2>3, <2>4, <2>5
<1>3. CASE Commit
  <2>1. BufSnaps' = BufSnaps /\ WriteSnaps' = {} /\ WriteSnaps = Range(write.snaps)
    BY <1>3 DEF Commit, BufSnaps, WriteSnaps
  <2>2. ASSUME NEW s \in DbSnaps' PROVE s \in DbSnaps \cup WriteSnaps
    <3>1. PICK t \in DOMAIN db'.snaps : s = db'.snaps[t]
      BY DEF DbSnaps
    <3>2. QED BY <1>3, <2>1, <3>1, RowsAfterCommit DEF DbSnaps
  <2>3. QED BY <1>3, <2>1, <2>2
<1>4. CASE RollBack
  <2>1. UNCHANGED <<snapBuf, db>> /\ write' = None
    BY <1>4 DEF RollBack
  <2>2. BufSnaps' = BufSnaps /\ WriteSnaps' = {} /\ DbSnaps' = DbSnaps
    BY <2>1 DEF BufSnaps, WriteSnaps, DbSnaps
  <2>3. QED BY <1>1, <2>1, <2>2
<1>5. CASE Tick \/ Trade \/ Miss \/ RestAnswer \/ Cut \/ Skip \/ Deliver \/ UNCHANGED vars
  <2>1. UNCHANGED <<snapBuf, write, db>>
    BY <1>5 DEF Tick, Trade, Miss, RestAnswer, Cut, Skip, Deliver, vars
  <2>2. BufSnaps' = BufSnaps /\ WriteSnaps' = WriteSnaps /\ DbSnaps' = DbSnaps
    BY <2>1 DEF BufSnaps, WriteSnaps, DbSnaps
  <2>3. QED BY <1>1, <2>1, <2>2
<1>6. QED BY <1>1, <1>2, <1>3, <1>4, <1>5 DEF Next

(* A step records at most one new diff, the head of the wire, and one new  *)
(* snapshot, the local book of now.                                        *)
LEMMA DiffsFlow ==
  ASSUME Types, [Next]_vars
  PROVE  \A d \in Diffs' : d \in Diffs \/ (Deliver /\ d = Head(wire) /\ d \in BufDiffs')
BY DiffPlaces DEF Diffs

LEMMA SnapsFlow ==
  ASSUME Types, [Next]_vars
  PROVE  \A s \in Snaps' :
            \/ s \in Snaps
            \/ /\ Connect \/ PeriodicSnapshot
               /\ HasBothSides(local) /\ s = SnapshotOf(local) /\ s \in BufSnaps'
BY SnapPlaces DEF Snaps

(* The link is booting only until the REST answer.                         *)
LEMMA LinkOnce ==
  ASSUME [Next]_vars
  PROVE  /\ link' = "boot" => link = "boot"
         /\ link = "boot" =>
              RestAnswer \/ (/\ UNCHANGED <<link, local, base, lastU, seen>>
                             /\ ~Connect /\ ~Deliver)
<1>1. CASE RestAnswer
  BY <1>1 DEF RestAnswer
<1>2. CASE Connect \/ Cut \/ Skip \/ Deliver
  BY <1>2 DEF Connect, Cut, Skip, Deliver
<1>3. CASE Tick \/ Trade \/ Miss \/ PeriodicSnapshot \/ Prepare \/ Commit \/ RollBack
           \/ UNCHANGED vars
  <2>1. UNCHANGED <<link, local, base, lastU, seen>>
    BY <1>3 DEF Tick, Trade, Miss, PeriodicSnapshot, Prepare, Commit, RollBack, vars, stream, ghosts
  <2>2. link = "boot" => ~Connect /\ ~Deliver
    BY DEF Connect, Deliver
  <2>3. QED BY <2>1, <2>2
<1>4. QED BY <1>1, <1>2, <1>3 DEF Next

-----------------------------------------------------------------------------
(* A snapshot is what had arrived.                                         *)

(* What the types say of the stream's variables.                           *)
LEMMA StreamFacts ==
  ASSUME Types
  PROVE  /\ market \in Seq(Book) /\ Len(market) \in 1..MaxU /\ wire \in Seq(Diff) /\ Len(wire) \in Nat
         /\ now \in Nat /\ MaxU \in Nat /\ base \in Nat /\ lastU \in Nat /\ base =< lastU
         /\ \A i \in DOMAIN wire : wire[i] \in Diff /\ wire[i].u \in Nat /\ wire[i].ts \in Nat
<1>1. wire \in Seq(Diff) /\ MaxU \in Nat /\ MaxTime \in Nat
  BY Constants DEF Types, StreamTypes
<1>2. \A i \in DOMAIN wire : wire[i] \in Diff
  BY <1>1
<1>3. \A d \in Diff : d.u \in Nat /\ d.ts \in Nat
  BY <1>1 DEF Diff
<1>4. QED BY <1>1, <1>2, <1>3 DEF Types, StreamTypes

LEMMA WireIsTheTailNext ==
  ASSUME Types, WireIsTheTail, [Next]_vars
  PROVE  WireIsTheTail'
<1>1. /\ market \in Seq(Book) /\ Len(market) \in 1..MaxU /\ wire \in Seq(Diff) /\ Len(wire) \in Nat
      /\ now \in Nat /\ \A i \in DOMAIN wire : wire[i].u \in Nat /\ wire[i].ts \in Nat
  BY StreamFacts
<1>2. CASE Tick
  <2>1. now' = now + 1 /\ UNCHANGED <<market, wire>>
    BY <1>2 DEF Tick, stream
  <2>2. QED BY <1>1, <2>1 DEF WireIsTheTail
<1>3. CASE Trade
  <2>1. PICK ch \in Changes :
            LET d == [u |-> Len(market) + 1, ts |-> now, ch |-> ch]
            IN  /\ Last(market) = market[Len(market)]
                /\ market' = Append(market, ApplyDiff(Last(market), ch))
                /\ wire' = Append(wire, d)
    BY <1>3, TradeParts DEF Types
  <2>2. /\ Len(market') = Len(market) + 1 /\ Len(wire') = Len(wire) + 1
        /\ \A k \in 1..Len(market) : market'[k] = market[k]
        /\ market'[Len(market) + 1] = ApplyDiff(market[Len(market)], ch)
        /\ DOMAIN wire' = 1..(Len(wire) + 1)
        /\ \A i \in 1..Len(wire) : wire'[i] = wire[i]
        /\ wire'[Len(wire) + 1] = [u |-> Len(market) + 1, ts |-> now, ch |-> ch]
    BY <1>1, <2>1
  <2>3. ASSUME NEW i \in DOMAIN wire'
        PROVE  /\ wire'[i].u = (Len(market') - Len(wire')) + i /\ wire'[i].ts =< now
               /\ market'[wire'[i].u] = ApplyDiff(market'[wire'[i].u - 1], wire'[i].ch)
    <3>1. CASE i = Len(wire) + 1
      BY <1>1, <2>2, <3>1
    <3>2. CASE i # Len(wire) + 1
      <4>1. i \in DOMAIN wire /\ i \in 1..Len(wire) /\ wire'[i] = wire[i]
        BY <1>1, <2>2, <3>2
      <4>2. /\ wire[i].u = (Len(market) - Len(wire)) + i /\ wire[i].ts =< now
            /\ market[wire[i].u] = ApplyDiff(market[wire[i].u - 1], wire[i].ch)
            /\ Len(wire) < Len(market)
        BY <4>1 DEF WireIsTheTail
      <4>3. wire[i].u \in 1..Len(market) /\ wire[i].u - 1 \in 1..Len(market)
        BY <1>1, <4>1, <4>2
      <4>4. QED BY <1>1, <2>2, <4>1, <4>2, <4>3
    <3>3. QED BY <3>1, <3>2
  <2>4. now' = now
    BY <1>3 DEF Trade
  <2>5. Len(wire') < Len(market')
    BY <1>1, <2>2 DEF WireIsTheTail
  <2>6. QED BY <2>3, <2>4, <2>5 DEF WireIsTheTail
<1>4. CASE Miss \/ Skip \/ Deliver
  <2>1. wire # <<>> /\ wire' = Tail(wire) /\ UNCHANGED <<market, now>>
    BY <1>4 DEF Miss, Skip, Deliver
  <2>2. /\ Len(wire') = Len(wire) - 1 /\ Len(wire) > 0 /\ DOMAIN wire' = 1..(Len(wire) - 1)
        /\ \A i \in 1..(Len(wire) - 1) : wire'[i] = wire[i + 1]
    BY <1>1, <2>1
  <2>3. ASSUME NEW i \in DOMAIN wire'
        PROVE  /\ wire'[i].u = (Len(market) - Len(wire')) + i /\ wire'[i].ts =< now
               /\ market[wire'[i].u] = ApplyDiff(market[wire'[i].u - 1], wire'[i].ch)
    <3>1. i + 1 \in DOMAIN wire /\ wire'[i] = wire[i + 1]
      BY <1>1, <2>2
    <3>2. /\ wire[i + 1].u = (Len(market) - Len(wire)) + (i + 1) /\ wire[i + 1].ts =< now
          /\ market[wire[i + 1].u] = ApplyDiff(market[wire[i + 1].u - 1], wire[i + 1].ch)
      BY <3>1 DEF WireIsTheTail
    <3>3. (Len(market) - Len(wire)) + (i + 1) = (Len(market) - Len(wire')) + i
      BY <1>1, <2>2
    <3>4. QED BY <3>1, <3>2, <3>3
  <2>4. Len(wire') < Len(market)
    BY <1>1, <2>2 DEF WireIsTheTail
  <2>5. QED BY <2>1, <2>3, <2>4 DEF WireIsTheTail
<1>5. CASE RestAnswer \/ Connect \/ Cut \/ PeriodicSnapshot \/ Prepare \/ Commit \/ RollBack
           \/ UNCHANGED vars
  <2>1. UNCHANGED <<market, wire, now>>
    BY <1>5 DEF RestAnswer, Connect, Cut, PeriodicSnapshot, Prepare, Commit, RollBack, vars, stream
  <2>2. QED BY <2>1 DEF WireIsTheTail
<1>6. QED BY <1>2, <1>3, <1>4, <1>5 DEF Next

(* The head of the wire is the update after the last one that left it.     *)
LEMMA HeadIsNext ==
  ASSUME Types, WireIsTheTail, wire # <<>>
  PROVE  /\ Head(wire).u = Len(market) - Len(wire) + 1 /\ Head(wire).u \in 2..Len(market)
         /\ Head(wire).u - 1 \in 1..Len(market) /\ Head(wire).ts =< now
         /\ market[Head(wire).u] = ApplyDiff(market[Head(wire).u - 1], Head(wire).ch)
         /\ 1 \in DOMAIN wire /\ Head(wire) = wire[1]
<1>1. market \in Seq(Book) /\ Len(market) \in Nat /\ wire \in Seq(Diff) /\ Len(wire) \in Nat \ {0}
      /\ Head(wire) = wire[1] /\ 1 \in DOMAIN wire
  BY DEF Types, StreamTypes
<1>2. /\ wire[1].u = (Len(market) - Len(wire)) + 1 /\ wire[1].ts =< now
      /\ market[wire[1].u] = ApplyDiff(market[wire[1].u - 1], wire[1].ch)
      /\ Len(wire) < Len(market)
  BY <1>1 DEF WireIsTheTail
<1>3. QED BY <1>1, <1>2

LEMMA BootIsEmptyNext ==
  ASSUME Types, BootIsEmpty, [Next]_vars
  PROVE  BootIsEmpty'
<1> SUFFICES ASSUME link' = "boot"
             PROVE  /\ local' = EmptyBook /\ base' = 0 /\ lastU' = 0 /\ DOMAIN seen' = {}
                    /\ Snaps' = {} /\ Diffs' = {}
  BY DEF BootIsEmpty
<1>1. link = "boot" /\ ~RestAnswer
  BY LinkOnce DEF RestAnswer
<1>2. UNCHANGED <<link, local, base, lastU, seen>> /\ ~Connect /\ ~Deliver
  BY <1>1, LinkOnce
<1>3. local = EmptyBook /\ base = 0 /\ lastU = 0 /\ DOMAIN seen = {} /\ Snaps = {} /\ Diffs = {}
  BY <1>1 DEF BootIsEmpty
<1>4. ~HasBothSides(local)
  BY <1>3 DEF HasBothSides, EmptyBook, Level
<1>5. Snaps' = {}
  BY <1>3, <1>4, SnapsFlow
<1>6. Diffs' = {}
  BY <1>2, <1>3, DiffsFlow
<1>7. QED BY <1>2, <1>3, <1>5, <1>6

(* A delivered diff is the next update after the local book's, or the very *)
(* update of the REST answer.                                              *)
LEMMA DeliverFollows ==
  ASSUME Types, WireIsTheTail, LocalKnows, Deliver
  PROVE  /\ Head(wire).u > lastU \/ (Head(wire).u = lastU /\ lastU = base)
         /\ lastU =< Head(wire).u /\ base =< Head(wire).u
<1>1. wire # <<>> /\ Head(wire).u >= base
  BY DEF Deliver
<1>2. Head(wire) = wire[1] /\ 1 \in DOMAIN wire /\ Head(wire).u \in Nat
  BY <1>1, HeadIsNext DEF Types, StreamTypes
<1>3. Head(wire).u > lastU \/ lastU = base
  BY <1>2 DEF LocalKnows
<1>4. lastU \in Nat /\ base \in Nat
  BY DEF Types, StreamTypes
<1>5. QED BY <1>1, <1>2, <1>3, <1>4

LEMMA LocalKnowsNext ==
  ASSUME Types, Types', WireIsTheTail, WireIsTheTail', BootIsEmpty, LocalKnows, [Next]_vars
  PROVE  LocalKnows'
<1>1. /\ market \in Seq(Book) /\ Len(market) \in 1..MaxU /\ wire \in Seq(Diff) /\ Len(wire) \in Nat
      /\ \A i \in DOMAIN wire : wire[i].u \in Nat
      /\ base \in Nat /\ lastU \in Nat /\ MaxU \in Nat /\ base =< lastU
      /\ missed \subseteq 1..MaxU /\ Len(wire) < Len(market)
  BY StreamFacts DEF Types, GhostTypes, WireIsTheTail
<1>2. /\ lastU =< Len(market)
      /\ \A v \in missed : v > base
      /\ base > 0 => \A v \in 1..MaxU : lastU < v /\ v =< Len(market) - Len(wire) => v \in missed
      /\ base > 0 /\ (\A v \in missed : v > lastU) => local = market[lastU]
      /\ \A i \in DOMAIN wire : wire[i].u > lastU \/ lastU = base
  BY DEF LocalKnows
<1>3. CASE Trade
  <2>1. PICK ch \in Changes :
            LET d == [u |-> Len(market) + 1, ts |-> now, ch |-> ch]
            IN  /\ market' = Append(market, ApplyDiff(Last(market), ch))
                /\ wire' = Append(wire, d)
    BY <1>3, TradeParts DEF Types
  <2>2. UNCHANGED <<link, local, base, lastU, missed>>
    BY <1>3 DEF Trade, ghosts
  <2>3. /\ Len(market') = Len(market) + 1 /\ Len(wire') = Len(wire) + 1
        /\ \A k \in 1..Len(market) : market'[k] = market[k]
        /\ DOMAIN wire' = 1..(Len(wire) + 1) /\ DOMAIN wire = 1..Len(wire)
        /\ \A i \in 1..Len(wire) : wire'[i] = wire[i]
        /\ wire'[Len(wire) + 1].u = Len(market) + 1
    BY <1>1, <2>1
  <2>4. base > 0 => lastU \in 1..Len(market)
    BY <1>1, <1>2
  <2>5. \A i \in DOMAIN wire' : wire'[i].u > lastU \/ lastU = base
    <3> TAKE i \in DOMAIN wire'
    <3>1. CASE i = Len(wire) + 1
      BY <1>1, <1>2, <2>3, <3>1
    <3>2. CASE i # Len(wire) + 1
      BY <1>1, <1>2, <2>3, <3>2
    <3>3. QED BY <3>1, <3>2
  <2>6. lastU =< Len(market')
    BY <1>1, <1>2, <2>3
  <2>7. Len(market') - Len(wire') = Len(market) - Len(wire)
    BY <1>1, <2>3
  <2>8. base > 0 /\ (\A v \in missed : v > lastU) => local = market'[lastU]
    BY <1>2, <2>3, <2>4
  <2>9. QED BY <1>2, <2>2, <2>5, <2>6, <2>7, <2>8 DEF LocalKnows
<1>4. CASE Miss \/ Skip
  <2>1. wire # <<>> /\ wire' = Tail(wire) /\ UNCHANGED <<market, link, local, base, lastU>>
    BY <1>4 DEF Miss, Skip
  <2> DEFINE h == Head(wire).u
  <2>2. h = Len(market) - Len(wire) + 1 /\ h \in 2..Len(market)
    BY <2>1, HeadIsNext
  <2>3. missed' = missed \cup {u \in {h} : u > base} \/ (missed' = missed /\ h < base)
    BY <1>4 DEF Miss, Skip, ghosts
  <2>4. /\ Len(wire') = Len(wire) - 1 /\ DOMAIN wire' = 1..(Len(wire) - 1) /\ DOMAIN wire = 1..Len(wire)
        /\ \A i \in 1..(Len(wire) - 1) : wire'[i] = wire[i + 1]
    BY <1>1, <2>1
  <2> HIDE DEF h
  <2>5. \A i \in DOMAIN wire' : wire'[i].u > lastU \/ lastU = base
    <3> TAKE i \in DOMAIN wire'
    <3>1. i + 1 \in DOMAIN wire /\ wire'[i] = wire[i + 1]
      BY <1>1, <2>4
    <3>2. QED BY <1>2, <3>1
  <2>6. missed \subseteq missed' /\ \A v \in missed' : v > base
    BY <1>2, <2>3
  <2>7. ASSUME base > 0, NEW v \in 1..MaxU, lastU < v, v =< Len(market) - Len(wire')
        PROVE  v \in missed'
    <3>1. CASE v =< Len(market) - Len(wire)
      BY <1>2, <2>6, <2>7, <3>1
    <3>2. CASE ~(v =< Len(market) - Len(wire))
      <4>1. v = h
        <5>1. \A m, w, k \in Nat : ~(k =< m - w) /\ k =< m - (w - 1) => k = m - w + 1
          OBVIOUS
        <5>2. v \in Nat /\ Len(market) \in Nat /\ Len(wire) \in Nat
          BY <1>1
        <5>3. v =< Len(market) - (Len(wire) - 1)
          BY <2>1, <2>4, <2>7
        <5>4. v = Len(market) - Len(wire) + 1
          BY <3>2, <5>1, <5>2, <5>3
        <5>5. QED BY <2>2, <5>4
      <4>2. h > base
        BY <1>1, <2>7, <4>1
      <4>3. QED BY <1>1, <2>2, <2>3, <4>1, <4>2
    <3>3. QED BY <3>1, <3>2
  <2>8. QED BY <1>2, <2>1, <2>5, <2>6, <2>7 DEF LocalKnows
<1>5. CASE RestAnswer
  <2>1. missed' = {} /\ lastU' = base' /\ UNCHANGED <<market, wire>>
    BY <1>5 DEF RestAnswer
  <2>2. \/ local' = Last(market) /\ base' = Len(market)
        \/ base' = 0
    BY <1>5 DEF RestAnswer
  <2>3. Last(market) = market[Len(market)]
    BY DEF Last
  <2>4. lastU' =< Len(market)
    BY <1>1, <2>1, <2>2
  <2>5. base' > 0 => \A v \in 1..MaxU : ~(lastU' < v /\ v =< Len(market) - Len(wire))
    <3> SUFFICES ASSUME base' > 0, NEW v \in 1..MaxU, lastU' < v, v =< Len(market) - Len(wire)
                 PROVE  FALSE
      OBVIOUS
    <3>1. lastU' = Len(market)
      BY <2>1, <2>2
    <3>2. QED BY <1>1, <3>1
  <2>6. base' > 0 => local' = market[lastU']
    BY <2>1, <2>2, <2>3
  <2>7. QED BY <2>1, <2>4, <2>5, <2>6 DEF LocalKnows
<1>6. CASE Deliver
  <2>1. wire # <<>> /\ wire' = Tail(wire) /\ UNCHANGED <<market, base, missed>>
        /\ local' = ApplyDiff(local, Head(wire).ch) /\ lastU' = Head(wire).u
    BY <1>6 DEF Deliver
  <2> DEFINE d == Head(wire)
             h == Head(wire).u
  <2>2. /\ h = Len(market) - Len(wire) + 1 /\ h \in 2..Len(market) /\ h - 1 \in 1..Len(market)
        /\ market[h] = ApplyDiff(market[h - 1], d.ch)
    BY <2>1, HeadIsNext
  <2>3. h > lastU \/ (h = lastU /\ lastU = base)
    BY <1>6, DeliverFollows
  <2>4. d.ch \in Changes
    BY <2>1, WireParts DEF Types, Diff
  <2>5. /\ Len(wire') = Len(wire) - 1 /\ DOMAIN wire' = 1..(Len(wire) - 1)
        /\ \A i \in 1..(Len(wire) - 1) : wire'[i] = wire[i + 1]
    BY <1>1, <2>1
  <2> HIDE DEF d, h
  <2>6. ASSUME base > 0, \A v \in missed : v > h
        PROVE  local' = market[h]
    <3>1. \A v \in missed : v > lastU
      BY <1>1, <2>2, <2>3, <2>6
    <3>2. local = market[lastU]
      BY <1>2, <2>6, <3>1
    <3>3. CASE h > lastU
      <4>1. lastU = h - 1
        <5> SUFFICES ASSUME lastU # h - 1 PROVE FALSE
          OBVIOUS
        <5>1. lastU < h - 1 /\ h - 1 \in 1..MaxU /\ h - 1 =< Len(market) - Len(wire)
          BY <1>1, <2>2, <3>3
        <5>2. h - 1 \in missed
          BY <1>2, <2>6, <5>1
        <5>3. QED BY <2>2, <2>6, <5>2
      <4>2. QED BY <2>1, <2>2, <3>2, <4>1 DEF d
    <3>4. CASE h = lastU
      <4>1. market[h - 1] \in Book
        BY <1>1, <2>2
      <4>2. ApplyDiff(ApplyDiff(market[h - 1], d.ch), d.ch) = ApplyDiff(market[h - 1], d.ch)
        BY <2>4, <4>1, ApplyParts
      <4>3. local = ApplyDiff(market[h - 1], d.ch)
        BY <2>2, <3>2, <3>4
      <4>4. QED BY <2>1, <2>2, <4>2, <4>3 DEF d
    <3>5. QED BY <2>3, <3>3, <3>4
  <2>7. ASSUME NEW i \in DOMAIN wire' PROVE wire'[i].u > h
    <3>1. wire'[i].u = (Len(market') - Len(wire')) + i
      BY DEF WireIsTheTail
    <3>2. i \in 1..(Len(wire) - 1) /\ Len(market') = Len(market)
      BY <2>1, <2>5
    <3>3. QED BY <1>1, <2>2, <2>5, <3>1, <3>2
  <2>8. \A v \in 1..MaxU : ~(h < v /\ v =< Len(market) - Len(wire'))
    BY <1>1, <2>2, <2>5
  <2>9. lastU' = h /\ h =< Len(market)
    BY <2>1, <2>2 DEF h
  <2>10. QED BY <1>2, <2>1, <2>6, <2>7, <2>8, <2>9 DEF LocalKnows
<1>7. CASE Tick \/ Connect \/ Cut \/ PeriodicSnapshot \/ Prepare \/ Commit \/ RollBack
           \/ UNCHANGED vars
  <2>1. UNCHANGED <<market, wire, local, base, lastU, missed>>
    BY <1>7 DEF Tick, Connect, Cut, PeriodicSnapshot, Prepare, Commit, RollBack, vars, stream, ghosts
  <2>2. QED BY <2>1 DEF LocalKnows
<1>8. QED BY <1>3, <1>4, <1>5, <1>6, <1>7 DEF Next

(* The base of the ids changes with the REST answer only, what was missed  *)
(* and the last id only grow after it, and the exchange's past stays.      *)
LEMMA StreamOnlyGrows ==
  ASSUME Types, WireIsTheTail, LocalKnows, [Next]_vars, ~RestAnswer
  PROVE  /\ base' = base /\ missed \subseteq missed' /\ lastU =< lastU'
         /\ \A k \in 1..Len(market) : market'[k] = market[k]
<1>1. lastU \in Nat
  BY DEF Types, StreamTypes
<1>2. CASE Trade
  <2>1. PICK ch \in Changes : market' = Append(market, ApplyDiff(Last(market), ch))
    BY <1>2, TradeParts DEF Types
  <2>2. \A k \in 1..Len(market) : market'[k] = market[k]
    BY <2>1 DEF Types, StreamTypes
  <2>3. QED BY <1>1, <1>2, <2>2 DEF Trade, ghosts
<1>3. CASE Miss
  BY <1>1, <1>3 DEF Miss
<1>4. CASE Deliver
  <2>1. lastU =< lastU'
    BY <1>4, DeliverFollows DEF Deliver
  <2>2. UNCHANGED <<base, missed, market>>
    BY <1>4 DEF Deliver
  <2>3. QED BY <2>1, <2>2
<1>5. CASE Tick \/ Connect \/ Cut \/ Skip \/ PeriodicSnapshot \/ Prepare \/ Commit \/ RollBack
           \/ UNCHANGED vars
  <2>1. UNCHANGED <<market, base, lastU, missed>>
    BY <1>5 DEF Tick, Connect, Cut, Skip, PeriodicSnapshot, Prepare, Commit, RollBack, vars, stream,
                ghosts
  <2>2. QED BY <1>1, <2>1
<1>6. QED BY <1>2, <1>3, <1>4, <1>5 DEF Next

(* What is recorded anywhere is a diff or a snapshot.                      *)
LEMMA RecordedTypes ==
  ASSUME Types
  PROVE  Diffs \subseteq Diff /\ Snaps \subseteq Snap
<1>1. BufDiffs \subseteq Diff /\ BufSnaps \subseteq Snap
  BY RangeOf DEF Types, BufferTypes, BufDiffs, BufSnaps
<1>2. WriteDiffs \subseteq Diff /\ WriteSnaps \subseteq Snap
  BY PayloadParts DEF Types, BufferTypes, WriteDiffs, WriteSnaps
<1>3. DbDiffs \subseteq Diff /\ DbSnaps \subseteq Snap
  BY DEF Types, TableTypes, DbDiffs, DbSnaps
<1>4. QED BY <1>1, <1>2, <1>3 DEF Diffs, Snaps

LEMMA SnapsKnowNext ==
  ASSUME Types, WireIsTheTail, BootIsEmpty, LocalKnows, SnapsKnow, [Next]_vars
  PROVE  SnapsKnow'
<1>1. CASE RestAnswer
  <2>1. Snaps = {} /\ ~Connect /\ ~PeriodicSnapshot
    BY <1>1 DEF RestAnswer, BootIsEmpty, Connect, PeriodicSnapshot, stream
  <2>2. Snaps' = {}
    BY <2>1, SnapsFlow
  <2>3. QED BY <2>2 DEF SnapsKnow
<1>2. CASE ~RestAnswer
  <2>1. /\ base' = base /\ missed \subseteq missed' /\ lastU =< lastU'
        /\ \A k \in 1..Len(market) : market'[k] = market[k]
    BY <1>2, StreamOnlyGrows
  <2>2. /\ base \in Nat /\ lastU \in Nat /\ lastU' \in Nat /\ base =< lastU /\ lastU =< Len(market)
        /\ Len(market) \in Nat
    BY TypesNext DEF Types, StreamTypes, LocalKnows
  <2>3. ASSUME NEW s \in Snaps'
        PROVE  /\ base' =< s.u /\ s.u =< lastU'
               /\ base' > 0 /\ (\A v \in missed' : v > s.u) => s.book = market'[s.u]
    <3>1. /\ base =< s.u /\ s.u =< lastU /\ s.u \in Nat
          /\ base > 0 /\ (\A v \in missed : v > s.u) => s.book = market[s.u]
      <4>1. CASE s \in Snaps
        <5>1. s \in Snap
          BY <4>1, RecordedTypes
        <5>2. QED BY <4>1, <5>1 DEF SnapsKnow, Snap
      <4>2. CASE s = SnapshotOf(local)
        <5>1. s.u = lastU /\ s.book = local
          BY <4>2 DEF SnapshotOf
        <5>2. QED BY <2>2, <5>1 DEF LocalKnows
      <4>3. QED BY <4>1, <4>2, SnapsFlow
    <3>2. base > 0 => s.u \in 1..Len(market)
      BY <2>2, <3>1
    <3>3. QED BY <2>1, <2>2, <3>1, <3>2
  <2>4. QED BY <2>3 DEF SnapsKnow
<1>3. QED BY <1>1, <1>2

LEMMA KnowInit ==
  ASSUME Init
  PROVE  KnowIInv
<1>1. /\ MaxU \in Nat \ {0} /\ MaxTime \in Nat /\ DeltaCap \in Nat /\ SnapCap \in Nat
  BY Constants
<1>2. [l \in Level |-> 1] \in Book /\ EmptyBook \in Book
  BY DEF Book, EmptyBook
<1>3. StreamTypes
  <2>1. market \in Seq(Book) /\ Len(market) = 1
    BY <1>2 DEF Init
  <2>2. wire \in Seq(Diff)
    BY DEF Init
  <2>3. QED BY <1>1, <1>2, <2>1, <2>2 DEF Init, StreamTypes
<1>4. BufferTypes
  <2>1. deltaBuf \in Seq(Diff) /\ Len(deltaBuf) = 0 /\ snapBuf \in Seq(Snap) /\ Len(snapBuf) = 0
    BY DEF Init
  <2>2. QED BY <1>1, <2>1 DEF Init, BufferTypes
<1>5. DOMAIN db.deltas = {} /\ DOMAIN db.snaps = {}
  BY DEF Init, EmptyDb
<1>6. Snaps = {} /\ Diffs = {}
  BY <1>5 DEF Init, Snaps, Diffs, BufSnaps, BufDiffs, WriteSnaps, WriteDiffs, DbSnaps, DbDiffs, Range
<1>7. DOMAIN seen = {} /\ lost = {} /\ missed = {}
  BY DEF Init
<1>8. Types
  BY <1>3, <1>4, <1>5, <1>7 DEF Types, TableTypes, GhostTypes
<1>9. WireIsTheTail
  <2>1. Len(wire) = 0 /\ DOMAIN wire = {} /\ Len(market) = 1
    BY DEF Init
  <2>2. QED BY <2>1 DEF WireIsTheTail
<1>10. BootIsEmpty
  BY <1>6, <1>7 DEF Init, BootIsEmpty
<1>11. LocalKnows
  <2>1. DOMAIN wire = {} /\ Len(market) = 1 /\ base = 0 /\ lastU = 0
    BY DEF Init
  <2>2. QED BY <1>7, <2>1 DEF LocalKnows
<1>12. SnapsKnow
  BY <1>6 DEF SnapsKnow
<1>13. QED BY <1>8, <1>9, <1>10, <1>11, <1>12 DEF KnowIInv

LEMMA KnowNext ==
  ASSUME KnowIInv, [Next]_vars
  PROVE  KnowIInv'
<1> USE DEF KnowIInv
<1>1. Types'
  BY TypesNext
<1>2. WireIsTheTail'
  BY WireIsTheTailNext
<1>3. BootIsEmpty'
  BY BootIsEmptyNext
<1>4. LocalKnows'
  BY <1>1, <1>2, LocalKnowsNext
<1>5. SnapsKnow'
  BY SnapsKnowNext
<1>6. QED BY <1>1, <1>2, <1>3, <1>4, <1>5

LEMMA KnowTrue ==
  ASSUME KnowIInv
  PROVE  TypeOK /\ SnapshotsKnowWhatArrived
<1> USE DEF KnowIInv, Types
<1>1. TypeOK
  <2>1. /\ now \in 0..MaxTime /\ Len(market) \in 1..MaxU /\ link \in {"boot", "down", "up"}
        /\ local \in Book /\ base \in 0..MaxU /\ lastU \in base..MaxU
    BY Constants DEF StreamTypes
  <2>2. Range(wire) \subseteq Diff /\ Range(deltaBuf) \subseteq Diff /\ Range(snapBuf) \subseteq Snap
    BY RangeOf DEF StreamTypes, BufferTypes
  <2>3. QED BY <2>1, <2>2 DEF BufferTypes, TableTypes, GhostTypes, TypeOK
<1>2. SnapshotsKnowWhatArrived
  <2> SUFFICES ASSUME NEW t \in DOMAIN db.snaps, base > 0, \A v \in missed : v > db.snaps[t].u
               PROVE  db.snaps[t].book = market[db.snaps[t].u]
    BY DEF SnapshotsKnowWhatArrived
  <2>1. db.snaps[t] \in Snaps
    BY DEF Snaps, DbSnaps
  <2>2. QED BY <2>1 DEF SnapsKnow
<1>3. QED BY <1>1, <1>2

(* Every recorded snapshot is a copy of the exchange's book at its update  *)
(* id unless a diff since the REST answer and up to that id was missed:    *)
(* the diff that REST and stream both carry is applied twice and changes   *)
(* nothing, and no capture, cut, write or prune moves a book from its id.  *)
(* In every state, in addition, the buffers keep their bounds.             *)
THEOREM SnapshotsHold == Spec => [](TypeOK /\ SnapshotsKnowWhatArrived)
<1>1. Init => KnowIInv
  BY KnowInit
<1>2. KnowIInv /\ [Next]_vars => KnowIInv'
  BY KnowNext
<1>3. KnowIInv => TypeOK /\ SnapshotsKnowWhatArrived
  BY KnowTrue
<1>4. QED BY <1>1, <1>2, <1>3, PTL DEF Spec

-----------------------------------------------------------------------------
(* The order of what is recorded.                                          *)

(* A delivery is no other step.                                            *)
LEMMA DeliverIsAlone ==
  ASSUME Types, Deliver
  PROVE  ~Connect /\ ~PeriodicSnapshot /\ ~Prepare /\ ~Commit /\ ~RollBack
<1>1. Len(Tail(wire)) = Len(wire) - 1 /\ Len(wire) \in Nat
  BY WireParts DEF Deliver, Types
<1>2. wire' = Tail(wire)
  BY DEF Deliver
<1>3. Len(wire') = Len(wire) - 1
  BY <1>1, <1>2
<1>4. Len(wire) - 1 # Len(wire)
  BY <1>1
<1>5. wire' # wire
  BY <1>3, <1>4
<1>6. QED BY <1>5 DEF Connect, PeriodicSnapshot, Prepare, Commit, RollBack, stream

LEMMA DiffsInOrderNext ==
  ASSUME KnowIInv, KnowIInv', DiffsInOrder, [Next]_vars
  PROVE  DiffsInOrder'
<1> USE DEF KnowIInv
<1>1. CASE Deliver
  <2> DEFINE h == Head(wire)
  <2>1. /\ wire # <<>> /\ lastU' = h.u
        /\ seen' = [v \in DOMAIN seen \cup {h.u} |-> IF v = h.u THEN local' ELSE seen[v]]
    BY <1>1 DEF Deliver
  <2>2. /\ BufDiffs' \subseteq BufDiffs \cup {h} /\ WriteDiffs' = WriteDiffs /\ DbDiffs' = DbDiffs
    BY <1>1, DiffPlaces, DeliverIsAlone
  <2>3. 1 \in DOMAIN wire /\ h = wire[1] /\ h.u \in Nat /\ h.u = Len(market) - Len(wire) + 1
    BY <2>1, HeadIsNext
  <2>4. /\ Len(wire') = Len(wire) - 1 /\ wire' \in Seq(Diff) /\ market' = market
        /\ Len(wire) \in Nat /\ Len(market) \in Nat
    BY <1>1, <2>1, StreamFacts, WireParts DEF Deliver, Types
  <2> HIDE DEF h
  <2>5. DOMAIN seen' = DOMAIN seen \cup {h.u}
    BY <2>1
  <2>6. \A u \in DOMAIN seen : u < h.u /\ u \in Nat
    BY <2>3 DEF DiffsInOrder, Types, GhostTypes
  <2>7. \A d \in Diffs : d.u < h.u /\ d.u \in Nat
    BY <2>6 DEF DiffsInOrder
  <2>8. \A d \in Diffs' : d.u \in DOMAIN seen'
    BY <2>2, <2>5 DEF DiffsInOrder, Diffs
  <2>9. ASSUME NEW u \in DOMAIN seen'
        PROVE  u =< lastU' /\ \A i \in DOMAIN wire' : u < wire'[i].u
    <3>1. u =< h.u /\ u \in Nat
      BY <2>3, <2>5, <2>6
    <3>2. ASSUME NEW i \in DOMAIN wire' PROVE h.u < wire'[i].u /\ wire'[i].u \in Nat
      <4>1. wire'[i].u = (Len(market') - Len(wire')) + i /\ i \in 1..(Len(wire) - 1)
        BY <2>4 DEF WireIsTheTail
      <4>2. QED BY <2>3, <2>4, <4>1
    <3>3. QED BY <2>1, <2>3, <3>1, <3>2
  <2>10. ASSUME NEW d \in Diffs', NEW e \in Diffs', d.u = e.u PROVE d = e
    <3>1. (d \in Diffs \/ d = h) /\ (e \in Diffs \/ e = h)
      BY <2>2 DEF Diffs
    <3>2. d \in Diffs => d.u # h.u
      BY <2>3, <2>7
    <3>3. e \in Diffs => e.u # h.u
      BY <2>3, <2>7
    <3>4. CASE d \in Diffs /\ e \in Diffs
      BY <2>10, <3>4 DEF DiffsInOrder
    <3>5. QED BY <2>10, <3>1, <3>2, <3>3, <3>4
  <2>11. ASSUME NEW d \in DbDiffs', NEW e \in WriteDiffs' \cup BufDiffs' PROVE d.u < e.u
    <3>1. d \in DbDiffs /\ (e \in WriteDiffs \cup BufDiffs \/ e = h) /\ d \in Diffs
      BY <2>2 DEF Diffs
    <3>2. QED BY <2>7, <3>1 DEF DiffsInOrder
  <2>12. ASSUME NEW d \in WriteDiffs', NEW e \in BufDiffs' PROVE d.u < e.u
    <3>1. d \in WriteDiffs /\ (e \in BufDiffs \/ e = h) /\ d \in Diffs
      BY <2>2 DEF Diffs
    <3>2. QED BY <2>7, <3>1 DEF DiffsInOrder
  <2>13. QED BY <2>8, <2>9, <2>10, <2>11, <2>12 DEF DiffsInOrder
<1>2. CASE RestAnswer
  <2>1. DOMAIN seen' = {}
    BY <1>2 DEF RestAnswer, BootIsEmpty
  <2>2. Diffs' = {}
    <3>1. Diffs = {} /\ ~Deliver
      BY <1>2 DEF RestAnswer, BootIsEmpty, Deliver
    <3>2. QED BY <3>1, DiffsFlow
  <2>3. BufDiffs' = {} /\ WriteDiffs' = {} /\ DbDiffs' = {}
    BY <2>2 DEF Diffs
  <2>4. QED BY <2>1, <2>2, <2>3 DEF DiffsInOrder
<1>3. CASE ~Deliver /\ ~RestAnswer
  <2>1. /\ Diffs' \subseteq Diffs
        /\ DbDiffs' \subseteq DbDiffs \cup WriteDiffs
        /\ \A d \in DbDiffs' : \A e \in WriteDiffs' \cup BufDiffs' : d.u < e.u
        /\ \A d \in WriteDiffs' : \A e \in BufDiffs' : d.u < e.u
    <3>1. CASE Prepare /\ BufDiffs' = {} /\ WriteDiffs' = BufDiffs /\ DbDiffs' = DbDiffs
      BY <3>1 DEF DiffsInOrder, Diffs
    <3>2. CASE BufDiffs' = BufDiffs /\ WriteDiffs' = {} /\ DbDiffs' \subseteq DbDiffs \cup WriteDiffs
      BY <3>2 DEF DiffsInOrder, Diffs
    <3>3. CASE BufDiffs' = BufDiffs /\ WriteDiffs' = WriteDiffs /\ DbDiffs' = DbDiffs
      BY <3>3 DEF DiffsInOrder, Diffs
    <3>4. QED BY <1>3, <3>1, <3>2, <3>3, DiffPlaces
  <2>2. seen' = seen /\ lastU' = lastU
    BY <1>3 DEF Next, Tick, Trade, Miss, Connect, Cut, Skip, PeriodicSnapshot, Prepare, Commit,
                RollBack, vars, stream, ghosts
  <2>3. ASSUME NEW u \in DOMAIN seen', NEW i \in DOMAIN wire' PROVE u < wire'[i].u
    <3>0. u \in Nat /\ \A k \in DOMAIN wire : u < wire[k].u
      BY <2>2 DEF DiffsInOrder, Types, GhostTypes
    <3>1. CASE Trade
      <4>1. PICK ch \in Changes :
                LET d == [u |-> Len(market) + 1, ts |-> now, ch |-> ch] IN wire' = Append(wire, d)
        BY <3>1, TradeParts DEF Types
      <4>2. wire \in Seq(Diff) /\ Len(wire) \in Nat /\ Len(market) \in Nat /\ lastU \in Nat
            /\ lastU =< Len(market) /\ u =< lastU
        BY <2>2, StreamFacts DEF LocalKnows, DiffsInOrder
      <4>3. (wire'[i] = wire[i] /\ i \in DOMAIN wire) \/ wire'[i].u = Len(market) + 1
        BY <4>1, <4>2
      <4>4. QED BY <3>0, <4>2, <4>3
    <3>2. CASE wire # <<>> /\ wire' = Tail(wire)
      <4>1. wire \in Seq(Diff)
        BY StreamFacts
      <4>2. i + 1 \in DOMAIN wire /\ wire'[i] = wire[i + 1]
        BY <3>2, <4>1
      <4>3. QED BY <3>0, <4>2
    <3>3. CASE wire' = wire
      BY <3>0, <3>3
    <3>4. QED BY <1>3, <3>1, <3>2, <3>3 DEF Next, Tick, Miss, Connect, Cut, Skip, PeriodicSnapshot,
                Prepare, Commit, RollBack, vars, stream
  <2>4. QED BY <2>1, <2>2, <2>3 DEF DiffsInOrder
<1>4. QED BY <1>1, <1>2, <1>3

LEMMA SeenEndsNext ==
  ASSUME KnowIInv, SeenEnds, [Next]_vars
  PROVE  SeenEnds'
<1>1. CASE Deliver
  <2>1. seen' = [v \in DOMAIN seen \cup {lastU'} |-> IF v = lastU' THEN local' ELSE seen[v]]
    BY <1>1 DEF Deliver
  <2>2. QED BY <2>1 DEF SeenEnds
<1>2. CASE RestAnswer
  BY <1>2 DEF RestAnswer, KnowIInv, BootIsEmpty, SeenEnds
<1>3. CASE ~Deliver /\ ~RestAnswer
  <2>1. UNCHANGED <<seen, local, lastU>>
    BY <1>3 DEF Next, Tick, Trade, Miss, Connect, Cut, Skip, PeriodicSnapshot, Prepare, Commit,
                RollBack, vars, stream, ghosts
  <2>2. QED BY <2>1 DEF SeenEnds
<1>4. QED BY <1>1, <1>2, <1>3

(* The fields of what is recorded.                                         *)
LEMMA RecordedFacts ==
  ASSUME Types
  PROVE  /\ \A d \in Diffs : d.u \in Nat /\ d.ts \in Nat /\ d.ch \in Changes
         /\ \A s \in Snaps : s.u \in Nat /\ s.ts \in Nat /\ s.book \in Book
<1>1. MaxU \in Nat /\ MaxTime \in Nat
  BY Constants
<1>2. \A d \in Diff : d.u \in Nat /\ d.ts \in Nat /\ d.ch \in Changes
  BY <1>1 DEF Diff
<1>3. \A s \in Snap : s.u \in Nat /\ s.ts \in Nat /\ s.book \in Book
  BY <1>1 DEF Snap
<1>4. QED BY <1>2, <1>3, RecordedTypes

(* What a step does to the clock and to the wire.                          *)
LEMMA ClockAndWire ==
  ASSUME Types, [Next]_vars
  PROVE  /\ now =< now' /\ (~Tick => now' = now)
         /\ \A i \in DOMAIN wire' : \/ \E k \in DOMAIN wire : wire'[i] = wire[k]
                                    \/ Trade /\ wire'[i].u = Len(market) + 1 /\ wire'[i].ts = now
<1>1. now \in Nat /\ wire \in Seq(Diff) /\ Len(wire) \in Nat
  BY StreamFacts
<1>2. CASE Tick
  BY <1>1, <1>2 DEF Tick, stream
<1>3. CASE Trade
  <2>1. PICK ch \in Changes :
            LET d == [u |-> Len(market) + 1, ts |-> now, ch |-> ch] IN wire' = Append(wire, d)
    BY <1>3, TradeParts DEF Types
  <2>2. ASSUME NEW i \in DOMAIN wire'
        PROVE  \/ \E k \in DOMAIN wire : wire'[i] = wire[k]
               \/ wire'[i].u = Len(market) + 1 /\ wire'[i].ts = now
    <3>1. CASE i \in DOMAIN wire
      BY <1>1, <2>1, <3>1
    <3>2. CASE i \notin DOMAIN wire
      <4>1. i = Len(wire) + 1
        BY <1>1, <2>1, <3>2
      <4>2. QED BY <1>1, <2>1, <4>1
    <3>3. QED BY <3>1, <3>2
  <2>3. now' = now
    BY <1>3 DEF Trade
  <2>4. QED BY <1>1, <1>3, <2>2, <2>3
<1>4. CASE Miss \/ Skip \/ Deliver
  <2>1. wire # <<>> /\ wire' = Tail(wire) /\ now' = now
    BY <1>4 DEF Miss, Skip, Deliver
  <2>2. \A i \in DOMAIN wire' : i + 1 \in DOMAIN wire /\ wire'[i] = wire[i + 1]
    BY <1>1, <2>1
  <2>3. QED BY <1>1, <2>1, <2>2
<1>5. CASE RestAnswer \/ Connect \/ Cut \/ PeriodicSnapshot \/ Prepare \/ Commit \/ RollBack
           \/ UNCHANGED vars
  <2>1. wire' = wire /\ now' = now
    BY <1>5 DEF RestAnswer, Connect, Cut, PeriodicSnapshot, Prepare, Commit, RollBack, vars, stream
  <2>2. QED BY <1>1, <2>1
<1>6. QED BY <1>2, <1>3, <1>4, <1>5 DEF Next

LEMMA SnapsInOrderNext ==
  ASSUME ~SnapInFlight, KnowIInv, DiffsInOrder, SnapsInOrder, [Next]_vars
  PROVE  SnapsInOrder'
<1> USE DEF KnowIInv
<1>1. CASE RestAnswer
  <2>1. Diffs = {} /\ Snaps = {} /\ ~Deliver /\ ~Connect /\ ~PeriodicSnapshot
    BY <1>1 DEF RestAnswer, BootIsEmpty, Deliver, Connect, PeriodicSnapshot, stream
  <2>2. Diffs' = {} /\ Snaps' = {}
    BY <2>1, DiffsFlow, SnapsFlow
  <2>3. BufSnaps' = {}
    BY <2>2 DEF Snaps
  <2>4. QED BY <2>2, <2>3 DEF SnapsInOrder
<1>2. CASE ~RestAnswer
  <2>1. /\ \A d \in Diffs : d.u \in Nat /\ d.ts \in Nat
        /\ \A s \in Snaps : s.u \in Nat /\ s.ts \in Nat
        /\ \A i \in DOMAIN wire : wire[i].u \in Nat /\ wire[i].ts \in Nat
        /\ now \in Nat /\ lastU \in Nat /\ base \in Nat
    BY RecordedFacts, StreamFacts
  <2>2. /\ \A d \in Diffs : d.u =< lastU /\ d.ts < now
        /\ \A s \in Snaps : s.u =< lastU /\ base =< s.u /\ s.ts =< now /\ (s.u < lastU => s.ts < now)
    BY DEF DiffsInOrder, SnapsInOrder, SnapsKnow
  <2>3. lastU =< lastU' /\ now =< now' /\ lastU' \in Nat /\ now' \in Nat
    BY <1>2, StreamOnlyGrows, ClockAndWire, TypesNext, StreamFacts DEF Types, StreamTypes
  <2>4. ASSUME NEW s \in Snaps', s \notin Snaps
        PROVE  /\ s.u = lastU /\ s.ts = now /\ (\A i \in DOMAIN wire : wire[i].u =< s.u)
               /\ UNCHANGED <<wire, now, lastU>> /\ Diffs' \subseteq Diffs
    <3>1. (Connect \/ PeriodicSnapshot) /\ s = SnapshotOf(local)
      BY <2>4, SnapsFlow
    <3>2. Quiet /\ UNCHANGED <<wire, now, lastU>> /\ ~Deliver
      BY <3>1 DEF Connect, PeriodicSnapshot, Deliver, stream
    <3>3. QED BY <3>1, <3>2, DiffsFlow DEF SnapshotOf, Quiet
  <2>5. ASSUME NEW d \in Diffs', d \notin Diffs
        PROVE  /\ Deliver /\ d = Head(wire) /\ lastU' = d.u /\ d.ts < now /\ now' = now
               /\ 1 \in DOMAIN wire /\ d = wire[1] /\ d.u \in Nat /\ d.ts \in Nat
               /\ lastU =< d.u /\ Snaps' \subseteq Snaps
    <3>1. Deliver /\ d = Head(wire)
      BY <2>5, DiffsFlow
    <3>2. wire # <<>> /\ lastU' = d.u /\ d.ts < now /\ now' = now /\ ~Connect /\ ~PeriodicSnapshot
      BY <3>1, DeliverIsAlone DEF Deliver
    <3>3. 1 \in DOMAIN wire /\ d = wire[1]
      BY <3>1, <3>2, HeadIsNext
    <3>4. lastU =< d.u
      BY <3>1, DeliverFollows
    <3>5. Snaps' \subseteq Snaps
      BY <3>2, SnapsFlow
    <3>6. QED BY <2>1, <3>1, <3>2, <3>3, <3>4, <3>5
  <2>6. ASSUME NEW s \in BufSnaps', NEW d \in WriteDiffs' \cup DbDiffs'
        PROVE  d.u =< s.u
    <3>1. d \in WriteDiffs \cup DbDiffs \cup BufDiffs /\ (d \in BufDiffs \ (WriteDiffs \cup DbDiffs) => BufSnaps' = {})
      <4>1. CASE Prepare
        <5>1. BufSnaps' = {}
          BY <4>1 DEF Prepare, BufSnaps, Range
        <5>2. QED BY <5>1
      <4>2. CASE ~Prepare
        BY <4>2, DiffPlaces
      <4>3. QED BY <4>1, <4>2
    <3>2. d \in WriteDiffs \cup DbDiffs /\ d \in Diffs
      BY <3>1 DEF Diffs
    <3>3. CASE s \in BufSnaps
      BY <3>2, <3>3 DEF SnapsInOrder
    <3>4. CASE s \notin BufSnaps
      <4>1. (Connect \/ PeriodicSnapshot) /\ s = SnapshotOf(local)
        BY <3>4, SnapPlaces
      <4>2. s.u = lastU
        BY <4>1 DEF SnapshotOf
      <4>3. QED BY <2>2, <3>2, <4>2
    <3>5. QED BY <3>3, <3>4
  <2>7. ASSUME NEW s \in Snaps' PROVE s.ts =< now' /\ (s.u < lastU' => s.ts < now')
    <3>1. CASE s \in Snaps
      <4>1. CASE s.u < lastU
        BY <2>1, <2>2, <2>3, <3>1, <4>1
      <4>2. CASE ~(s.u < lastU) /\ Deliver
        <5>1. s.u = lastU /\ wire # <<>> /\ Head(wire).ts < now /\ lastU' = Head(wire).u /\ now' = now
          BY <2>1, <2>2, <3>1, <4>2 DEF Deliver
        <5>2. Head(wire) = wire[1] /\ 1 \in DOMAIN wire
          BY <5>1, HeadIsNext
        <5>3. wire[1].u > s.u => wire[1].ts >= s.ts
          BY <3>1, <5>2 DEF SnapsInOrder
        <5>4. QED BY <2>1, <2>2, <3>1, <5>1, <5>2, <5>3
      <4>3. CASE ~(s.u < lastU) /\ ~Deliver
        <5>1. lastU' = lastU
          BY <1>2, <4>3 DEF Next, Tick, Trade, Miss, Connect, Cut, Skip, PeriodicSnapshot, Prepare,
                Commit, RollBack, vars, stream
        <5>2. QED BY <2>1, <2>2, <2>3, <3>1, <4>3, <5>1
      <4>4. QED BY <4>1, <4>2, <4>3
    <3>2. CASE s \notin Snaps
      BY <2>1, <2>4, <3>2
    <3>3. QED BY <3>1, <3>2
  <2>8. ASSUME NEW s \in Snaps', NEW r \in Snaps', s.u < r.u PROVE s.ts < r.ts
    <3>1. CASE s \in Snaps /\ r \in Snaps
      BY <2>8, <3>1 DEF SnapsInOrder
    <3>2. CASE s \in Snaps /\ r \notin Snaps
      BY <2>2, <2>4, <2>8, <3>2
    <3>3. CASE s \notin Snaps /\ r \in Snaps
      <4>1. s.u = lastU /\ r.u =< lastU /\ r.u \in Nat
        BY <2>1, <2>2, <2>4, <3>3
      <4>2. QED BY <2>1, <2>8, <4>1
    <3>4. CASE s \notin Snaps /\ r \notin Snaps
      <4>1. s.u = lastU /\ r.u = lastU
        BY <2>4, <3>4
      <4>2. QED BY <2>1, <2>8, <4>1
    <3>5. QED BY <3>1, <3>2, <3>3, <3>4
  <2>9. ASSUME NEW s \in Snaps', NEW d \in Diffs'
        PROVE  (d.u < s.u => d.ts < s.ts) /\ (d.u > s.u => d.ts >= s.ts)
    <3>1. CASE d \in Diffs /\ s \in Snaps
      BY <3>1 DEF SnapsInOrder
    <3>2. CASE d \in Diffs /\ s \notin Snaps
      <4>1. s.u = lastU /\ s.ts = now /\ d.u =< lastU /\ d.ts < now /\ d.u \in Nat /\ d.ts \in Nat
        BY <2>1, <2>2, <2>4, <3>2
      <4>2. QED BY <2>1, <4>1
    <3>3. CASE d \notin Diffs
      <4>1. /\ d.u \in Nat /\ d.ts \in Nat /\ lastU =< d.u /\ s \in Snaps /\ 1 \in DOMAIN wire /\ d = wire[1]
        BY <2>5, <3>3
      <4>2. s.u =< lastU /\ s.u \in Nat /\ s.ts \in Nat
        BY <2>1, <2>2, <4>1
      <4>3. wire[1].u > s.u => wire[1].ts >= s.ts
        BY <4>1 DEF SnapsInOrder
      <4>4. QED BY <2>1, <4>1, <4>2, <4>3
    <3>4. QED BY <3>1, <3>2, <3>3
  <2>10. ASSUME NEW d \in Diffs' PROVE d.ts < now'
    <3>1. d.ts < now /\ d.ts \in Nat
      <4>1. CASE d \in Diffs
        BY <2>1, <2>2, <4>1
      <4>2. CASE d \notin Diffs
        BY <2>5, <4>2
      <4>3. QED BY <4>1, <4>2
    <3>2. QED BY <2>1, <2>3, <3>1
  <2>11. ASSUME NEW s \in Snaps', NEW i \in DOMAIN wire', wire'[i].u > s.u
         PROVE  wire'[i].ts >= s.ts
    <3>1. CASE s \in Snaps
      <4>1. CASE \E k \in DOMAIN wire : wire'[i] = wire[k]
        BY <2>11, <3>1, <4>1 DEF SnapsInOrder
      <4>2. CASE Trade /\ wire'[i].u = Len(market) + 1 /\ wire'[i].ts = now
        BY <2>1, <2>2, <3>1, <4>2
      <4>3. QED BY <4>1, <4>2, ClockAndWire
    <3>2. CASE s \notin Snaps
      <4>1. wire' = wire /\ wire[i].u =< s.u /\ s.u = lastU
        BY <2>4, <3>2
      <4>2. QED BY <2>1, <2>11, <4>1
    <3>3. QED BY <3>1, <3>2
  <2>12. QED BY <2>6, <2>7, <2>8, <2>9, <2>10, <2>11 DEF SnapsInOrder
<1>3. QED BY <1>1, <1>2

-----------------------------------------------------------------------------
(* The chain of diffs behind a snapshot.                                   *)

(* Only the diffs between the snapshot and the id matter.                  *)
LEMMA ShowsStays ==
  ASSUME NEW D, NEW E, NEW book, NEW s, NEW u, Shows(D, book, s, u),
         \A e \in D : s.u < e.u /\ e.u =< u => e \in E,
         \A e \in E : s.u < e.u /\ e.u =< u => e \in D
  PROVE  Shows(E, book, s, u)
<1>1. ASSUME NEW l PROVE NamedIn(E, s.u, u, l) = NamedIn(D, s.u, u, l)
  BY DEF NamedIn
<1>2. QED BY <1>1 DEF Shows

LEMMA NothingBetween ==
  ASSUME NEW D, NEW s, s.u \in Nat, \A d \in D : d.u \in Nat
  PROVE  Shows(D, s.book, s, s.u)
<1>1. ASSUME NEW l PROVE NamedIn(D, s.u, s.u, l) = {}
  BY DEF NamedIn
<1>2. QED BY <1>1 DEF Shows

(* Diffs may go if they are not newer than the snapshot, or if their loss  *)
(* is recorded.                                                            *)
LEMMA ExactStays ==
  ASSUME Types, NEW s, s.u \in Nat, Exact(s), lost \subseteq lost',
         UNCHANGED <<local, lastU, seen>>, Diffs' \subseteq Diffs,
         \A e \in Diffs : e \in Diffs' \/ e.u =< s.u \/ e.u \in lost'
  PROVE  Exact(s)'
<1>1. \A e \in Diffs : e.u \in Nat
  BY RecordedFacts
<1>2. ASSUME NEW book, NEW u, NoneLost(lost', s.u, u), NoneLost(lost, s.u, u) => Shows(Diffs, book, s, u)
      PROVE  Shows(Diffs', book, s, u)
  <2>1. NoneLost(lost, s.u, u)
    BY <1>2 DEF NoneLost
  <2>2. \A e \in Diffs : s.u < e.u /\ e.u =< u => e \in Diffs'
    BY <1>1, <1>2 DEF NoneLost
  <2>3. QED BY <1>2, <2>1, <2>2, ShowsStays
<1>3. NoneLost(lost', s.u, lastU) => Shows(Diffs', local, s, lastU)
  BY <1>2 DEF Exact
<1>4. ASSUME NEW u \in DOMAIN seen, s.u =< u, NoneLost(lost', s.u, u)
      PROVE  Shows(Diffs', seen[u], s, u)
  BY <1>2, <1>4 DEF Exact
<1>5. QED BY <1>3, <1>4 DEF Exact

(* The record after a delivery.                                            *)
LEMMA DeliverParts ==
  ASSUME OrderIInv, Deliver, [Next]_vars
  PROVE  /\ Head(wire).u \in Nat /\ Head(wire).ch \in Changes /\ lastU' = Head(wire).u
         /\ Diffs' \subseteq Diffs \cup {Head(wire)}
         /\ Head(wire).ch # <<>> => Head(wire) \in Diffs'
         /\ \A e \in Diffs : /\ e.u \in Nat /\ e.u =< lastU /\ e.u < Head(wire).u
                             /\ e \in Diffs' \/ e.u \in lost'
         /\ \A u \in DOMAIN seen : u \in Nat /\ u < Head(wire).u
         /\ lost \subseteq lost'
         /\ Head(wire).u > lastU \/ (Head(wire).u = lastU /\ lastU = base /\ local' = local)
<1> USE DEF OrderIInv, KnowIInv
<1> DEFINE h == Head(wire)
<1>1. /\ wire # <<>> /\ lastU' = h.u /\ local' = ApplyDiff(local, h.ch)
      /\ UNCHANGED <<write, db>>
  BY DEF Deliver
<1>2. h \in Diff /\ h.ch \in Changes /\ h.u \in Nat /\ 1 \in DOMAIN wire /\ h = wire[1]
  BY <1>1, WireParts, HeadIsNext DEF Types, Diff
<1>3. \A u \in DOMAIN seen : u \in Nat /\ u < h.u /\ u =< lastU
  BY <1>2 DEF DiffsInOrder, Types, GhostTypes
<1>4. \A e \in Diffs : e.u \in Nat /\ e.u < h.u /\ e.u =< lastU
  BY <1>3 DEF DiffsInOrder
<1>5. /\ Diffs' \subseteq Diffs \cup {h} /\ lost \subseteq lost'
      /\ h.ch # <<>> => h \in Diffs'
      /\ \A e \in Diffs : e \in Diffs' \/ e.u \in lost'
  <2>1. WriteDiffs' = WriteDiffs /\ DbDiffs' = DbDiffs
    BY <1>1 DEF WriteDiffs, DbDiffs
  <2>2. CASE h.ch = <<>>
    <3>1. deltaBuf' = deltaBuf /\ lost' = lost
      BY <2>2 DEF Deliver
    <3>2. QED BY <2>1, <2>2, <3>1 DEF Diffs, BufDiffs
  <2>3. CASE h.ch # <<>>
    <3>1. /\ deltaBuf' = Push(deltaBuf, h, DeltaCap)
          /\ lost' = lost \cup PushedOut(deltaBuf, DeltaCap)
      BY <2>3 DEF Deliver
    <3>2. deltaBuf \in Seq(Diff) /\ Len(deltaBuf) =< DeltaCap /\ DeltaCap \in Nat \ {0}
      BY Constants DEF Types, BufferTypes
    <3> HIDE DEF h
    <3>3. /\ BufDiffs' \subseteq BufDiffs \cup {h} /\ h \in BufDiffs'
          /\ \A y \in BufDiffs : y \in BufDiffs' \/ y.u \in PushedOut(deltaBuf, DeltaCap)
      BY <1>2, <3>1, <3>2, PushParts DEF BufDiffs
    <3>4. QED BY <2>1, <3>1, <3>3 DEF Diffs
  <2>4. QED BY <2>2, <2>3
<1>6. h.u > lastU \/ (h.u = lastU /\ lastU = base /\ local' = local)
  <2>1. h.u > lastU \/ (h.u = lastU /\ lastU = base)
    BY DeliverFollows
  <2>2. ASSUME h.u = lastU, lastU = base PROVE local' = local
    <3>1. /\ h.u \in 2..Len(market) /\ h.u - 1 \in 1..Len(market)
          /\ market[h.u] = ApplyDiff(market[h.u - 1], h.ch)
      BY <1>1, HeadIsNext
    <3>2. market \in Seq(Book)
      BY StreamFacts
    <3>3. base > 0 /\ \A v \in missed : v > lastU
      BY <2>2, <3>1 DEF LocalKnows
    <3>4. local = market[h.u]
      BY <2>2, <3>3 DEF LocalKnows
    <3>5. market[h.u - 1] \in Book
      BY <3>1, <3>2
    <3>6. ApplyDiff(ApplyDiff(market[h.u - 1], h.ch), h.ch) = ApplyDiff(market[h.u - 1], h.ch)
      BY <1>2, <3>5, ApplyParts
    <3>7. QED BY <1>1, <3>1, <3>4, <3>6
  <2>3. QED BY <2>1, <2>2
<1>7. QED BY <1>1, <1>2, <1>3, <1>4, <1>5, <1>6

LEMMA ExactDeliver ==
  ASSUME OrderIInv, Deliver, [Next]_vars, NEW s \in Snaps, Exact(s)
  PROVE  Exact(s)'
<1> DEFINE h == Head(wire)
           u1 == h.u
<1>1. /\ u1 \in Nat /\ h.ch \in Changes /\ lastU' = u1
      /\ Diffs' \subseteq Diffs \cup {h}
      /\ h.ch # <<>> => h \in Diffs'
      /\ \A e \in Diffs : e.u \in Nat /\ e.u =< lastU /\ e.u < u1 /\ (e \in Diffs' \/ e.u \in lost')
      /\ \A u \in DOMAIN seen : u \in Nat /\ u < u1
      /\ lost \subseteq lost'
      /\ u1 > lastU \/ (u1 = lastU /\ lastU = base /\ local' = local)
  BY DeliverParts
<1>2. /\ s.u \in Nat /\ lastU \in Nat /\ base \in Nat /\ local \in Book
      /\ base =< s.u /\ s.u =< lastU
  BY RecordedFacts, StreamFacts DEF OrderIInv, KnowIInv, SnapsKnow, Types, StreamTypes
<1>3. /\ local' = ApplyDiff(local, h.ch)
      /\ seen' = [v \in DOMAIN seen \cup {u1} |-> IF v = u1 THEN local' ELSE seen[v]]
  BY DEF Deliver
<1>4. \A l \in Level : local'[l] = IF l \in DOMAIN h.ch THEN h.ch[l] ELSE local[l]
  BY <1>1, <1>2, <1>3, ApplyParts
<1>5. h.u = u1
  OBVIOUS
<1> HIDE DEF h, u1
<1>6. ASSUME NoneLost(lost', s.u, u1) PROVE Shows(Diffs', local', s, u1)
  <2>1. NoneLost(lost, s.u, lastU)
    <3>1. \A v \in lost : v \in Nat
      BY Constants DEF OrderIInv, KnowIInv, Types, GhostTypes
    <3>2. QED BY <1>1, <1>2, <1>6, <3>1 DEF NoneLost
  <2>2. Shows(Diffs, local, s, lastU)
    BY <2>1 DEF Exact
  <2>3. CASE u1 > lastU
    <3> SUFFICES ASSUME NEW l \in Level
                 PROVE  \/ NamedIn(Diffs', s.u, u1, l) = {} /\ local'[l] = s.book[l]
                        \/ \E d \in NamedIn(Diffs', s.u, u1, l) :
                              /\ local'[l] = d.ch[l]
                              /\ \A e \in NamedIn(Diffs', s.u, u1, l) : e.u =< d.u
      BY DEF Shows
    <3>1. CASE l \in DOMAIN h.ch
      <4>1. h.ch # <<>>
        BY <3>1
      <4>2. h \in NamedIn(Diffs', s.u, u1, l)
        BY <1>1, <1>2, <1>5, <2>3, <3>1, <4>1 DEF NamedIn
      <4>3. \A e \in NamedIn(Diffs', s.u, u1, l) : e.u =< h.u
        BY <1>5 DEF NamedIn
      <4>4. QED BY <1>4, <3>1, <4>2, <4>3
    <3>2. CASE l \notin DOMAIN h.ch
      <4>1. ASSUME NEW e \in NamedIn(Diffs', s.u, u1, l) PROVE e \in NamedIn(Diffs, s.u, lastU, l)
        BY <1>1, <3>2, <4>1 DEF NamedIn
      <4>2. ASSUME NEW e \in NamedIn(Diffs, s.u, lastU, l) PROVE e \in NamedIn(Diffs', s.u, u1, l)
        <5>1. e \in Diffs /\ s.u < e.u /\ e.u =< lastU /\ l \in DOMAIN e.ch
          BY <4>2 DEF NamedIn
        <5>2. e.u =< u1 /\ e.u \notin lost'
          BY <1>1, <1>6, <5>1 DEF NoneLost
        <5>3. QED BY <1>1, <5>1, <5>2 DEF NamedIn
      <4>3. NamedIn(Diffs', s.u, u1, l) = NamedIn(Diffs, s.u, lastU, l)
        BY <4>1, <4>2
      <4>4. local'[l] = local[l]
        BY <1>4, <3>2
      <4>5. QED BY <2>2, <4>3, <4>4 DEF Shows
    <3>3. QED BY <3>1, <3>2
  <2>4. CASE u1 = lastU /\ lastU = base /\ local' = local
    <3>1. s.u = lastU
      BY <1>2, <2>4
    <3>2. \A e \in Diffs : ~(s.u < e.u /\ e.u =< lastU)
      BY <1>1, <1>2, <3>1
    <3>3. \A e \in Diffs' : ~(s.u < e.u /\ e.u =< lastU)
      BY <1>1, <1>2, <1>5, <2>4, <3>1
    <3>4. Shows(Diffs', local, s, lastU)
      BY <2>2, <3>2, <3>3, ShowsStays
    <3>5. QED BY <2>4, <3>4
  <2>5. QED BY <1>1, <2>3, <2>4
<1>7. ASSUME NEW u \in DOMAIN seen', s.u =< u, NoneLost(lost', s.u, u)
      PROVE  Shows(Diffs', seen'[u], s, u)
  <2>1. CASE u = u1
    BY <1>3, <1>6, <1>7, <2>1
  <2>2. CASE u # u1
    <3>1. u \in DOMAIN seen /\ seen'[u] = seen[u] /\ u \in Nat /\ u < u1
      BY <1>1, <1>3, <2>2
    <3>2. NoneLost(lost, s.u, u)
      BY <1>1, <1>7 DEF NoneLost
    <3>3. Shows(Diffs, seen[u], s, u)
      BY <1>7, <3>1, <3>2 DEF Exact
    <3>4. \A e \in Diffs : s.u < e.u /\ e.u =< u => e \in Diffs'
      BY <1>1, <1>7 DEF NoneLost
    <3>5. \A e \in Diffs' : s.u < e.u /\ e.u =< u => e \in Diffs
      BY <1>1, <1>5, <3>1
    <3>6. Shows(Diffs', seen[u], s, u)
      BY <3>3, <3>4, <3>5, ShowsStays
    <3>7. QED BY <3>1, <3>6
  <2>3. QED BY <2>1, <2>2
<1>8. QED BY <1>1, <1>6, <1>7 DEF Exact

(* A snapshot starts a chain of its own.                                   *)
LEMMA ExactCapture ==
  ASSUME OrderIInv, Connect \/ PeriodicSnapshot, [Next]_vars, NEW s, s = SnapshotOf(local)
  PROVE  Exact(s)'
<1> USE DEF OrderIInv, KnowIInv
<1>1. UNCHANGED <<local, lastU, seen>> /\ ~Deliver
  <2>1. UNCHANGED <<local, lastU, seen, wire>>
    BY DEF Connect, PeriodicSnapshot, stream, ghosts
  <2>2. QED BY <2>1, DeliverIsAlone
<1>2. Diffs' \subseteq Diffs
  BY <1>1, DiffsFlow
<1>3. s.u = lastU /\ s.book = local /\ lastU \in Nat /\ \A d \in Diffs : d.u \in Nat
  BY RecordedFacts, StreamFacts DEF SnapshotOf
<1>4. Shows(Diffs', local, s, lastU)
  BY <1>2, <1>3, NothingBetween
<1>5. ASSUME NEW u \in DOMAIN seen, s.u =< u PROVE Shows(Diffs', seen[u], s, u)
  <2>1. u = lastU
    BY <1>3, <1>5 DEF DiffsInOrder, Types, GhostTypes
  <2>2. seen[u] = local
    BY <2>1 DEF SeenEnds
  <2>3. QED BY <1>4, <2>1, <2>2
<1>6. QED BY <1>1, <1>4, <1>5 DEF Exact

LEMMA CutoffGrows ==
  ASSUME Types, [Next]_vars
  PROVE  Cutoff \in Nat /\ Cutoff' \in Nat /\ Cutoff =< Cutoff' /\ (~Tick => Cutoff' = Cutoff)
<1>1. now \in Nat /\ now' \in Nat /\ now =< now' /\ Retention \in Nat /\ (~Tick => now' = now)
  BY StreamFacts, ClockAndWire, TypesNext, Constants DEF Types, StreamTypes
<1>2. /\ Cutoff = IF now > Retention THEN now - Retention ELSE 0
      /\ Cutoff' = IF now' > Retention THEN now' - Retention ELSE 0
  BY DEF Cutoff
<1> DEFINE Before(m, r) == IF m > r THEN m - r ELSE 0
<1>3. \A m, k, r \in Nat : m =< k => /\ Before(m, r) \in Nat /\ Before(k, r) \in Nat
                                     /\ Before(m, r) =< Before(k, r)
  OBVIOUS
<1>4. Before(now, Retention) \in Nat /\ Before(now', Retention) \in Nat
      /\ Before(now, Retention) =< Before(now', Retention)
  <2> HIDE DEF Before
  <2>1. QED BY <1>1, <1>3
<1>5. ~Tick => Cutoff' = Cutoff
  BY <1>1, <1>2
<1>6. QED BY <1>2, <1>4, <1>5

(* The write.  A row of the tables was a row before it, in the tables or   *)
(* in the payload, and a diff that goes is older than the cutoff.          *)
LEMMA CommitDiffs ==
  ASSUME OrderIInv, Commit, [Next]_vars
  PROVE  /\ Diffs' \subseteq Diffs
         /\ \A e \in Diffs : e \in Diffs' \/ (e \in WriteDiffs \cup DbDiffs /\ e.ts < Cutoff)
<1> USE DEF OrderIInv, KnowIInv
<1>1. /\ BufDiffs' = BufDiffs /\ WriteDiffs' = {} /\ WriteDiffs = Range(write.deltas)
      /\ DbDiffs' \subseteq DbDiffs \cup WriteDiffs
  <2>1. ~Deliver /\ ~Prepare
    BY DeliverIsAlone DEF Commit, Prepare
  <2>2. (write' = None /\ write # None /\ ~RollBack) \/ RollBack
    BY DEF Commit
  <2>3. QED BY <2>1, DiffPlaces DEF Commit, BufDiffs, WriteDiffs
<1>2. Diffs' \subseteq Diffs
  BY <1>1 DEF Diffs
<1>3. PICK table : table = Inserted(write)
  OBVIOUS
<1>4. /\ write \in Payload
      /\ DOMAIN db'.deltas = {u \in DOMAIN table.deltas : table.deltas[u].ts >= Cutoff}
      /\ \A u \in DOMAIN db'.deltas : db'.deltas[u] = table.deltas[u]
  BY <1>3, CommitParts
<1>5. /\ \A u \in DOMAIN table.deltas :
           \/ \E d \in Range(write.deltas) : d.u = u /\ table.deltas[u] = d
           \/ u \in DOMAIN db.deltas /\ table.deltas[u] = db.deltas[u]
      /\ \A d \in Range(write.deltas) : d.u \in DOMAIN table.deltas
      /\ \A u \in DOMAIN db.deltas : u \in DOMAIN table.deltas
  BY <1>3, <1>4, InsertedParts
<1>6. Cutoff \in Nat
  BY CutoffGrows
<1>7. ASSUME NEW e \in WriteDiffs \cup DbDiffs, ~(e.ts < Cutoff) PROVE e \in Diffs'
  <2>1. e \in Diffs /\ e.u \in Nat /\ e.ts \in Nat
    BY RecordedFacts DEF Diffs
  <2>2. e.u \in DOMAIN table.deltas
    <3>1. CASE e \in WriteDiffs
      BY <1>1, <1>5, <3>1
    <3>2. CASE e \in DbDiffs
      <4>1. PICK u \in DOMAIN db.deltas : e = db.deltas[u]
        BY <3>2 DEF DbDiffs
      <4>2. e.u = u
        BY <4>1 DEF Types, TableTypes
      <4>3. QED BY <1>5, <4>2
    <3>3. QED BY <3>1, <3>2
  <2>3. table.deltas[e.u] \in Diffs /\ table.deltas[e.u].u = e.u
    <3>1. CASE \E d \in Range(write.deltas) : d.u = e.u /\ table.deltas[e.u] = d
      BY <1>1, <3>1 DEF Diffs
    <3>2. CASE e.u \in DOMAIN db.deltas /\ table.deltas[e.u] = db.deltas[e.u]
      BY <3>2 DEF Types, TableTypes, Diffs, DbDiffs
    <3>3. QED BY <1>5, <2>2, <3>1, <3>2
  <2>4. table.deltas[e.u] = e
    BY <2>1, <2>3 DEF DiffsInOrder
  <2>5. e.u \in DOMAIN db'.deltas /\ db'.deltas[e.u] = e
    BY <1>4, <1>6, <1>7, <2>1, <2>2, <2>4
  <2>6. QED BY <2>5 DEF Diffs, DbDiffs
<1>8. ASSUME NEW e \in Diffs PROVE e \in Diffs' \/ (e \in WriteDiffs \cup DbDiffs /\ e.ts < Cutoff)
  <2>1. CASE e \in BufDiffs
    BY <1>1, <2>1 DEF Diffs
  <2>2. CASE e \in WriteDiffs \cup DbDiffs
    BY <1>7, <2>2
  <2>3. QED BY <2>1, <2>2 DEF Diffs
<1>9. QED BY <1>2, <1>8

(* Of the snapshots a write leaves only the first may be below the cutoff. *)
LEMMA CommitSnaps ==
  ASSUME Types, Commit, NEW t \in DOMAIN db'.snaps, t < Cutoff
  PROVE  t = Min(DOMAIN db'.snaps)
<1>1. PICK table : table = Inserted(write)
  OBVIOUS
<1>2. DOMAIN db'.snaps = KeptSnaps(table, Cutoff) /\ DOMAIN db'.snaps \subseteq DOMAIN table.snaps
  BY <1>1, CommitParts
<1>3. DOMAIN table.snaps \subseteq 0..MaxTime
  <2>1. write \in Payload
    BY <1>1, CommitParts
  <2>2. /\ \A v \in DOMAIN table.snaps :
             \/ \E s \in Range(write.snaps) : s.ts = v /\ table.snaps[v] = s
             \/ v \in DOMAIN db.snaps
    BY <1>1, <2>1, InsertedParts
  <2>3. Range(write.snaps) \subseteq Snap
    BY <2>1, PayloadParts
  <2>4. QED BY <2>2, <2>3 DEF Snap, Types, TableTypes
<1> DEFINE old == {v \in DOMAIN table.snaps : v =< Cutoff}
<1>4. Cutoff \in Nat /\ MaxTime \in Nat
  BY StreamFacts, Constants DEF Cutoff
<1>5. t \in old /\ old \in SUBSET (0..MaxTime) /\ old # {}
  BY <1>2, <1>3, <1>4
<1>6. KeptSnaps(table, Cutoff) = {v \in DOMAIN table.snaps : v >= Max(old)}
  BY <1>5 DEF KeptSnaps
<1> HIDE DEF old
<1>7. Max(old) \in old /\ t =< Max(old)
  BY <1>4, <1>5, MaxOfSome
<1> DEFINE kept == DOMAIN db'.snaps
<1>8. \A v \in kept : v >= t /\ v \in Nat
  BY <1>2, <1>3, <1>4, <1>5, <1>6, <1>7
<1>9. t \in kept /\ kept \in SUBSET Nat
  BY <1>8
<1> HIDE DEF kept
<1>10. Min(kept) \in kept /\ Min(kept) =< t
  BY <1>9, MinOfSome
<1>11. QED BY <1>8, <1>9, <1>10 DEF kept

LEMMA ChainsNext ==
  ASSUME RecordIInv, [Next]_vars
  PROVE  ChainsAreExact'
<1> USE DEF RecordIInv
<1>0. Types /\ WireIsTheTail /\ LocalKnows /\ BootIsEmpty
  BY DEF OrderIInv, KnowIInv
<1>1. CASE RestAnswer
  <2>1. Snaps' = {}
    <3>1. Snaps = {} /\ ~Connect /\ ~PeriodicSnapshot
      BY <1>0, <1>1 DEF RestAnswer, BootIsEmpty, Connect, PeriodicSnapshot, stream
    <3>2. QED BY <1>0, <3>1, SnapsFlow
  <2>2. DOMAIN db'.snaps = {}
    BY <2>1 DEF Snaps, DbSnaps
  <2>3. QED BY <2>1, <2>2 DEF ChainsAreExact, Snaps
<1>2. CASE Deliver
  <2>1. UNCHANGED <<snapBuf, write, db, now>>
    BY <1>2 DEF Deliver
  <2>2. /\ BufSnaps' = BufSnaps /\ WriteSnaps' = WriteSnaps /\ DbSnaps' = DbSnaps
        /\ Cutoff' = Cutoff /\ db' = db
    BY <2>1 DEF BufSnaps, WriteSnaps, DbSnaps, Cutoff
  <2>3. \A s \in Snaps : Exact(s) => Exact(s)'
    BY <1>2, ExactDeliver
  <2>4. BufSnaps \cup WriteSnaps \subseteq Snaps /\ DbSnaps \subseteq Snaps
    BY DEF Snaps
  <2>5. QED BY <2>2, <2>3, <2>4 DEF ChainsAreExact
<1>3. CASE Commit
  <2>1. /\ BufSnaps' = BufSnaps /\ WriteSnaps' = {} /\ WriteSnaps = Range(write.snaps)
        /\ UNCHANGED <<local, lastU, seen, lost, now>>
    BY <1>3 DEF Commit, BufSnaps, WriteSnaps, stream, ghosts
  <2>2. /\ Diffs' \subseteq Diffs
        /\ \A e \in Diffs : e \in Diffs' \/ (e \in WriteDiffs \cup DbDiffs /\ e.ts < Cutoff)
    BY <1>3, CommitDiffs
  <2>3. /\ \A d \in Diffs : d.u \in Nat /\ d.ts \in Nat
        /\ \A s \in Snaps : s.u \in Nat /\ s.ts \in Nat
    BY <1>0, RecordedFacts
  <2>4. Cutoff' = Cutoff /\ Cutoff \in Nat
    BY <1>0, <2>1, CutoffGrows DEF Cutoff
  <2>5. ASSUME NEW s \in BufSnaps' \cup WriteSnaps' PROVE Exact(s)'
    <3>1. s \in BufSnaps /\ s \in Snaps /\ Exact(s)
      BY <2>1 DEF ChainsAreExact, Snaps
    <3>2. \A e \in Diffs : e \in Diffs' \/ e.u =< s.u
      BY <2>2, <3>1 DEF OrderIInv, SnapsInOrder
    <3>3. QED BY <1>0, <2>1, <2>2, <2>3, <3>1, <3>2, ExactStays
  <2>6. ASSUME NEW s \in DbSnaps', s.ts >= Cutoff' \/ s.ts # Min(DOMAIN db'.snaps)
        PROVE  Exact(s)'
    <3>1. PICK t \in DOMAIN db'.snaps : s = db'.snaps[t]
      BY DEF DbSnaps
    <3>2. s.ts = t /\ t \in Nat
      BY <1>0, <3>1, TypesNext, Constants DEF Types, TableTypes
    <3>3. t >= Cutoff
      <4>1. t < Cutoff => t = Min(DOMAIN db'.snaps)
        BY <1>0, <1>3, CommitSnaps
      <4>2. QED BY <2>4, <2>6, <3>2, <4>1
    <3>4. s \in Snaps /\ Exact(s)
      <4>1. CASE \E r \in Range(write.snaps) : r.ts = t /\ db'.snaps[t] = r
        BY <2>1, <3>1, <4>1 DEF ChainsAreExact, Snaps
      <4>2. CASE t \in DOMAIN db.snaps /\ db'.snaps[t] = db.snaps[t]
        BY <3>1, <3>2, <3>3, <4>2 DEF ChainsAreExact, Snaps, DbSnaps
      <4>3. QED BY <1>0, <1>3, <4>1, <4>2, RowsAfterCommit
    <3>5. \A e \in Diffs : e \in Diffs' \/ e.u =< s.u
      <4> SUFFICES ASSUME NEW e \in Diffs, e \notin Diffs' PROVE e.u =< s.u
        OBVIOUS
      <4>1. e.ts < Cutoff /\ s.ts >= Cutoff /\ s \in Snaps
        BY <2>2, <3>2, <3>3, <3>4
      <4>2. e.u > s.u => e.ts >= s.ts
        BY <4>1 DEF OrderIInv, SnapsInOrder
      <4>3. QED BY <2>3, <2>4, <4>1, <4>2
    <3>6. QED BY <1>0, <2>1, <2>2, <2>3, <3>4, <3>5, ExactStays
  <2>7. QED BY <2>5, <2>6 DEF ChainsAreExact
<1>4. CASE Connect \/ PeriodicSnapshot
  <2>1. UNCHANGED <<local, lastU, seen, lost, now, db, write, wire, deltaBuf>>
    BY <1>4 DEF Connect, PeriodicSnapshot, stream, ghosts
  <2>2. WriteSnaps' = WriteSnaps /\ DbSnaps' = DbSnaps /\ Cutoff' = Cutoff /\ db' = db
    BY <2>1 DEF WriteSnaps, DbSnaps, Cutoff
  <2>3. Diffs' = Diffs
    BY <2>1 DEF Diffs, BufDiffs, WriteDiffs, DbDiffs
  <2>4. \A s \in BufSnaps' : s \in BufSnaps \/ s = SnapshotOf(local)
    <3>1. BufSnaps' \subseteq BufSnaps \cup {SnapshotOf(local)}
      <4>1. CaptureSnapshot
        BY <1>4 DEF Connect, PeriodicSnapshot
      <4>2. QED BY <1>0, <4>1, CaptureParts DEF BufSnaps, Types
    <3>2. QED BY <3>1
  <2>5. \A s \in Snaps : Exact(s) => Exact(s)'
    <3> TAKE s \in Snaps
    <3>1. s.u \in Nat
      BY <1>0, RecordedFacts
    <3>2. QED BY <1>0, <2>1, <2>3, <3>1, ExactStays
  <2>6. \A s : s = SnapshotOf(local) => Exact(s)'
    BY <1>4, ExactCapture
  <2>7. BufSnaps \cup WriteSnaps \subseteq Snaps /\ DbSnaps \subseteq Snaps
    BY DEF Snaps
  <2>8. QED BY <2>2, <2>4, <2>5, <2>6, <2>7 DEF ChainsAreExact
<1>5. CASE Prepare
  <2>1. UNCHANGED <<local, lastU, seen, lost, now, db>> /\ ~Deliver /\ ~Connect /\ ~PeriodicSnapshot
    <3>1. UNCHANGED <<local, lastU, seen, lost, now, db>>
      BY <1>5 DEF Prepare, stream, ghosts
    <3>2. ~Deliver
      BY <1>0, <1>5, DeliverIsAlone
    <3>3. write = None /\ write' = [deltas |-> deltaBuf, snaps |-> snapBuf]
      BY <1>5 DEF Prepare
    <3>4. write' # write
      <4>1. write' \in Payload
        BY <1>0, <3>3 DEF Types, BufferTypes, Payload
      <4>2. QED BY <3>3, <4>1, Constants
    <3>5. QED BY <3>1, <3>2, <3>4 DEF Connect, PeriodicSnapshot
  <2>2. ~Commit /\ ~RollBack /\ WriteSnaps = {} /\ WriteDiffs = {}
    BY <1>5 DEF Commit, RollBack, Prepare, WriteSnaps, WriteDiffs
  <2>3. BufSnaps' \cup WriteSnaps' \subseteq BufSnaps /\ DbSnaps' = DbSnaps
    BY <1>0, <2>1, <2>2, SnapPlaces
  <2>4. Cutoff' = Cutoff
    BY <2>1 DEF Cutoff
  <2>5. Diffs' = Diffs
    <3>1. /\ deltaBuf' = <<>> /\ write' = [deltas |-> deltaBuf, snaps |-> snapBuf]
          /\ db' = db
      BY <1>5 DEF Prepare
    <3>2. write' # None
      <4>1. write' \in Payload
        BY <1>0, <3>1 DEF Types, BufferTypes, Payload
      <4>2. QED BY <4>1, Constants
    <3>3. BufDiffs' = {} /\ WriteDiffs' = BufDiffs /\ DbDiffs' = DbDiffs
      BY <3>1, <3>2 DEF BufDiffs, WriteDiffs, DbDiffs, Range
    <3>4. QED BY <2>2, <3>3 DEF Diffs
  <2>6. \A s \in Snaps : Exact(s) => Exact(s)'
    <3> TAKE s \in Snaps
    <3>1. s.u \in Nat
      BY <1>0, RecordedFacts
    <3>2. QED BY <1>0, <2>1, <2>5, <3>1, ExactStays
  <2>7. BufSnaps \cup WriteSnaps \subseteq Snaps /\ DbSnaps \subseteq Snaps
    BY DEF Snaps
  <2>8. QED BY <2>1, <2>3, <2>4, <2>6, <2>7 DEF ChainsAreExact
<1>6. CASE RollBack
  <2>1. /\ UNCHANGED <<local, lastU, seen, now, db, snapBuf, deltaBuf>>
        /\ write' = None /\ write # None /\ lost' = lost \cup {d.u : d \in Range(write.deltas)}
    BY <1>6 DEF RollBack, stream
  <2>2. BufSnaps' = BufSnaps /\ WriteSnaps' = {} /\ DbSnaps' = DbSnaps /\ Cutoff' = Cutoff
    BY <2>1 DEF BufSnaps, WriteSnaps, DbSnaps, Cutoff
  <2>3. /\ BufDiffs' = BufDiffs /\ WriteDiffs' = {} /\ DbDiffs' = DbDiffs
        /\ WriteDiffs = Range(write.deltas)
    BY <2>1 DEF BufDiffs, WriteDiffs, DbDiffs
  <2>4. Diffs' \subseteq Diffs /\ \A e \in Diffs : e \in Diffs' \/ e.u \in lost'
    BY <2>1, <2>3 DEF Diffs
  <2>5. \A s \in Snaps : Exact(s) => Exact(s)'
    <3> TAKE s \in Snaps
    <3>1. s.u \in Nat
      BY <1>0, RecordedFacts
    <3>2. QED BY <1>0, <2>1, <2>4, <3>1, ExactStays
  <2>6. BufSnaps \cup WriteSnaps \subseteq Snaps /\ DbSnaps \subseteq Snaps
    BY DEF Snaps
  <2>7. QED BY <2>1, <2>2, <2>5, <2>6 DEF ChainsAreExact
<1>7. CASE Tick \/ Trade \/ Miss \/ Cut \/ Skip \/ UNCHANGED vars
  <2>1. UNCHANGED <<local, lastU, seen, lost, db, snapBuf, deltaBuf, write>>
    BY <1>7 DEF Tick, Trade, Miss, Cut, Skip, vars, stream, ghosts
  <2>2. BufSnaps' = BufSnaps /\ WriteSnaps' = WriteSnaps /\ DbSnaps' = DbSnaps
    BY <2>1 DEF BufSnaps, WriteSnaps, DbSnaps
  <2>3. Diffs' = Diffs
    BY <2>1 DEF Diffs, BufDiffs, WriteDiffs, DbDiffs
  <2>4. Cutoff =< Cutoff' /\ Cutoff \in Nat /\ Cutoff' \in Nat
    BY <1>0, CutoffGrows
  <2>5. \A s \in Snaps : Exact(s) => Exact(s)'
    <3> TAKE s \in Snaps
    <3>1. s.u \in Nat
      BY <1>0, RecordedFacts
    <3>2. QED BY <1>0, <2>1, <2>3, <3>1, ExactStays
  <2>6. BufSnaps \cup WriteSnaps \subseteq Snaps /\ DbSnaps \subseteq Snaps
    BY DEF Snaps
  <2>7. \A s \in DbSnaps : s.ts \in Nat
    BY <1>0, RecordedFacts DEF Snaps
  <2>8. QED BY <2>1, <2>2, <2>4, <2>5, <2>6, <2>7 DEF ChainsAreExact
<1>8. QED BY <1>1, <1>2, <1>3, <1>4, <1>5, <1>6, <1>7 DEF Next

LEMMA RecordInit ==
  ASSUME Init
  PROVE  RecordIInv
<1>1. KnowIInv
  BY KnowInit
<1>2. DOMAIN db.deltas = {} /\ DOMAIN db.snaps = {} /\ DOMAIN seen = {}
  BY DEF Init, EmptyDb
<1>3. /\ BufSnaps = {} /\ WriteSnaps = {} /\ DbSnaps = {}
      /\ BufDiffs = {} /\ WriteDiffs = {} /\ DbDiffs = {}
  BY <1>2 DEF Init, BufSnaps, BufDiffs, WriteSnaps, WriteDiffs, DbSnaps, DbDiffs, Range
<1>4. Snaps = {} /\ Diffs = {}
  BY <1>3 DEF Snaps, Diffs
<1>5. DiffsInOrder /\ SeenEnds
  BY <1>2, <1>3, <1>4 DEF DiffsInOrder, SeenEnds
<1>6. SnapsInOrder /\ ChainsAreExact
  BY <1>3, <1>4 DEF SnapsInOrder, ChainsAreExact
<1>7. QED BY <1>1, <1>5, <1>6 DEF RecordIInv, OrderIInv

LEMMA RecordNext ==
  ASSUME ~SnapInFlight, RecordIInv, [Next]_vars
  PROVE  RecordIInv'
<1> USE DEF RecordIInv, OrderIInv
<1>1. KnowIInv'
  BY KnowNext
<1>2. DiffsInOrder'
  BY <1>1, DiffsInOrderNext
<1>3. SeenEnds' /\ SnapsInOrder'
  BY SeenEndsNext, SnapsInOrderNext
<1>4. ChainsAreExact'
  BY ChainsNext
<1>5. QED BY <1>1, <1>2, <1>3, <1>4

(* The anchor of an id is one of the snapshots at or below it, and there   *)
(* is one as soon as there is such a snapshot.                             *)
LEMMA AnchorIsLast ==
  ASSUME Types, NEW u, AnchorsAt(db, u) # {}
  PROVE  /\ AnchorAt(db, u) \in AnchorsAt(db, u)
         /\ \A s \in AnchorsAt(db, u) :
               /\ db.snaps[s].u =< db.snaps[AnchorAt(db, u)].u
               /\ db.snaps[s].u = db.snaps[AnchorAt(db, u)].u => s =< AnchorAt(db, u)
<1> DEFINE A == AnchorsAt(db, u)
           us == {db.snaps[t].u : t \in A}
<1>1. \A t \in A : t \in 0..MaxTime /\ t \in Nat /\ db.snaps[t].u \in 0..MaxU
  <2>1. \A t \in A : t \in 0..MaxTime /\ db.snaps[t] \in Snap
    BY DEF AnchorsAt, Types, TableTypes
  <2>2. QED BY <2>1, Constants DEF Snap
<1>2. us # {} /\ us \in SUBSET (0..MaxU) /\ MaxU \in Nat
  BY <1>1, Constants
<1>3. Max(us) \in us /\ \A y \in us : y =< Max(us)
  <2> HIDE DEF us
  <2>1. QED BY <1>2, MaxOfSome
<1> DEFINE top == {t \in A : db.snaps[t].u = Max(us)}
<1>4. top # {} /\ top \in SUBSET (0..MaxTime) /\ MaxTime \in Nat
  BY <1>1, <1>3, Constants
<1>5. PICK w \in top : \A s \in top : s =< w
  <2> HIDE DEF top
  <2>1. QED BY <1>4, MaxOfSome
<1>6. PICK m : m = Max(us)
  OBVIOUS
<1>7. w \in A /\ db.snaps[w].u = m /\ \A s \in A : db.snaps[s].u =< m
  BY <1>3, <1>5, <1>6
<1>8. \A s \in A : db.snaps[s].u = m => s =< w
  BY <1>5, <1>6
<1>9. m \in Nat /\ MaxU \in Nat
  BY <1>1, <1>2, <1>7
<1> HIDE DEF us, top
<1>10. ASSUME NEW s \in A \ {w}
       PROVE  \/ db.snaps[s].u < db.snaps[w].u
              \/ db.snaps[s].u = db.snaps[w].u /\ s < w
  <2>1. db.snaps[s].u \in Nat /\ s \in Nat /\ w \in Nat /\ s # w
    BY <1>1, <1>7, <1>9
  <2>2. CASE db.snaps[s].u = m
    BY <1>7, <1>8, <2>1, <2>2
  <2>3. CASE db.snaps[s].u # m
    BY <1>7, <1>9, <2>1, <2>3
  <2>4. QED BY <2>2, <2>3
<1>11. QED
  <2> DEFINE Best(t) == \A s \in A \ {t} :
                           \/ db.snaps[s].u < db.snaps[t].u
                           \/ db.snaps[s].u = db.snaps[t].u /\ s < t
  <2>1. \E t \in A : Best(t)
    BY <1>7, <1>10
  <2>2. AnchorAt(db, u) = CHOOSE t \in A : Best(t)
    BY DEF AnchorAt
  <2>3. PICK a : a = CHOOSE t \in A : Best(t)
    OBVIOUS
  <2> HIDE DEF A
  <2>4. a \in A
    BY <2>1, <2>3, Zenon
  <2>5. Best(a)
    BY <2>1, <2>3, Zenon
  <2>6. ASSUME NEW s \in A
        PROVE  db.snaps[s].u =< db.snaps[a].u /\ (db.snaps[s].u = db.snaps[a].u => s =< a)
    <3>1. db.snaps[s].u \in Nat /\ s \in Nat /\ db.snaps[a].u \in Nat /\ a \in Nat
      BY <1>1, <2>4, Constants
    <3>2. CASE s = a
      BY <3>1, <3>2
    <3>3. CASE s # a
      BY <2>5, <3>1, <3>3
    <3>4. QED BY <3>2, <3>3
  <2>7. AnchorAt(db, u) = a
    BY <2>2, <2>3
  <2>8. QED BY <2>4, <2>6, <2>7 DEF A

LEMMA AnchorExists ==
  ASSUME Types, NEW u, AnchorsAt(db, u) # {}
  PROVE  AnchorAt(db, u) \in AnchorsAt(db, u)
BY AnchorIsLast

LEMMA ReplayTrue ==
  ASSUME RecordIInv
  PROVE  ReplayIsExact
<1> USE DEF RecordIInv, OrderIInv, KnowIInv
<1> SUFFICES ASSUME NEW u \in DOMAIN db.deltas, Unbroken(u), ~InPrunedSegment(u)
             PROVE  ReconstructAtU(db, u) = seen[u]
  BY DEF ReplayIsExact
<1>1. PICK a : a = AnchorAt(db, u)
  OBVIOUS
<1>2. AnchorsAt(db, u) # {} /\ a \in AnchorsAt(db, u)
  BY <1>1, AnchorExists DEF Unbroken
<1>3. PICK s : s = db.snaps[a]
  OBVIOUS
<1>4. a \in DOMAIN db.snaps /\ s.u =< u /\ s \in DbSnaps /\ s \in Snaps /\ s.ts = a
  BY <1>2, <1>3 DEF AnchorsAt, DbSnaps, Snaps, Types, TableTypes
<1>5. s.ts \in Nat /\ s.u \in Nat /\ s.book \in Book /\ Cutoff \in Nat
  BY <1>4, RecordedFacts, StreamFacts, Constants DEF Cutoff
<1>6. Exact(s)
  <2>1. s.ts >= Cutoff \/ s.ts # Min(DOMAIN db.snaps)
    BY <1>1, <1>4, <1>5 DEF InPrunedSegment
  <2>2. QED BY <1>4, <2>1 DEF ChainsAreExact
<1>7. PICK d : d = db.deltas[u]
  OBVIOUS
<1>8. d \in Diffs /\ d \in DbDiffs /\ d.u = u /\ u \in DOMAIN seen /\ u \in Nat
  BY <1>7, RecordedFacts DEF Types, TableTypes, DbDiffs, Diffs, DiffsInOrder
<1>9. NoneLost(lost, s.u, u)
  BY <1>1, <1>3 DEF Unbroken, NoneLost
<1>10. Shows(Diffs, seen[u], s, u)
  BY <1>4, <1>6, <1>8, <1>9 DEF Exact
<1> DEFINE chain == {v \in DOMAIN db.deltas : s.u < v /\ v =< u}
<1>11. ReconstructAtU(db, u) = ReplayById(s.book, db.deltas, chain)
  BY <1>1, <1>2, <1>3 DEF ReconstructAtU
<1>12. ASSUME NEW l \in Level
       PROVE  seen[u][l] = LET named == Naming(db.deltas, chain, l)
                           IN  IF named = {} THEN s.book[l] ELSE db.deltas[Max(named)].ch[l]
  <2> DEFINE named == Naming(db.deltas, chain, l)
             between == NamedIn(Diffs, s.u, u, l)
  <2>1. ASSUME NEW e \in between PROVE e.u \in named /\ db.deltas[e.u] = e /\ e.u \in Nat
    <3>1. e \in Diffs /\ s.u < e.u /\ e.u =< u /\ l \in DOMAIN e.ch /\ e.u \in Nat
      BY RecordedFacts DEF NamedIn
    <3>2. e \in DbDiffs
      <4>1. e \in WriteDiffs \cup BufDiffs => u < e.u
        BY <1>8 DEF DiffsInOrder
      <4>2. QED BY <1>8, <3>1, <4>1 DEF Diffs
    <3>3. e.u \in DOMAIN db.deltas /\ db.deltas[e.u] = e
      BY <3>2 DEF DbDiffs, Types, TableTypes
    <3>4. QED BY <3>1, <3>3 DEF Naming
  <2>2. ASSUME NEW v \in named
        PROVE  db.deltas[v] \in between /\ db.deltas[v].u = v /\ v \in 0..u
    <3>1. v \in DOMAIN db.deltas /\ s.u < v /\ v =< u /\ l \in DOMAIN db.deltas[v].ch
      BY DEF Naming
    <3>2. db.deltas[v].u = v /\ db.deltas[v] \in Diffs /\ v \in Nat
      BY <3>1, RecordedFacts DEF Types, TableTypes, Diffs, DbDiffs
    <3>3. QED BY <1>8, <3>1, <3>2 DEF NamedIn
  <2> HIDE DEF named, between
  <2>3. CASE named = {}
    <3>1. between = {}
      BY <2>1, <2>3
    <3>2. seen[u][l] = s.book[l]
      BY <1>10, <3>1 DEF Shows, between
    <3>3. QED BY <2>3, <3>2 DEF named
  <2>4. CASE named # {}
    <3>1. named \in SUBSET (0..u)
      BY <2>2
    <3>2. Max(named) \in named /\ \A y \in named : y =< Max(named)
      BY <1>8, <2>4, <3>1, MaxOfSome
    <3>3. PICK m : m = Max(named)
      OBVIOUS
    <3>4. m \in named /\ (\A y \in named : y =< m) /\ m \in Nat
      <4>1. m \in named /\ \A y \in named : y =< m
        BY <3>2, <3>3
      <4>2. m \in 0..u
        BY <3>1, <4>1
      <4>3. QED BY <1>8, <4>1, <4>2
    <3>5. db.deltas[m] \in between /\ db.deltas[m].u = m
      BY <2>2, <3>4
    <3>6. PICK e \in between : seen[u][l] = e.ch[l] /\ \A f \in between : f.u =< e.u
      BY <1>10, <3>5 DEF Shows, between
    <3>7. e.u \in named /\ db.deltas[e.u] = e /\ e.u \in Nat
      BY <2>1
    <3>8. e.u = m
      BY <3>4, <3>5, <3>6, <3>7
    <3>9. seen[u][l] = db.deltas[m].ch[l]
      BY <3>6, <3>7, <3>8
    <3>10. QED BY <2>4, <3>3, <3>9 DEF named
  <2>5. QED BY <2>3, <2>4
<1>13. seen[u] \in Book
  BY <1>8 DEF Types, GhostTypes
<1> HIDE DEF chain
<1>14. ReplayById(s.book, db.deltas, chain)
         = [l \in Level |-> LET named == Naming(db.deltas, chain, l)
                            IN  IF named = {} THEN s.book[l] ELSE db.deltas[Max(named)].ch[l]]
  BY DEF ReplayById
<1>15. seen[u] = [l \in Level |-> seen[u][l]]
  BY <1>13 DEF Book
<1>16. QED BY <1>11, <1>12, <1>14, <1>15

(* What the daemon's book was when it had applied an update is what the    *)
(* recorded diffs replay to from the anchor below it: through a full       *)
(* buffer, a failed write, any drain, commit and prune, as long as nothing *)
(* in between was lost.  A snapshot is taken with no diff in flight, as    *)
(* the checked run has it.                                                 *)
THEOREM RecordHolds == ASSUME ~SnapInFlight PROVE Spec => []RecordIsFaithful
<1>1. Init => RecordIInv
  BY RecordInit
<1>2. RecordIInv /\ [Next]_vars => RecordIInv'
  BY RecordNext
<1>3. RecordIInv => RecordIsFaithful
  BY ReplayTrue, KnowTrue DEF RecordIInv, OrderIInv, RecordIsFaithful
<1>4. QED BY <1>1, <1>2, <1>3, PTL DEF Spec

LEMMA RetainedStep ==
  ASSUME RecordIInv, [Next]_vars
  PROVE  [\A u \in DOMAIN db.deltas \cap DOMAIN db'.deltas :
             AnchorsAt(db, u) # {} => AnchorsAt(db', u) # {}]_vars
<1> USE DEF RecordIInv, OrderIInv, KnowIInv
<1>1. CASE db' = db
  BY <1>1
<1>2. CASE db' # db
  <2>1. Commit
    BY <1>2 DEF Next, Tick, Trade, Miss, RestAnswer, Connect, Cut, Skip, Deliver, PeriodicSnapshot,
                Prepare, RollBack, vars
  <2> SUFFICES ASSUME NEW u \in DOMAIN db.deltas, u \in DOMAIN db'.deltas,
                      NEW t0 \in AnchorsAt(db, u)
               PROVE  AnchorsAt(db', u) # {}
    OBVIOUS
  <2>2. t0 \in DOMAIN db.snaps /\ db.snaps[t0].u =< u
    BY DEF AnchorsAt
  <2>3. PICK table : table = Inserted(write)
    OBVIOUS
  <2>4. /\ write \in Payload
        /\ DOMAIN db'.deltas = {v \in DOMAIN table.deltas : table.deltas[v].ts >= Cutoff}
        /\ \A v \in DOMAIN db'.deltas : db'.deltas[v] = table.deltas[v]
        /\ DOMAIN db'.snaps = KeptSnaps(table, Cutoff)
        /\ \A t \in DOMAIN db'.snaps : db'.snaps[t] = table.snaps[t]
    BY <2>1, <2>3, CommitParts
  <2>5. /\ \A v \in DOMAIN table.deltas :
             \/ \E d \in Range(write.deltas) : d.u = v /\ table.deltas[v] = d
             \/ v \in DOMAIN db.deltas /\ table.deltas[v] = db.deltas[v]
        /\ \A t \in DOMAIN table.snaps :
             \/ \E s \in Range(write.snaps) : s.ts = t /\ table.snaps[t] = s
             \/ t \in DOMAIN db.snaps /\ table.snaps[t] = db.snaps[t]
        /\ \A t \in DOMAIN db.snaps : t \in DOMAIN table.snaps
    BY <2>3, <2>4, InsertedParts
  <2>6. WriteDiffs = Range(write.deltas) /\ WriteSnaps = Range(write.snaps)
    BY <2>1 DEF Commit, WriteDiffs, WriteSnaps
  <2>7. \A t \in DOMAIN table.snaps : table.snaps[t] \in Snaps /\ table.snaps[t].ts = t
    BY <2>5, <2>6 DEF Snaps, DbSnaps, Types, TableTypes
  <2>8. PICK d : d = db'.deltas[u]
    OBVIOUS
  <2>9. d \in Diffs /\ d.u = u /\ d.ts >= Cutoff
    BY <2>4, <2>5, <2>6, <2>8 DEF Diffs, DbDiffs, Types, TableTypes
  <2>10. /\ \A e \in Diffs : e.u \in Nat /\ e.ts \in Nat
         /\ \A s \in Snaps : s.u \in Nat /\ s.ts \in Nat
         /\ Cutoff \in Nat /\ MaxTime \in Nat
    BY RecordedFacts, StreamFacts, Constants DEF Cutoff
  <2>11. t0 \in DOMAIN table.snaps /\ table.snaps[t0].u =< u
    <3>1. db.snaps[t0] \in Snaps /\ db.snaps[t0].ts = t0 /\ t0 \in DOMAIN table.snaps
      BY <2>2, <2>5 DEF Snaps, DbSnaps, Types, TableTypes
    <3>2. table.snaps[t0] \in Snaps /\ table.snaps[t0].ts = t0
      BY <2>7, <3>1
    <3>3. db.snaps[t0].u < table.snaps[t0].u => t0 < t0
      BY <3>1, <3>2 DEF SnapsInOrder
    <3>4. QED BY <2>2, <2>9, <2>10, <3>1, <3>2, <3>3
  <2>12. ASSUME NEW t \in DOMAIN db'.snaps, table.snaps[t].u =< u PROVE AnchorsAt(db', u) # {}
    BY <2>4, <2>12 DEF AnchorsAt
  <2>13. CASE t0 \in KeptSnaps(table, Cutoff)
    BY <2>4, <2>11, <2>12, <2>13
  <2>14. CASE t0 \notin KeptSnaps(table, Cutoff)
    <3> DEFINE old == {t \in DOMAIN table.snaps : t =< Cutoff}
    <3>1. old # {} /\ KeptSnaps(table, Cutoff) = {t \in DOMAIN table.snaps : t >= Max(old)}
      BY <2>11, <2>14 DEF KeptSnaps
    <3>2. old \in SUBSET (0..Cutoff)
      BY <2>7, <2>10
    <3> HIDE DEF old
    <3>3. Max(old) \in old
      BY <2>10, <3>1, <3>2, MaxOfSome
    <3>4. PICK m : m = Max(old)
      OBVIOUS
    <3>5. m \in DOMAIN table.snaps /\ m =< Cutoff /\ m \in Nat
      BY <2>10, <3>2, <3>3, <3>4 DEF old
    <3>6. m \in KeptSnaps(table, Cutoff)
      BY <3>1, <3>4, <3>5
    <3>7. table.snaps[m] \in Snaps /\ table.snaps[m].ts = m
      BY <2>7, <3>5
    <3>8. d.u < table.snaps[m].u => d.ts < m
      BY <2>9, <3>7 DEF SnapsInOrder
    <3>9. table.snaps[m].u =< u
      BY <2>9, <2>10, <3>5, <3>7, <3>8
    <3>10. QED BY <2>4, <2>12, <3>6, <3>9
  <2>15. QED BY <2>13, <2>14
<1>3. QED BY <1>1, <1>2

(* A write never takes the last anchor from a diff it leaves: the prune    *)
(* keeps the last snapshot at or below the cutoff, and a snapshot that     *)
(* replaces one of its millisecond is no newer.                            *)
THEOREM RetainedHolds == ASSUME ~SnapInFlight PROVE Spec => RetainedStaysAnchored
<1>1. Init => RecordIInv
  BY RecordInit
<1>2. RecordIInv /\ [Next]_vars => RecordIInv'
  BY RecordNext
<1>3. RecordIInv /\ [Next]_vars =>
        [\A u \in DOMAIN db.deltas \cap DOMAIN db'.deltas :
            AnchorsAt(db, u) # {} => AnchorsAt(db', u) # {}]_vars
  BY RetainedStep
<1>4. QED BY <1>1, <1>2, <1>3, PTL DEF Spec, RetainedStaysAnchored

-----------------------------------------------------------------------------
(* The two readers of the record.                                          *)

LEMMA TimesInOrderNext ==
  ASSUME OrderIInv, TimesInOrder, [Next]_vars
  PROVE  TimesInOrder'
<1> USE DEF OrderIInv, KnowIInv
<1>1. /\ \A d \in Diffs : d.u \in Nat /\ d.ts \in Nat /\ d.ts < now
      /\ \A i \in DOMAIN wire : wire[i].ts \in Nat /\ wire[i].ts =< now
      /\ now \in Nat /\ wire \in Seq(Diff) /\ Len(wire) \in Nat /\ DOMAIN wire = 1..Len(wire)
  BY RecordedFacts, StreamFacts DEF SnapsInOrder, WireIsTheTail
<1>2. CASE Deliver
  <2> DEFINE h == Head(wire)
  <2>1. /\ h.u \in Nat /\ Diffs' \subseteq Diffs \cup {h}
        /\ \A e \in Diffs : e.u < h.u
    BY <1>2, DeliverParts
  <2>2. wire # <<>> /\ wire' = Tail(wire)
    BY <1>2 DEF Deliver
  <2>3. h = wire[1] /\ 1 \in DOMAIN wire
    BY <2>2, HeadIsNext
  <2>4. \A i \in DOMAIN wire' : i + 1 \in DOMAIN wire /\ wire'[i] = wire[i + 1] /\ i \in Nat \ {0}
    BY <1>1, <2>2
  <2> HIDE DEF h
  <2>5. \A d \in Diffs : d.ts =< h.ts
    BY <2>3 DEF TimesInOrder
  <2>6. \A i \in DOMAIN wire' : h.ts =< wire'[i].ts
    <3> TAKE i \in DOMAIN wire'
    <3>1. 1 < i + 1 /\ i + 1 \in DOMAIN wire
      BY <2>4
    <3>2. QED BY <2>3, <2>4, <3>1 DEF TimesInOrder
  <2>7. ASSUME NEW d \in Diffs', NEW e \in Diffs', d.u < e.u PROVE d.ts =< e.ts
    <3>1. CASE d \in Diffs /\ e \in Diffs
      BY <2>7, <3>1 DEF TimesInOrder
    <3>2. CASE d \in Diffs /\ e = h
      BY <2>5, <3>2
    <3>3. CASE d = h /\ e \in Diffs
      BY <1>1, <2>1, <2>7, <3>3
    <3>4. CASE d = h /\ e = h
      BY <2>1, <2>7, <3>4
    <3>5. QED BY <2>1, <3>1, <3>2, <3>3, <3>4
  <2>8. ASSUME NEW d \in Diffs', NEW i \in DOMAIN wire' PROVE d.ts =< wire'[i].ts
    <3>1. CASE d \in Diffs
      BY <2>4, <3>1 DEF TimesInOrder
    <3>2. CASE d = h
      BY <2>6, <3>2
    <3>3. QED BY <2>1, <3>1, <3>2
  <2>9. ASSUME NEW i \in DOMAIN wire', NEW k \in DOMAIN wire', i < k PROVE wire'[i].ts =< wire'[k].ts
    <3>1. i + 1 < k + 1
      BY <2>4, <2>9
    <3>2. QED BY <2>4, <3>1 DEF TimesInOrder
  <2>10. QED BY <2>7, <2>8, <2>9 DEF TimesInOrder
<1>3. CASE ~Deliver
  <2>1. Diffs' \subseteq Diffs
    BY <1>3, DiffsFlow
  <2>2. CASE Trade
    <3>1. PICK ch \in Changes :
              LET d == [u |-> Len(market) + 1, ts |-> now, ch |-> ch] IN wire' = Append(wire, d)
      BY <2>2, TradeParts DEF Types
    <3>2. /\ \A i \in DOMAIN wire' : \/ i \in DOMAIN wire /\ wire'[i] = wire[i]
                                     \/ i = Len(wire) + 1 /\ wire'[i].ts = now
      BY <1>1, <3>1
    <3>3. ASSUME NEW d \in Diffs', NEW i \in DOMAIN wire' PROVE d.ts =< wire'[i].ts
      BY <1>1, <2>1, <3>2 DEF TimesInOrder
    <3>4. ASSUME NEW i \in DOMAIN wire', NEW k \in DOMAIN wire', i < k
          PROVE  wire'[i].ts =< wire'[k].ts
      <4>1. CASE k \in DOMAIN wire /\ wire'[k] = wire[k]
        <5>1. i \in DOMAIN wire /\ wire'[i] = wire[i]
          BY <1>1, <3>2, <3>4, <4>1
        <5>2. QED BY <3>4, <4>1, <5>1 DEF TimesInOrder
      <4>2. CASE wire'[k].ts = now
        BY <1>1, <3>2, <4>2
      <4>3. QED BY <3>2, <4>1, <4>2
    <3>5. QED BY <2>1, <3>3, <3>4 DEF TimesInOrder
  <2>3. CASE wire # <<>> /\ wire' = Tail(wire)
    <3>1. \A i \in DOMAIN wire' : i + 1 \in DOMAIN wire /\ wire'[i] = wire[i + 1] /\ i \in Nat
      BY <1>1, <2>3
    <3>2. ASSUME NEW i \in DOMAIN wire', NEW k \in DOMAIN wire', i < k
          PROVE  wire'[i].ts =< wire'[k].ts
      <4>1. i + 1 < k + 1
        BY <3>1, <3>2
      <4>2. QED BY <3>1, <4>1 DEF TimesInOrder
    <3>3. ASSUME NEW d \in Diffs', NEW i \in DOMAIN wire' PROVE d.ts =< wire'[i].ts
      BY <2>1, <3>1 DEF TimesInOrder
    <3>4. QED BY <2>1, <3>2, <3>3 DEF TimesInOrder
  <2>4. CASE wire' = wire
    BY <2>1, <2>4 DEF TimesInOrder
  <2>5. QED BY <1>3, <2>2, <2>3, <2>4 DEF Next, Tick, Miss, RestAnswer, Connect, Cut, Skip,
              PeriodicSnapshot, Prepare, Commit, RollBack, vars, stream
<1>4. QED BY <1>2, <1>3

LEMMA SeenSaysNext ==
  ASSUME OrderIInv, SeenSays, [Next]_vars
  PROVE  SeenSays'
<1> USE DEF OrderIInv, KnowIInv
<1>1. CASE Deliver
  <2> DEFINE h == Head(wire)
  <2>1. /\ h.u \in Nat /\ Diffs' \subseteq Diffs \cup {h} /\ h.ch \in Changes
        /\ \A e \in Diffs : e.u \in Nat /\ e.u < h.u
    BY <1>1, DeliverParts
  <2>2. /\ seen' = [v \in DOMAIN seen \cup {h.u} |-> IF v = h.u THEN local' ELSE seen[v]]
        /\ local' = ApplyDiff(local, h.ch)
    BY <1>1 DEF Deliver
  <2> HIDE DEF h
  <2>3. ASSUME NEW d \in Diffs', NEW l \in DOMAIN d.ch PROVE seen'[d.u][l] = d.ch[l]
    <3>1. CASE d \in Diffs
      <4>1. d.u \in DOMAIN seen /\ d.u # h.u
        BY <2>1, <3>1 DEF DiffsInOrder
      <4>2. seen'[d.u] = seen[d.u]
        BY <2>2, <4>1
      <4>3. QED BY <3>1, <4>2 DEF SeenSays
    <3>2. CASE d = h
      <4>1. seen'[d.u] = local'
        BY <2>2, <3>2
      <4>2. local \in Book /\ l \in Level
        BY <2>1, <3>2 DEF Types, StreamTypes, Changes
      <4>3. local'[l] = h.ch[l]
        BY <2>1, <2>2, <3>2, <4>2, ApplyParts
      <4>4. QED BY <3>2, <4>1, <4>3
    <3>3. QED BY <2>1, <3>1, <3>2
  <2>4. QED BY <2>3 DEF SeenSays
<1>2. CASE RestAnswer
  <2>1. Diffs = {} /\ ~Deliver
    BY <1>2 DEF RestAnswer, BootIsEmpty, Deliver
  <2>2. Diffs' = {}
    BY <2>1, DiffsFlow
  <2>3. QED BY <2>2 DEF SeenSays
<1>3. CASE ~Deliver /\ ~RestAnswer
  <2>1. Diffs' \subseteq Diffs
    BY <1>3, DiffsFlow
  <2>2. seen' = seen
    BY <1>3 DEF Next, Tick, Trade, Miss, Connect, Cut, Skip, PeriodicSnapshot, Prepare, Commit,
                RollBack, vars, stream, ghosts
  <2>3. QED BY <2>1, <2>2 DEF SeenSays
<1>4. QED BY <1>1, <1>2, <1>3

LEMMA SnapsAgreeNext ==
  ASSUME OrderIInv, SnapsAgree, [Next]_vars
  PROVE  SnapsAgree'
<1> USE DEF OrderIInv, KnowIInv
<1>1. \A s \in Snaps : s.u \in Nat /\ s.u =< lastU
  BY RecordedFacts DEF SnapsKnow
<1>2. CASE RestAnswer
  <2>1. Snaps = {} /\ ~Connect /\ ~PeriodicSnapshot
    BY <1>2 DEF RestAnswer, BootIsEmpty, Connect, PeriodicSnapshot, stream
  <2>2. Snaps' = {}
    BY <2>1, SnapsFlow
  <2>3. QED BY <2>2 DEF SnapsAgree
<1>3. CASE Deliver
  <2>1. Snaps' \subseteq Snaps
    BY <1>3, SnapsFlow, DeliverIsAlone
  <2>2. /\ Head(wire).u \in Nat /\ lastU' = Head(wire).u
        /\ Head(wire).u > lastU \/ (Head(wire).u = lastU /\ local' = local)
    BY <1>3, DeliverParts
  <2>3. lastU \in Nat
    BY StreamFacts
  <2>4. ASSUME NEW s \in Snaps', s.u = lastU' PROVE s.book = local'
    <3>1. s \in Snaps /\ s.u = lastU /\ local' = local
      BY <1>1, <2>1, <2>2, <2>3, <2>4
    <3>2. QED BY <3>1 DEF SnapsAgree
  <2>5. QED BY <2>1, <2>4 DEF SnapsAgree
<1>4. CASE ~RestAnswer /\ ~Deliver
  <2>1. UNCHANGED <<local, lastU>>
    BY <1>4 DEF Next, Tick, Trade, Miss, Connect, Cut, Skip, PeriodicSnapshot, Prepare, Commit,
                RollBack, vars, stream
  <2>2. ASSUME NEW s \in Snaps' PROVE s \in Snaps \/ (s.u = lastU /\ s.book = local)
    BY SnapsFlow DEF SnapshotOf
  <2>3. ASSUME NEW s \in Snaps', NEW r \in Snaps', s.u = r.u PROVE s.book = r.book
    <3>1. CASE s \in Snaps /\ r \in Snaps
      BY <2>3, <3>1 DEF SnapsAgree
    <3>2. CASE s \notin Snaps \/ r \notin Snaps
      BY <2>2, <2>3, <3>2 DEF SnapsAgree
    <3>3. QED BY <3>1, <3>2
  <2>4. ASSUME NEW s \in Snaps', s.u = lastU PROVE s.book = local
    BY <2>2, <2>4 DEF SnapsAgree
  <2>5. QED BY <2>1, <2>3, <2>4 DEF SnapsAgree
<1>5. QED BY <1>2, <1>3, <1>4

LEMMA WindowInit ==
  ASSUME Init
  PROVE  WindowIInv
<1>1. RecordIInv
  BY RecordInit
<1>2. BootIsEmpty /\ link = "boot"
  BY <1>1 DEF Init, RecordIInv, OrderIInv, KnowIInv
<1>3. Diffs = {} /\ Snaps = {}
  BY <1>2 DEF BootIsEmpty
<1>4. DOMAIN wire = {}
  BY DEF Init
<1>5. QED BY <1>1, <1>3, <1>4 DEF WindowIInv, TimesInOrder, SeenSays, SnapsAgree

LEMMA WindowNext ==
  ASSUME ~SnapInFlight, WindowIInv, [Next]_vars
  PROVE  WindowIInv'
BY RecordNext, TimesInOrderNext, SeenSaysNext, SnapsAgreeNext DEF WindowIInv, RecordIInv

(* Of recorded diffs the last in time is the one with the largest id.      *)
LEMMA LastIsMax ==
  ASSUME Types, TimesInOrder, NEW S \in SUBSET DOMAIN db.deltas, S # {}
  PROVE  LastInTime(db.deltas, S) = Max(S)
<1>1. PICK m : m = Max(S)
  OBVIOUS
<1>2. S \in SUBSET (0..MaxU) /\ MaxU \in Nat
  BY Constants DEF Types, TableTypes
<1>3. m \in S /\ m \in Nat /\ \A y \in S : y =< m /\ y \in Nat
  <2>1. Max(S) \in S /\ \A y \in S : y =< Max(S)
    BY <1>2, MaxOfSome
  <2>2. QED BY <1>1, <1>2, <2>1
<1>4. \A x \in S : db.deltas[x] \in Diffs /\ db.deltas[x].u = x /\ db.deltas[x].ts \in Nat
  BY RecordedFacts DEF Diffs, DbDiffs, Types, TableTypes
<1>5. \A x, y \in S : x < y => db.deltas[x].ts =< db.deltas[y].ts
  BY <1>4 DEF TimesInOrder
<1> DEFINE Ends(v) == \A w \in S \ {v} : \/ db.deltas[v].ts > db.deltas[w].ts
                                         \/ db.deltas[v].ts = db.deltas[w].ts /\ v > w
<1>6. Ends(m)
  <2> SUFFICES ASSUME NEW w \in S \ {m}
               PROVE  \/ db.deltas[m].ts > db.deltas[w].ts
                      \/ db.deltas[m].ts = db.deltas[w].ts /\ m > w
    OBVIOUS
  <2>1. w < m
    BY <1>3
  <2>2. db.deltas[w].ts =< db.deltas[m].ts
    BY <1>3, <1>5, <2>1
  <2>3. QED BY <1>3, <1>4, <2>1, <2>2
<1>7. ASSUME NEW x \in S, Ends(x) PROVE x = m
  <2> SUFFICES ASSUME x # m PROVE FALSE
    OBVIOUS
  <2>1. \/ db.deltas[x].ts > db.deltas[m].ts
        \/ db.deltas[x].ts = db.deltas[m].ts /\ x > m
    BY <1>3, <1>7
  <2>2. x < m /\ db.deltas[x].ts =< db.deltas[m].ts
    BY <1>3, <1>5
  <2>3. QED BY <1>3, <1>4, <2>1, <2>2
<1>8. LastInTime(db.deltas, S) = CHOOSE v \in S : Ends(v)
  BY DEF LastInTime
<1> HIDE DEF Ends
<1>9. (CHOOSE v \in S : Ends(v)) = m
  BY <1>3, <1>6, <1>7
<1>10. QED BY <1>1, <1>8, <1>9

LEMMA WindowTrue ==
  ASSUME WindowIInv
  PROVE  WindowAgreesWithReplay
<1> USE DEF WindowIInv, RecordIInv, OrderIInv, KnowIInv
<1> SUFFICES ASSUME NEW t0 \in DOMAIN db.snaps, NEW t1 \in t0..now, Walkable(t0, t1)
             PROVE  WindowBook(db, t0, t1) = ReconstructAtU(db, Max(KnownAt(t1)))
  BY DEF WindowAgreesWithReplay
<1>1. /\ \A t \in DOMAIN db.snaps : /\ t \in 0..MaxTime /\ t \in Nat /\ db.snaps[t] \in Snaps
                                    /\ db.snaps[t].u \in 0..MaxU /\ db.snaps[t].u \in Nat
                                    /\ db.snaps[t].ts = t /\ db.snaps[t].book \in Book
                                    /\ db.snaps[t] \in DbSnaps
      /\ \A v \in DOMAIN db.deltas : /\ v \in 0..MaxU /\ v \in Nat /\ db.deltas[v] \in Diffs
                                     /\ db.deltas[v].u = v /\ db.deltas[v].ts \in Nat
                                     /\ db.deltas[v] \in DbDiffs /\ v \in DOMAIN seen
      /\ now \in Nat /\ t1 \in Nat /\ t0 =< t1 /\ Cutoff \in Nat /\ MaxU \in Nat /\ MaxTime \in Nat
  <2>1. MaxU \in Nat /\ MaxTime \in Nat /\ now \in Nat /\ Retention \in Nat
    BY Constants, StreamFacts
  <2>2. ASSUME NEW t \in DOMAIN db.snaps
        PROVE  /\ t \in 0..MaxTime /\ t \in Nat /\ db.snaps[t] \in Snaps
               /\ db.snaps[t].u \in 0..MaxU /\ db.snaps[t].u \in Nat
               /\ db.snaps[t].ts = t /\ db.snaps[t].book \in Book
               /\ db.snaps[t] \in DbSnaps
    <3>1. t \in 0..MaxTime /\ db.snaps[t] \in Snap /\ db.snaps[t].ts = t
      BY DEF Types, TableTypes
    <3>2. db.snaps[t].u \in 0..MaxU /\ db.snaps[t].book \in Book
      BY <3>1 DEF Snap
    <3>3. QED BY <2>1, <3>1, <3>2 DEF Snaps, DbSnaps
  <2>3. ASSUME NEW v \in DOMAIN db.deltas
        PROVE  /\ v \in 0..MaxU /\ v \in Nat /\ db.deltas[v] \in Diffs
               /\ db.deltas[v].u = v /\ db.deltas[v].ts \in Nat
               /\ db.deltas[v] \in DbDiffs /\ v \in DOMAIN seen
    <3>1. v \in 1..MaxU /\ db.deltas[v] \in Diffs /\ db.deltas[v] \in DbDiffs /\ db.deltas[v].u = v
      BY DEF Types, TableTypes, Diffs, DbDiffs
    <3>2. QED BY <2>1, <3>1, RecordedFacts DEF DiffsInOrder
  <2>4. t0 \in Nat
    BY <2>2
  <2>5. t1 \in Nat /\ t0 =< t1
    BY <2>1, <2>4
  <2>6. Cutoff \in Nat
    BY <2>1 DEF Cutoff
  <2>7. QED BY <2>1, <2>2, <2>3, <2>5, <2>6
<1> DEFINE upTo == {s \in DOMAIN db.snaps : s =< t1}
           known == KnownAt(t1)
<1>2. PICK from : from = Max(upTo)
  OBVIOUS
<1>3. from \in DOMAIN db.snaps /\ from =< t1 /\ t0 =< from /\ from \in Nat
      /\ \A s \in DOMAIN db.snaps : s =< t1 => s =< from
  <2>1. upTo # {} /\ upTo \in SUBSET (0..MaxTime)
    BY <1>1
  <2>2. t0 \in upTo
    BY <1>1
  <2>3. \A s \in DOMAIN db.snaps : s =< t1 => s \in upTo
    OBVIOUS
  <2>4. upTo \subseteq {s \in DOMAIN db.snaps : s =< t1}
    OBVIOUS
  <2> HIDE DEF upTo
  <2>5. Max(upTo) \in upTo /\ \A y \in upTo : y =< Max(upTo)
    BY <1>1, <2>1, MaxOfSome
  <2>6. QED BY <1>1, <1>2, <2>2, <2>3, <2>4, <2>5
<1>4. PICK U : U = Max(known)
  OBVIOUS
<1>5. /\ U \in Nat
      /\ \A v \in DOMAIN db.deltas : db.deltas[v].ts =< t1 => v =< U
      /\ \A s \in DOMAIN db.snaps : s =< t1 => db.snaps[s].u =< U
      /\ \/ U \in DOMAIN db.deltas /\ db.deltas[U].ts =< t1
         \/ \E s \in DOMAIN db.snaps : s =< t1 /\ U = db.snaps[s].u
  <2>1. known = {v \in DOMAIN db.deltas : db.deltas[v].ts =< t1}
                \cup {db.snaps[s].u : s \in {s \in DOMAIN db.snaps : s =< t1}}
    BY DEF KnownAt
  <2>2. known \in SUBSET (0..MaxU) /\ db.snaps[from].u \in known
    BY <1>1, <1>3, <2>1
  <2> HIDE DEF known
  <2>3. Max(known) \in known /\ \A y \in known : y =< Max(known)
    BY <1>1, <2>2, MaxOfSome
  <2>4. U \in known /\ \A y \in known : y =< U
    BY <1>4, <2>3
  <2>5. U \in Nat
    BY <1>1, <2>2, <2>4
  <2>6. QED BY <2>1, <2>4, <2>5
<1>6. PICK f : f = db.snaps[from]
  OBVIOUS
<1>7. /\ f \in Snaps /\ f \in DbSnaps /\ f.u \in Nat /\ f.ts = from /\ f.book \in Book /\ f.u =< U
  BY <1>1, <1>3, <1>5, <1>6
<1>8. t0 >= Cutoff /\ (\A v \in DOMAIN db.deltas : db.deltas[v].ts # t0) /\ NoneLost(lost, f.u, U)
  BY <1>2, <1>4, <1>6 DEF Walkable, NoneLost
<1> DEFINE walked == {u \in DOMAIN db.deltas : /\ db.deltas[u].ts > t0 /\ db.deltas[u].ts >= from
                                               /\ db.deltas[u].ts =< t1}
<1>9. WindowBook(db, t0, t1) = ReplayByTime(f.book, db.deltas, walked)
  <2> DEFINE before == {t \in DOMAIN db.snaps : t =< t0}
             later(x) == {t \in DOMAIN db.snaps : x < t /\ t =< t1}
  <2>1. t0 \in before /\ before \in SUBSET (0..MaxTime) /\ before # {} /\ \A t \in before : t =< t0
    BY <1>1
  <2>2. FirstAnchor(db, t0) = Max(before)
    BY <2>1 DEF FirstAnchor
  <2>3. Max(before) = t0
    <3> HIDE DEF before
    <3>1. Max(before) \in before /\ t0 =< Max(before)
      BY <1>1, <2>1, MaxOfSome
    <3>2. Max(before) \in Nat /\ t0 \in Nat /\ Max(before) =< t0
      BY <1>1, <2>1, <3>1
    <3>3. QED BY <3>1, <3>2
  <2>4. PICK S : S = later(t0) \cup {t0}
    OBVIOUS
  <2>5. S \in SUBSET (0..MaxTime) /\ from \in S /\ \A x \in S : x =< from /\ x \in Nat
    BY <1>1, <1>3, <2>4
  <2>6. Max(S) = from
    <3>1. Max(S) \in S /\ from =< Max(S)
      BY <1>1, <2>5, MaxOfSome
    <3>2. QED BY <1>3, <2>5, <3>1
  <2>7. QED BY <1>6, <2>2, <2>3, <2>4, <2>6 DEF WindowBook
<1>10. \A v \in walked : f.u =< v /\ v =< U
  <2> TAKE v \in walked
  <2>1. db.deltas[v].u < f.u => db.deltas[v].ts < f.ts
    BY <1>1, <1>7 DEF SnapsInOrder
  <2>2. QED BY <1>1, <1>3, <1>5, <1>7, <2>1
<1>11. CASE U \in DOMAIN db.deltas /\ db.deltas[U].ts =< t1
  <2>1. U \in DOMAIN seen /\ seen[U] \in Book
    BY <1>1, <1>11 DEF Types, GhostTypes
  <2>2. ReconstructAtU(db, U) = seen[U]
    <3>1. PICK a : a = AnchorAt(db, U)
      OBVIOUS
    <3>2. from \in AnchorsAt(db, U)
      BY <1>3, <1>6, <1>7 DEF AnchorsAt
    <3>3. a \in AnchorsAt(db, U)
      BY <3>1, <3>2, AnchorExists
    <3>4. a \in DOMAIN db.snaps /\ db.snaps[a].u >= f.u
      <4>1. a \in DOMAIN db.snaps
        BY <3>3 DEF AnchorsAt
      <4>2. AnchorsAt(db, U) # {} /\ Types
        BY <1>1, <3>2
      <4>3. db.snaps[from].u =< db.snaps[a].u
        BY <3>1, <3>2, <4>2, AnchorIsLast
      <4>4. db.snaps[a].u \in Nat
        BY <1>1, <4>1
      <4>5. QED BY <1>6, <1>7, <4>1, <4>3, <4>4
    <3>5. a >= from
      <4>1. db.snaps[a].u > f.u => from < a
        BY <1>1, <1>7, <3>4 DEF SnapsInOrder
      <4>2. db.snaps[a].u = f.u => from =< a
        BY <1>1, <1>3, <1>6, <3>1, <3>2, AnchorIsLast
      <4>3. QED BY <1>1, <1>3, <1>7, <3>4, <4>1, <4>2
    <3>6. ~InPrunedSegment(U)
      <4>1. a >= Cutoff
        BY <1>1, <1>3, <1>8, <3>4, <3>5
      <4>2. QED BY <1>1, <3>1, <3>4, <4>1 DEF InPrunedSegment
    <3>7. Unbroken(U)
      <4>1. \A v \in lost : v \in Nat
        BY Constants DEF Types, GhostTypes
      <4>2. \A v \in lost : ~(db.snaps[a].u < v /\ v =< U)
        BY <1>1, <1>7, <1>8, <3>4, <4>1 DEF NoneLost
      <4>3. QED BY <3>1, <3>2, <4>2 DEF Unbroken
    <3>8. QED BY <1>11, <3>6, <3>7, ReplayTrue DEF ReplayIsExact
  <2>3. Exact(f)
    <3>1. f.ts >= Cutoff
      BY <1>1, <1>3, <1>7, <1>8
    <3>2. QED BY <1>7, <3>1 DEF ChainsAreExact
  <2>4. Shows(Diffs, seen[U], f, U)
    BY <1>7, <1>8, <2>1, <2>3 DEF Exact
  <2>5. \A v \in DOMAIN db.deltas : f.u < v /\ v =< U => v \in walked
    <3> SUFFICES ASSUME NEW v \in DOMAIN db.deltas, f.u < v, v =< U PROVE v \in walked
      OBVIOUS
    <3>1. db.deltas[v].ts >= from
      BY <1>1, <1>7 DEF SnapsInOrder
    <3>2. db.deltas[v].ts =< db.deltas[U].ts
      BY <1>1, <1>11 DEF TimesInOrder
    <3>3. db.deltas[v].ts # t0
      BY <1>8
    <3>4. db.deltas[v].ts =< t1
      BY <1>1, <1>11, <3>2
    <3>5. db.deltas[v].ts > t0
      BY <1>1, <1>3, <3>1, <3>3
    <3>6. QED BY <3>1, <3>4, <3>5
  <2>6. ASSUME NEW l \in Level
        PROVE  seen[U][l] = LET named == Naming(db.deltas, walked, l)
                            IN  IF named = {} THEN f.book[l]
                                ELSE db.deltas[LastInTime(db.deltas, named)].ch[l]
    <3> DEFINE named == Naming(db.deltas, walked, l)
               between == NamedIn(Diffs, f.u, U, l)
    <3>1. ASSUME NEW e \in between PROVE e.u \in named /\ db.deltas[e.u] = e /\ f.u < e.u
      <4>1. e \in Diffs /\ f.u < e.u /\ e.u =< U /\ l \in DOMAIN e.ch /\ e.u \in Nat
        BY RecordedFacts DEF NamedIn
      <4>2. e \in DbDiffs
        <5>1. e \in WriteDiffs \cup BufDiffs => U < e.u
          BY <1>1, <1>11 DEF DiffsInOrder
        <5>2. QED BY <1>5, <4>1, <5>1 DEF Diffs
      <4>3. e.u \in DOMAIN db.deltas /\ db.deltas[e.u] = e
        BY <4>2 DEF DbDiffs, Types, TableTypes
      <4>4. QED BY <2>5, <4>1, <4>3 DEF Naming
    <3>2. ASSUME NEW v \in named
          PROVE  /\ v \in walked /\ v \in DOMAIN db.deltas /\ l \in DOMAIN db.deltas[v].ch
                 /\ f.u < v => db.deltas[v] \in between
      <4>1. v \in walked /\ v \in DOMAIN db.deltas /\ l \in DOMAIN db.deltas[v].ch
        BY DEF Naming
      <4>2. v =< U /\ db.deltas[v].u = v /\ db.deltas[v] \in Diffs
        BY <1>1, <1>10, <4>1
      <4>3. QED BY <4>1, <4>2 DEF NamedIn
    <3>3. CASE named = {}
      <4>1. between = {}
        BY <3>1, <3>3
      <4>2. seen[U][l] = f.book[l]
        BY <2>4, <4>1 DEF Shows
      <4>3. QED BY <3>3, <4>2
    <3>4. CASE named # {}
      <4>1. named \in SUBSET DOMAIN db.deltas /\ named \in SUBSET (0..MaxU)
        BY <1>1, <3>2
      <4>2. PICK m : m = Max(named)
        OBVIOUS
      <4>3. PICK N : N = named
        OBVIOUS
      <4>4. m \in N /\ (\A y \in N : y =< m) /\ LastInTime(db.deltas, N) = m
        <5>1. N # {} /\ N \in SUBSET DOMAIN db.deltas /\ N \in SUBSET (0..MaxU) /\ m = Max(N)
          BY <3>4, <4>1, <4>2, <4>3
        <5>2. QED BY <1>1, <5>1, MaxOfSome, LastIsMax
      <4>5. m \in walked /\ m \in DOMAIN db.deltas /\ l \in DOMAIN db.deltas[m].ch
            /\ (f.u < m => db.deltas[m] \in between) /\ m \in Nat
        BY <1>1, <3>2, <4>3, <4>4
      <4>6. CASE f.u < m
        <5>1. db.deltas[m] \in between /\ db.deltas[m].u = m
          BY <1>1, <4>5, <4>6
        <5>2. PICK e \in between : seen[U][l] = e.ch[l] /\ \A g \in between : g.u =< e.u
          BY <2>4, <5>1 DEF Shows
        <5>3. e.u \in named /\ db.deltas[e.u] = e /\ m =< e.u
          BY <3>1, <5>1, <5>2
        <5>4. e.u =< m /\ e.u \in Nat
          BY <1>1, <3>2, <4>3, <4>4, <5>3
        <5>5. e = db.deltas[m]
          BY <4>5, <5>3, <5>4
        <5>6. QED BY <3>4, <4>3, <4>4, <5>2, <5>5
      <4>7. CASE ~(f.u < m)
        <5>1. m = f.u
          BY <1>7, <1>10, <4>5, <4>7
        <5>2. between = {}
          <6>1. ASSUME NEW e \in between PROVE FALSE
            <7>1. e.u \in named /\ db.deltas[e.u] = e /\ f.u < e.u
              BY <3>1
            <7>2. e.u \in Nat /\ e.u =< m
              BY <1>1, <3>2, <4>3, <4>4, <7>1
            <7>3. QED BY <1>7, <5>1, <7>1, <7>2
          <6>2. QED BY <6>1, Zenon
        <5>3. seen[U][l] = f.book[l]
          BY <2>4, <5>2 DEF Shows
        <5>4. Shows(Diffs, seen[m], f, m)
          <6>1. NoneLost(lost, f.u, m)
            <7>1. \A v \in lost : v \in Nat
              BY Constants DEF Types, GhostTypes
            <7>2. QED BY <1>7, <5>1, <7>1 DEF NoneLost
          <6>2. m \in DOMAIN seen /\ f.u =< m
            BY <1>1, <1>7, <4>5, <5>1
          <6>3. QED BY <2>3, <6>1, <6>2 DEF Exact
        <5>5. NamedIn(Diffs, f.u, m, l) = {}
          BY <1>7, <5>1, RecordedFacts DEF NamedIn
        <5>6. seen[m][l] = f.book[l]
          BY <5>4, <5>5 DEF Shows
        <5>7. seen[m][l] = db.deltas[m].ch[l]
          BY <1>1, <4>5 DEF SeenSays
        <5>8. QED BY <3>4, <4>3, <4>4, <5>3, <5>6, <5>7
      <4>8. QED BY <4>6, <4>7
    <3>5. QED BY <3>3, <3>4
  <2> HIDE DEF walked
  <2>7. ReplayByTime(f.book, db.deltas, walked) = seen[U]
    <3>1. ReplayByTime(f.book, db.deltas, walked)
            = [l \in Level |-> LET named == Naming(db.deltas, walked, l)
                               IN  IF named = {} THEN f.book[l]
                                   ELSE db.deltas[LastInTime(db.deltas, named)].ch[l]]
      BY DEF ReplayByTime
    <3>2. seen[U] = [l \in Level |-> seen[U][l]]
      BY <2>1 DEF Book
    <3>3. QED BY <2>6, <3>1, <3>2
  <2>8. QED BY <1>4, <1>9, <2>2, <2>7
<1>12. CASE /\ ~(U \in DOMAIN db.deltas /\ db.deltas[U].ts =< t1)
            /\ \E s \in DOMAIN db.snaps : s =< t1 /\ U = db.snaps[s].u
  <2>1. U = f.u
    <3>1. PICK s \in DOMAIN db.snaps : s =< t1 /\ U = db.snaps[s].u
      BY <1>12
    <3>2. f.u < U => from < s
      BY <1>1, <1>7, <3>1 DEF SnapsInOrder
    <3>3. s =< from /\ s \in Nat
      BY <1>1, <1>3, <3>1
    <3>4. QED BY <1>3, <1>5, <1>7, <3>2, <3>3
  <2>2. walked = {}
    <3> SUFFICES ASSUME NEW v \in walked PROVE FALSE
      OBVIOUS
    <3>1. v = U /\ v \in DOMAIN db.deltas /\ db.deltas[v].ts =< t1
      BY <1>1, <1>7, <1>10, <2>1
    <3>2. QED BY <1>12, <3>1
  <2>3. WindowBook(db, t0, t1) = f.book
    <3>1. \A l : Naming(db.deltas, {}, l) = {}
      BY DEF Naming
    <3>2. ReplayByTime(f.book, db.deltas, {}) = [l \in Level |-> f.book[l]]
      BY <3>1 DEF ReplayByTime
    <3>3. QED BY <1>7, <1>9, <2>2, <3>2 DEF Book
  <2>4. ReconstructAtU(db, U) = f.book
    <3>1. PICK a : a = AnchorAt(db, U)
      OBVIOUS
    <3>2. from \in AnchorsAt(db, U) /\ AnchorsAt(db, U) # {}
      BY <1>3, <1>6, <1>7 DEF AnchorsAt
    <3>3. a \in AnchorsAt(db, U)
      BY <3>1, <3>2, AnchorExists
    <3>4. a \in DOMAIN db.snaps /\ db.snaps[a].u =< U /\ db.snaps[a].u >= f.u
      BY <1>6, <3>1, <3>2, <3>3, AnchorIsLast DEF AnchorsAt
    <3>5. PICK s : s = db.snaps[a]
      OBVIOUS
    <3>6. s.u = U /\ s \in Snaps
      BY <1>1, <1>5, <1>7, <2>1, <3>4, <3>5
    <3>7. s.book = f.book
      BY <1>7, <2>1, <3>6 DEF SnapsAgree
    <3>8. {v \in DOMAIN db.deltas : s.u < v /\ v =< U} = {}
      BY <1>1, <1>5, <3>6
    <3>9. ReconstructAtU(db, U) = ReplayById(s.book, db.deltas, {})
      BY <3>1, <3>2, <3>5, <3>8 DEF ReconstructAtU
    <3>10. \A l : Naming(db.deltas, {}, l) = {}
      BY DEF Naming
    <3>11. ReplayById(f.book, db.deltas, {}) = [l \in Level |-> f.book[l]]
      BY <3>10 DEF ReplayById
    <3>12. QED BY <1>7, <3>7, <3>9, <3>11 DEF Book
  <2>5. QED BY <1>4, <2>3, <2>4
<1>13. QED BY <1>5, <1>11, <1>12

(* The heat map's walk by time and the replay by id show the same book for *)
(* every moment of the retained hours: ids, clock and snapshots never      *)
(* disagree on what came first.                                            *)
THEOREM WindowHolds == ASSUME ~SnapInFlight PROVE Spec => []WindowAgreesWithReplay
<1>1. Init => WindowIInv
  BY WindowInit
<1>2. WindowIInv /\ [Next]_vars => WindowIInv'
  BY WindowNext
<1>3. WindowIInv => WindowAgreesWithReplay
  BY WindowTrue
<1>4. QED BY <1>1, <1>2, <1>3, PTL DEF Spec
=============================================================================
