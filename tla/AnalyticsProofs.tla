---------------------------- MODULE AnalyticsProofs ----------------------------
(***************************************************************************)
(* Proofs about the readings of the analytics.  What a scan reads out of   *)
(* the buckets follows from them, and agrees with the scan before it; a    *)
(* verdict is the same by every way to it; and the series and thresholds   *)
(* of a selection are those of their definitions: for any buckets, cap and *)
(* thresholds.                                                             *)
(***************************************************************************)
EXTENDS Analytics, SequenceTheorems, FiniteSetTheorems, WellFoundedInduction, TLAPS

(* Induction on the naturals, about sets.                                  *)
LEMMA EveryNatural ==
  ASSUME NEW T, 0 \in T, \A n \in Nat : n \in T => n + 1 \in T
  PROVE  Nat \subseteq T
<1> SUFFICES ASSUME Nat \ T # {} PROVE FALSE
  OBVIOUS
<1>1. PICK R : R = {ss \in Nat \X Nat : ss[1] < ss[2]}
  OBVIOUS
<1>2. IsWellFoundedOn(R, Nat)
  BY <1>1, NatLessThanWellFounded DEF OpToRel
<1>3. PICK x \in Nat \ T : \A y \in Nat \ T : <<y, x>> \notin R
  <2>1. Nat \ T \subseteq Nat
    OBVIOUS
  <2>2. QED BY <1>2, <2>1, WFMin
<1>4. \A y \in Nat : y < x => <<y, x>> \in R
  BY <1>1
<1>5. x # 0 /\ x - 1 \in Nat /\ x - 1 < x
  BY <1>3
<1>6. x - 1 \in T
  BY <1>3, <1>4, <1>5
<1>7. x - 1 + 1 \in T
  BY <1>5, <1>6
<1>8. QED BY <1>3, <1>7

(* The least and the greatest of some numbers.                             *)
LEMMA LeastOf ==
  ASSUME NEW E, E \subseteq Nat, E # {}
  PROVE  Min(E) \in E /\ \A y \in E : Min(E) <= y
<1>1. \E x \in E : \A y \in E : x <= y
  <2>1. PICK T : T = {n \in Nat : \A y \in E : n <= y}
    OBVIOUS
  <2>2. SUFFICES ASSUME ~(\E x \in E : \A y \in E : x <= y) PROVE FALSE
    OBVIOUS
  <2>3. 0 \in T
    BY <2>1
  <2>4. ASSUME NEW n \in Nat, n \in T PROVE n + 1 \in T
    <3>1. n \notin E
      BY <2>1, <2>2, <2>4
    <3>2. \A y \in E : n <= y /\ n # y
      BY <2>1, <2>4, <3>1
    <3>3. QED BY <2>1, <3>2
  <2>5. Nat \subseteq T
    BY <2>3, <2>4, EveryNatural
  <2>6. PICK e \in E : TRUE
    OBVIOUS
  <2>7. e \in Nat /\ e + 1 \in Nat
    OBVIOUS
  <2>8. e + 1 \in T
    BY <2>5, <2>7
  <2>9. e + 1 <= e
    BY <2>1, <2>8
  <2>10. QED BY <2>7, <2>9
<1>2. QED BY <1>1 DEF Min

LEMMA GreatestOf ==
  ASSUME NEW E, NEW n \in Nat, E \subseteq 1..n, E # {}
  PROVE  Max(E) \in E /\ \A y \in E : y <= Max(E)
<1>1. PICK F : F = {n - y : y \in E}
  OBVIOUS
<1>2. F \subseteq Nat /\ F # {}
  <2>1. ASSUME NEW y \in E PROVE n - y \in Nat
    <3>1. y \in 1..n
      OBVIOUS
    <3>2. QED BY <3>1
  <2>2. QED BY <1>1, <2>1
<1>3. PICK m : m = Min(F)
  OBVIOUS
<1>4. m \in F /\ \A y \in F : m <= y
  BY <1>2, <1>3, LeastOf
<1>5. PICK x \in E : m = n - x
  BY <1>1, <1>4
<1>6. \A y \in E : y <= x
  BY <1>1, <1>4, <1>5
<1>7. QED BY <1>6 DEF Max

(* The history is a sequence, whatever its buckets are.                    *)
HistoryIsSeq == \E S : history \in Seq(S)

LEMMA InitHistoryIsSeq == AnalyticsInit => HistoryIsSeq
<1>1. ASSUME AnalyticsInit PROVE history \in Seq({})
  BY <1>1 DEF AnalyticsInit
<1>2. QED BY <1>1 DEF HistoryIsSeq

LEMMA ClosingAppends ==
  ASSUME NEW S, history \in Seq(S), NEW shape, BucketCloses(shape)
  PROVE  \E b : /\ history' \in Seq(S \cup {b})
                /\ \/ history' = Append(history, b)
                   \/ history' = Tail(Append(history, b))
<1>1. PICK t : t = (IF history = <<>> THEN 1 ELSE history[Len(history)].t + shape.dt)
  OBVIOUS
<1>2. PICK b : b = [shape EXCEPT !.n = total + 1, !.t = t]
  OBVIOUS
<1>3. history' = Kept(Append(history, b))
  BY <1>1, <1>2 DEF BucketCloses
<1>4. PICK s : s = Append(history, b)
  OBVIOUS
<1>5. s \in Seq(S \cup {b}) /\ s # <<>>
  BY <1>4
<1>6. Tail(s) \in Seq(S \cup {b})
  BY <1>5
<1>7. history' = s \/ history' = Tail(s)
  BY <1>3, <1>4 DEF Kept
<1>8. QED BY <1>4, <1>5, <1>6, <1>7

LEMMA NextHistoryIsSeq == HistoryIsSeq /\ [AnalyticsNext]_analyticsVars => HistoryIsSeq'
<1> SUFFICES ASSUME HistoryIsSeq, [AnalyticsNext]_analyticsVars PROVE HistoryIsSeq'
  OBVIOUS
<1>1. PICK S : history \in Seq(S)
  BY DEF HistoryIsSeq
<1>2. ASSUME NEW shape, BucketCloses(shape) PROVE HistoryIsSeq'
  <2>1. \E b : history' \in Seq(S \cup {b})
    BY <1>1, <1>2, ClosingAppends
  <2>2. QED BY <2>1 DEF HistoryIsSeq
<1>3. CASE UNCHANGED analyticsVars
  BY <1>1, <1>3 DEF analyticsVars, HistoryIsSeq
<1>4. QED BY <1>2, <1>3 DEF AnalyticsNext

LEMMA TurnsAreIndices ==
  ASSUME NEW s, Len(s) \in Nat, NEW dir
  PROVE  Relevant(s, dir) \subseteq 1..Len(s) /\ Relevant(s, dir) \subseteq Nat
BY DEF Relevant, Crossings

(* What was prepared stays prepared when the series grows.                 *)
LEMMA TurnsStay ==
  ASSUME NEW s, NEW t, NEW n \in Nat, Len(s) = n, Len(t) = n + 1, \A i \in 1..n : t[i] = s[i],
         NEW dir, NEW k \in Relevant(s, dir), PreOk(s, k)
  PROVE  k \in Relevant(t, dir) /\ PreOk(t, k)
<1>1. k \in 2..n /\ k \in 2..(n + 1) /\ k \in 1..n /\ k - 1 \in 1..n
  BY DEF Relevant, Crossings
<1>2. t[k] = s[k] /\ t[k - 1] = s[k - 1]
  BY <1>1
<1>3. k \in Relevant(t, dir)
  BY <1>1, <1>2 DEF Relevant, Crossings
<1>4. {j \in 1..(k - 1) : SameSide(t[j], t[k - 1])} = {j \in 1..(k - 1) : SameSide(s[j], s[k - 1])}
  <2>1. \A j \in 1..(k - 1) : t[j] = s[j]
    BY <1>1
  <2>2. QED BY <1>2, <2>1
<1>5. PreHeld(t, k) = PreHeld(s, k)
  BY <1>4 DEF PreHeld
<1>6. QED BY <1>3, <1>5 DEF PreOk

Prepared(s, dir)  == {k \in Relevant(s, dir) : PreOk(s, k)}
Confirmed(s, dir) == {k \in Prepared(s, dir) : PostN(s, k) >= MinRemainder /\ PostOk(s, k)}
Forming(s, dir)   == {k \in Prepared(s, dir) : PostN(s, k) < MinRemainder}

(* The verdict, by cases.                                                  *)
LEMMA FlipCases ==
  ASSUME NEW s, NEW dir, BalanceFlip(s, dir) # NoReading
  PROVE  /\ Confirmed(s, dir) # {} =>
              BalanceFlip(s, dir).kind = "flip" /\ BalanceFlip(s, dir).k = Min(Confirmed(s, dir))
         /\ Confirmed(s, dir) = {} /\ Forming(s, dir) # {} =>
              BalanceFlip(s, dir).kind = "forming" /\ BalanceFlip(s, dir).k = Max(Forming(s, dir))
         /\ Confirmed(s, dir) = {} /\ Forming(s, dir) = {} => BalanceFlip(s, dir).kind = "none"
<1>1. PICK c, f, m, h, g :
        /\ c = Confirmed(s, dir) /\ f = Forming(s, dir)
        /\ m = Min({k \in DOMAIN s : \A j \in DOMAIN s : AbsOf(s[k]) <= AbsOf(s[j])})
        /\ h = PostHeld(s, Min(c)) /\ g = PostHeld(s, Max(f))
  OBVIOUS
<1>2. BalanceFlip(s, dir) =
        IF c # {} THEN [kind |-> "flip", k |-> Min(c), held |-> h]
        ELSE IF f # {} THEN [kind |-> "forming", k |-> Max(f), held |-> g]
        ELSE [kind |-> "none", k |-> m, held |-> 0]
  BY <1>1 DEF BalanceFlip, Confirmed, Forming, Prepared
<1>3. QED BY <1>1, <1>2

LEMMA FlipSolidifies ==
  ASSUME NEW s, NEW t, NEW n \in Nat, Len(s) = n, Len(t) = n + 1, \A i \in 1..n : t[i] = s[i], NEW dir
  PROVE  LET old == BalanceFlip(s, dir)
             new == BalanceFlip(t, dir)
         IN  /\ old # NoReading /\ new # NoReading /\ old.kind = "forming"
                  /\ PostN(t, old.k) >= MinRemainder /\ PostOk(t, old.k)
                => new.kind = "flip" /\ new.k <= old.k
             /\ new # NoReading /\ new.kind = "flip" =>
                  100 * PreHeld(t, new.k) >= SustainMin * (new.k - 1)
                  /\ new.k > MinRemainder /\ PostN(t, new.k) >= MinRemainder
<1>1. PICK old, new, c, f :
        /\ old = BalanceFlip(s, dir) /\ new = BalanceFlip(t, dir)
        /\ c = Confirmed(t, dir) /\ f = Forming(s, dir)
  OBVIOUS
<1>2. c \subseteq Nat /\ f \subseteq 1..n /\ f \subseteq Nat
  <2>1. Relevant(t, dir) \subseteq Nat /\ Relevant(s, dir) \subseteq 1..n /\ Relevant(s, dir) \subseteq Nat
    BY TurnsAreIndices
  <2>2. QED BY <1>1, <2>1 DEF Confirmed, Forming, Prepared
<1>3. ASSUME new # NoReading, c # {}
      PROVE  new.kind = "flip" /\ new.k \in c /\ \A k \in c : new.k <= k
  <2>1. new.kind = "flip" /\ new.k = Min(c)
    BY <1>1, <1>3, FlipCases
  <2>2. QED BY <1>2, <1>3, <2>1, LeastOf
<1>4. ASSUME new # NoReading, new.kind = "flip" PROVE c # {}
  BY <1>1, <1>4, FlipCases
<1>5. ASSUME old # NoReading, old.kind = "forming" PROVE old.k \in f
  <2>1. f # {} /\ old.k = Max(f)
    BY <1>1, <1>5, FlipCases
  <2>2. QED BY <1>2, <2>1, GreatestOf
<1>6. ASSUME old # NoReading, new # NoReading, old.kind = "forming",
             PostN(t, old.k) >= MinRemainder, PostOk(t, old.k)
      PROVE  new.kind = "flip" /\ new.k <= old.k
  <2>1. PICK k : k = old.k
    OBVIOUS
  <2>2. k \in Relevant(s, dir) /\ PreOk(s, k)
    BY <1>1, <1>5, <1>6, <2>1 DEF Forming, Prepared
  <2>3. k \in Relevant(t, dir) /\ PreOk(t, k)
    BY <2>2, TurnsStay
  <2>4. k \in c
    BY <1>1, <1>6, <2>1, <2>3 DEF Confirmed, Prepared
  <2>5. QED BY <1>3, <1>6, <2>1, <2>4
<1>7. ASSUME new # NoReading, new.kind = "flip"
      PROVE  /\ 100 * PreHeld(t, new.k) >= SustainMin * (new.k - 1)
             /\ new.k > MinRemainder /\ PostN(t, new.k) >= MinRemainder
  <2>1. PICK k : k = new.k
    OBVIOUS
  <2>2. k \in c /\ k \in Nat
    BY <1>2, <1>3, <1>4, <1>7, <2>1
  <2>3. PreOk(t, k) /\ PostN(t, k) >= MinRemainder
    BY <1>1, <2>2 DEF Confirmed, Prepared
  <2>4. k - 1 >= MinRemainder /\ 100 * PreHeld(t, k) >= SustainMin * (k - 1)
    BY <2>3 DEF PreOk
  <2>5. k > MinRemainder
    <3>1. MinRemainder \in Nat
      BY RegionStateAssumption
    <3>2. QED BY <2>2, <2>4, <3>1
  <2>6. QED BY <2>1, <2>3, <2>4, <2>5
<1>8. QED BY <1>1, <1>6, <1>7

(* A forming flip solidifies or vanishes, and a confirmed one was prepared *)
(* by an old side that held, from scan to scan, for any buckets            *)
(* (balance_flip).                                                         *)
THEOREM FlipHolds == AnalyticsSpec => FormingFlipSolidifies
<1>1. AnalyticsInit => HistoryIsSeq
  BY InitHistoryIsSeq
<1>2. HistoryIsSeq /\ [AnalyticsNext]_analyticsVars => HistoryIsSeq'
  BY NextHistoryIsSeq
<1> DEFINE Solidifies ==
      Len(history') > Len(history) =>
          LET s == Deltas(history)
              t == Deltas(history')
          IN  \A dir \in {-1, 0, 1} :
                LET old == BalanceFlip(s, dir)
                    new == BalanceFlip(t, dir)
                IN  /\ old # NoReading /\ new # NoReading /\ old.kind = "forming"
                         /\ PostN(t, old.k) >= MinRemainder /\ PostOk(t, old.k)
                       => new.kind = "flip" /\ new.k <= old.k
                    /\ new # NoReading /\ new.kind = "flip" =>
                         100 * PreHeld(t, new.k) >= SustainMin * (new.k - 1)
                         /\ new.k > MinRemainder /\ PostN(t, new.k) >= MinRemainder
<1>3. HistoryIsSeq /\ [AnalyticsNext]_analyticsVars => [Solidifies]_analyticsVars
  <2>1. SUFFICES ASSUME HistoryIsSeq, NEW shape, BucketCloses(shape), Len(history') > Len(history)
                 PROVE  Solidifies
    BY DEF AnalyticsNext
  <2>2. PICK S : history \in Seq(S)
    BY <2>1 DEF HistoryIsSeq
  <2>3. PICK b : /\ history' \in Seq(S \cup {b})
                 /\ \/ history' = Append(history, b)
                    \/ history' = Tail(Append(history, b))
    BY <2>1, <2>2, ClosingAppends
  <2>4. PICK h, n : h = history /\ n = Len(history)
    OBVIOUS
  <2>5. n \in Nat /\ DOMAIN h = 1..n
    BY <2>2, <2>4
  <2>6. history' = Append(h, b)
    <3>1. Len(Tail(Append(h, b))) = n
      <4>1. PICK q : q = Append(h, b)
        OBVIOUS
      <4>2. q \in Seq(S \cup {b}) /\ Len(q) = n + 1 /\ q # <<>>
        BY <2>2, <2>4, <4>1
      <4>3. Len(Tail(q)) = Len(q) - 1
        BY <4>2
      <4>4. (n + 1) - 1 = n
        BY <2>5
      <4>5. QED BY <4>1, <4>2, <4>3, <4>4, Zenon
    <3>2. Len(history') # n
      BY <2>1, <2>4, <2>5
    <3>3. history' # Tail(Append(h, b))
      BY <3>1, <3>2, Zenon
    <3>4. QED BY <2>3, <2>4, <3>3, Zenon
  <2>7. PICK g : g = history'
    OBVIOUS
  <2>8. Len(g) = n + 1 /\ DOMAIN g = 1..(n + 1) /\ \A i \in 1..n : g[i] = h[i]
    BY <2>2, <2>4, <2>6, <2>7
  <2>9. PICK s, t : s = Deltas(h) /\ t = Deltas(g)
    OBVIOUS
  <2>10. /\ s = [k \in 1..n |-> BuyVol(h[k]) - SellVol(h[k])]
         /\ t = [k \in 1..(n + 1) |-> BuyVol(g[k]) - SellVol(g[k])]
    BY <2>5, <2>8, <2>9 DEF Deltas
  <2>11. Len(s) = n /\ Len(t) = n + 1
    BY <2>5, <2>10
  <2>12. \A i \in 1..n : t[i] = s[i]
    BY <2>5, <2>8, <2>10
  <2>13. QED BY <2>4, <2>5, <2>7, <2>9, <2>11, <2>12, FlipSolidifies
<1>4. QED BY <1>1, <1>2, <1>3, PTL DEF AnalyticsSpec, FormingFlipSolidifies

-----------------------------------------------------------------------------
(* Folds over finite sets. *)

Inductive(S, T) == \A s \in SUBSET S : (\A x \in s : s \ {x} \in T) => s \in T
Covers(S, T)    == SUBSET S \subseteq T

(* Induction on the size of the subsets of a finite set.                   *)
LEMMA EverySubset ==
  ASSUME NEW S, IsFiniteSet(S), NEW T, Inductive(S, T)
  PROVE  Covers(S, T)
<1>1. PICK R : R = {n \in Nat : \A s \in SUBSET S : Cardinality(s) = n => s \in T}
  OBVIOUS
<1>2. \A s \in SUBSET S : IsFiniteSet(s) /\ Cardinality(s) \in Nat
  BY FS_Subset, FS_CardinalityType
<1>3. 0 \in R
  <2>1. ASSUME NEW s \in SUBSET S, Cardinality(s) = 0 PROVE s \in T
    <3>1. s = {}
      BY <1>2, <2>1, FS_EmptySet
    <3>2. QED BY <3>1 DEF Inductive
  <2>2. QED BY <1>1, <2>1
<1>4. ASSUME NEW n \in Nat, n \in R PROVE n + 1 \in R
  <2>1. ASSUME NEW s \in SUBSET S, Cardinality(s) = n + 1 PROVE s \in T
    <3>1. ASSUME NEW x \in s PROVE s \ {x} \in T
      <4>1. Cardinality(s \ {x}) = Cardinality(s) - 1
        BY <1>2, FS_RemoveElement
      <4>2. Cardinality(s \ {x}) = n
        BY <2>1, <4>1
      <4>3. QED BY <1>1, <1>4, <4>2
    <3>2. QED BY <3>1 DEF Inductive
  <2>2. QED BY <1>1, <2>1
<1>5. Nat \subseteq R
  BY <1>3, <1>4, EveryNatural
<1>6. QED BY <1>1, <1>2, <1>5 DEF Covers

(* A choice function c, an operation closed on D, and the recursion over   *)
(* the subsets of S that takes one chosen element at a time.               *)
Chooses(c, S)    == \A s \in SUBSET S : s # {} => c[s] \in s
Closed(op, S, D) == \A d \in D, x \in S : op[x][d] \in D
Solves(f, S, base, c, op) ==
    f = [s \in SUBSET S |-> IF s = {} THEN base ELSE op[c[s]][f[s \ {c[s]}]]]
Agrees(g, S, D, base, c, op) ==
    /\ g[{}] = base
    /\ \A s \in SUBSET S : s # {} /\ g[s \ {c[s]}] \in D => g[s] = op[c[s]][g[s \ {c[s]}]]
AlikeOn(g, f, S) == \A s \in SUBSET S : g[s] = f[s]

(* The recursion has a solution.                                           *)
LEMMA FoldExists ==
  ASSUME NEW S, IsFiniteSet(S), NEW D, NEW base \in D,
         NEW c, Chooses(c, S), NEW op, Closed(op, S, D)
  PROVE  \E f \in [SUBSET S -> D] : Solves(f, S, base, c, op)
<1>1. PICK B : B = [n \in Nat |-> {s \in SUBSET S : Cardinality(s) <= n}]
  OBVIOUS
<1>2. \A s \in SUBSET S : IsFiniteSet(s) /\ Cardinality(s) \in Nat
  BY FS_Subset, FS_CardinalityType
<1>3. ASSUME NEW s \in SUBSET S, s # {}
      PROVE  s \ {c[s]} \in SUBSET S /\ c[s] \in S /\ Cardinality(s \ {c[s]}) = Cardinality(s) - 1
  <2>1. c[s] \in s
    BY <1>3 DEF Chooses
  <2>2. QED BY <1>2, <2>1, FS_RemoveElement
<1>4. PICK T : T = {n \in Nat : \E f \in [B[n] -> D] :
                      \A s \in B[n] : f[s] = IF s = {} THEN base ELSE op[c[s]][f[s \ {c[s]}]]}
  OBVIOUS
<1>5. 0 \in T
  <2>1. B[0] = {{}}
    <3>1. ASSUME NEW s \in SUBSET S, Cardinality(s) <= 0 PROVE s = {}
      <4>1. Cardinality(s) = 0
        BY <1>2, <3>1
      <4>2. QED BY <1>2, <4>1, FS_EmptySet
    <3>2. {} \in SUBSET S /\ Cardinality({}) <= 0
      BY FS_EmptySet
    <3>3. QED BY <1>1, <3>1, <3>2
  <2>2. PICK f : f = [s \in B[0] |-> base]
    OBVIOUS
  <2>3. f \in [B[0] -> D] /\ \A s \in B[0] : s = {} /\ f[s] = base
    BY <2>1, <2>2
  <2>4. QED BY <1>4, <2>3
<1>6. ASSUME NEW n \in Nat, n \in T PROVE n + 1 \in T
  <2>1. PICK f \in [B[n] -> D] :
          \A s \in B[n] : f[s] = IF s = {} THEN base ELSE op[c[s]][f[s \ {c[s]}]]
    BY <1>4, <1>6
  <2>2. PICK g : g = [s \in B[n + 1] |-> IF s \in B[n] THEN f[s] ELSE op[c[s]][f[s \ {c[s]}]]]
    OBVIOUS
  <2>3. B[n] = {s \in SUBSET S : Cardinality(s) <= n}
        /\ B[n + 1] = {s \in SUBSET S : Cardinality(s) <= n + 1}
    BY <1>1
  <2>4. B[n] \subseteq B[n + 1]
    BY <1>2, <2>3
  <2>5. ASSUME NEW s \in B[n + 1], s # {} PROVE s \ {c[s]} \in B[n] /\ c[s] \in S
    <3>1. s \in SUBSET S /\ Cardinality(s) <= n + 1 /\ Cardinality(s) \in Nat
      BY <1>2, <2>3
    <3>2. s \ {c[s]} \in SUBSET S /\ Cardinality(s \ {c[s]}) = Cardinality(s) - 1 /\ c[s] \in S
      BY <1>3, <2>5, <3>1
    <3>3. Cardinality(s \ {c[s]}) <= n
      BY <3>1, <3>2
    <3>4. QED BY <2>3, <3>2, <3>3
  <2>6. \A s \in B[n + 1] : s \notin B[n] => s # {}
    <3>1. {} \in B[n]
      BY <2>3, FS_EmptySet
    <3>2. QED BY <3>1
  <2>7. ASSUME NEW s \in B[n + 1], s # {} PROVE op[c[s]][f[s \ {c[s]}]] \in D
    <3>1. f[s \ {c[s]}] \in D /\ c[s] \in S
      BY <2>5, <2>7
    <3>2. QED BY <3>1 DEF Closed
  <2>8. g \in [B[n + 1] -> D]
    BY <2>2, <2>6, <2>7
  <2>9. ASSUME NEW s \in B[n + 1]
        PROVE  g[s] = IF s = {} THEN base ELSE op[c[s]][g[s \ {c[s]}]]
    <3>1. s # {} => g[s \ {c[s]}] = f[s \ {c[s]}]
      BY <2>2, <2>4, <2>5
    <3>2. CASE s \in B[n]
      BY <2>1, <2>2, <2>9, <3>1, <3>2
    <3>3. CASE s \notin B[n]
      BY <2>2, <2>6, <2>9, <3>1, <3>3
    <3>4. QED BY <3>2, <3>3
  <2>10. n + 1 \in Nat
    OBVIOUS
  <2>11. QED BY <1>4, <2>8, <2>9, <2>10
<1>7. Nat \subseteq T
  BY <1>5, <1>6, EveryNatural
<1>8. PICK n \in Nat : n = Cardinality(S)
  BY FS_CardinalityType
<1>9. B[n] = SUBSET S
  <2>1. \A s \in SUBSET S : Cardinality(s) <= n
    BY <1>8, FS_Subset
  <2>2. QED BY <1>1, <2>1
<1>10. PICK f \in [SUBSET S -> D] :
          \A s \in SUBSET S : f[s] = IF s = {} THEN base ELSE op[c[s]][f[s \ {c[s]}]]
  <2>1. n \in T
    BY <1>7
  <2>2. \E f \in [B[n] -> D] :
          \A s \in B[n] : f[s] = IF s = {} THEN base ELSE op[c[s]][f[s \ {c[s]}]]
    BY <1>4, <2>1
  <2>3. QED BY <1>9, <2>2
<1>11. Solves(f, S, base, c, op)
  BY <1>10 DEF Solves
<1>12. QED BY <1>11

(* And only one.                                                           *)
LEMMA FoldIsUnique ==
  ASSUME NEW S, IsFiniteSet(S), NEW D, NEW base \in D, NEW c, Chooses(c, S), NEW op,
         NEW f \in [SUBSET S -> D], Solves(f, S, base, c, op),
         NEW g, Agrees(g, S, D, base, c, op)
  PROVE  AlikeOn(g, f, S)
<1>1. PICK T : T = {s \in SUBSET S : g[s] = f[s]}
  OBVIOUS
<1>2. ASSUME NEW s \in SUBSET S, \A x \in s : s \ {x} \in T PROVE s \in T
  <2>1. CASE s = {}
    BY <1>1, <2>1 DEF Solves, Agrees
  <2>2. CASE s # {}
    <3>1. c[s] \in s /\ s \ {c[s]} \in SUBSET S
      BY <2>2 DEF Chooses
    <3>2. g[s \ {c[s]}] = f[s \ {c[s]}] /\ f[s \ {c[s]}] \in D
      BY <1>1, <1>2, <3>1
    <3>3. g[s] = op[c[s]][f[s \ {c[s]}]]
      BY <2>2, <3>1, <3>2 DEF Agrees
    <3>4. f[s] = op[c[s]][f[s \ {c[s]}]]
      BY <2>2, <3>1 DEF Solves
    <3>5. QED BY <1>1, <3>3, <3>4
  <2>3. QED BY <2>1, <2>2
<1>3. Inductive(S, T)
  BY <1>2 DEF Inductive
<1>4. Covers(S, T)
  BY <1>3, EverySubset
<1>5. QED BY <1>1, <1>4 DEF Covers, AlikeOn

(* The folds over the subsets of 1..n.                                     *)
IndexFolds(f, n, D, base, op) ==
    /\ f \in [SUBSET (1..n) -> D]
    /\ f = [s \in SUBSET (1..n) |-> IF s = {} THEN base ELSE op[Max(s)][f[s \ {Max(s)}]]]
    /\ \A g : /\ g[{}] = base
              /\ \A s \in SUBSET (1..n) : s # {} /\ g[s \ {Max(s)}] \in D
                                          => g[s] = op[Max(s)][g[s \ {Max(s)}]]
              => \A s \in SUBSET (1..n) : g[s] = f[s]
    /\ \A k \in 1..n : f[1..k] = op[k][f[1..(k - 1)]]

(* A fold over the indices of a sequence, the greatest first, takes them   *)
(* in order from the least.                                                *)
LEMMA IndexFold ==
  ASSUME NEW n \in Nat, NEW D, NEW base \in D, NEW op, Closed(op, 1..n, D)
  PROVE  \E f : IndexFolds(f, n, D, base, op)
<1>1. PICK c : c = [s \in SUBSET (1..n) |-> Max(s)]
  OBVIOUS
<1>2. Chooses(c, 1..n)
  <2>1. \A s \in SUBSET (1..n) : s # {} => Max(s) \in s
    BY GreatestOf
  <2>2. QED BY <1>1, <2>1 DEF Chooses
<1>3. IsFiniteSet(1..n) /\ \A s \in SUBSET (1..n) : c[s] = Max(s)
  BY <1>1, FS_Interval
<1>4. PICK f \in [SUBSET (1..n) -> D] : Solves(f, 1..n, base, c, op)
  BY <1>2, <1>3, FoldExists
<1>5. f = [s \in SUBSET (1..n) |-> IF s = {} THEN base ELSE op[Max(s)][f[s \ {Max(s)}]]]
  BY <1>3, <1>4 DEF Solves
<1>6. ASSUME NEW g, g[{}] = base,
             \A s \in SUBSET (1..n) : s # {} /\ g[s \ {Max(s)}] \in D
                                      => g[s] = op[Max(s)][g[s \ {Max(s)}]]
      PROVE  \A s \in SUBSET (1..n) : g[s] = f[s]
  <2>1. Agrees(g, 1..n, D, base, c, op)
    BY <1>3, <1>6 DEF Agrees
  <2>2. AlikeOn(g, f, 1..n)
    BY <1>2, <1>3, <1>4, <2>1, FoldIsUnique
  <2>3. QED BY <2>2 DEF AlikeOn
<1>7. ASSUME NEW k \in 1..n PROVE f[1..k] = op[k][f[1..(k - 1)]]
  <2>1. 1..k \in SUBSET (1..n) /\ 1..k # {} /\ k \in 1..k
    OBVIOUS
  <2>2. Max(1..k) \in 1..k /\ k <= Max(1..k)
    BY <2>1, GreatestOf
  <2>3. Max(1..k) = k
    BY <2>2
  <2>4. (1..k) \ {k} = 1..(k - 1)
    OBVIOUS
  <2>5. f[1..k] = op[Max(1..k)][f[(1..k) \ {Max(1..k)}]]
    BY <1>5, <2>1
  <2>6. QED BY <2>3, <2>4, <2>5
<1>8. QED BY <1>4, <1>5, <1>6, <1>7 DEF IndexFolds

-----------------------------------------------------------------------------
(* The band of a bucket. *)

LEMMA OfTwo ==
  ASSUME NEW x \in Int, NEW y \in Int
  PROVE  /\ Min({x, y}) = IF x <= y THEN x ELSE y
         /\ Max({x, y}) = IF x >= y THEN x ELSE y
<1>1. Min({x, y}) = IF x <= y THEN x ELSE y
  <2>1. \E m \in {x, y} : \A z \in {x, y} : m <= z
    OBVIOUS
  <2>2. Min({x, y}) \in {x, y} /\ \A z \in {x, y} : Min({x, y}) <= z
    BY <2>1 DEF Min
  <2>3. QED BY <2>2
<1>2. Max({x, y}) = IF x >= y THEN x ELSE y
  <2>1. \E m \in {x, y} : \A z \in {x, y} : m >= z
    OBVIOUS
  <2>2. Max({x, y}) \in {x, y} /\ \A z \in {x, y} : Max({x, y}) >= z
    BY <2>1 DEF Max
  <2>3. QED BY <2>2
<1>3. QED BY <1>1, <1>2

LEMMA OrderBlockConstants ==
  /\ ExpansionMax \in Nat \ {0} /\ FlatBand \in Nat \ {0} /\ Lookback \in Nat \ {0}
  /\ Window \in Nat \ {0} /\ NMin \in Nat \ {0} /\ Buffer \in Nat
BY OrderBlocksAssumption

(* An edge is where the expansion stops first, or at its limit.            *)
LEMMA EdgeStops ==
  ASSUME NEW levels, NEW whales, NEW poc \in Int, NEW dir \in {1, -1}
  PROVE  \E d \in 0..ExpansionMax :
           /\ Edge(levels, whales, poc, dir) = poc + dir * d
           /\ d < ExpansionMax => poc + dir * d \notin whales
<1>1. PICK stops : stops = {d \in 0..(ExpansionMax - 1) : ~StepsOn(levels, whales, poc + dir * d, dir)}
  OBVIOUS
<1>2. PICK d : d = IF stops = {} THEN ExpansionMax ELSE Min(stops)
  OBVIOUS
<1>3. Edge(levels, whales, poc, dir) = poc + dir * d
  BY <1>1, <1>2 DEF Edge
<1>4. CASE stops = {}
  BY <1>2, <1>3, <1>4, OrderBlockConstants
<1>5. CASE stops # {}
  <2>1. stops \subseteq Nat
    BY <1>1, OrderBlockConstants
  <2>2. d \in stops
    BY <1>2, <1>5, <2>1, LeastOf
  <2>3. d \in 0..(ExpansionMax - 1) /\ ~StepsOn(levels, whales, poc + dir * d, dir)
    BY <1>1, <2>2
  <2>4. poc + dir * d \notin whales
    BY <2>3 DEF StepsOn
  <2>5. d \in 0..ExpansionMax
    BY <2>3, OrderBlockConstants
  <2>6. QED BY <1>3, <2>4, <2>5
<1>6. QED BY <1>4, <1>5

LEMMA BandIsAroundThePoc ==
  ASSUME NEW levels, NEW poc \in Int
  PROVE  /\ DynamicBand(levels, poc) \in [top : Int, bottom : Int]
         /\ DynamicBand(levels, poc).bottom < poc /\ poc < DynamicBand(levels, poc).top
<1>1. PICK w : w = Institutional(levels)
  OBVIOUS
<1>2. PICK d \in 0..ExpansionMax : Edge(levels, w, poc, 1) = poc + 1 * d
  BY EdgeStops
<1>3. PICK e \in 0..ExpansionMax : Edge(levels, w, poc, -1) = poc + -1 * e
  BY EdgeStops
<1>4. PICK upper, lower : upper = Edge(levels, w, poc, 1) /\ lower = Edge(levels, w, poc, -1)
  OBVIOUS
<1>5. upper \in Int /\ lower \in Int /\ poc + 1 \in Int /\ poc - 1 \in Int
  BY <1>2, <1>3, <1>4, OrderBlockConstants
<1>6. PICK top, bottom : top = Max({upper, poc + 1}) /\ bottom = Min({lower, poc - 1})
  OBVIOUS
<1>7. top \in Int /\ bottom \in Int /\ bottom < poc /\ poc < top
  <2>1. top = IF upper >= poc + 1 THEN upper ELSE poc + 1
    BY <1>5, <1>6, OfTwo
  <2>2. bottom = IF lower <= poc - 1 THEN lower ELSE poc - 1
    BY <1>5, <1>6, OfTwo
  <2>3. QED BY <1>5, <2>1, <2>2
<1>8. DynamicBand(levels, poc) =
        IF Cardinality({LevelVol(levels, p) : p \in DOMAIN levels}) <= 1
        THEN [top |-> poc + FlatBand, bottom |-> poc - FlatBand]
        ELSE [top |-> top, bottom |-> bottom]
  BY <1>1, <1>4, <1>6 DEF DynamicBand
<1>9. poc + FlatBand \in Int /\ poc - FlatBand \in Int /\ poc - FlatBand < poc /\ poc < poc + FlatBand
  BY OrderBlockConstants
<1>10. QED BY <1>7, <1>8, <1>9

LEMMA BandHasTheWall ==
  ASSUME NEW levels, IsFiniteSet(DOMAIN levels), Varied(levels), NEW poc \in Int,
         NEW p \in Int, AbsOf(p - poc) <= ExpansionMax,
         \A q \in Min({p, poc})..Max({p, poc}) : q \in Institutional(levels)
  PROVE  DynamicBand(levels, poc).bottom <= p /\ p <= DynamicBand(levels, poc).top
<1>1. PICK w : w = Institutional(levels)
  OBVIOUS
<1>2. PICK d \in 0..ExpansionMax :
        Edge(levels, w, poc, 1) = poc + 1 * d /\ (d < ExpansionMax => poc + 1 * d \notin w)
  BY EdgeStops
<1>3. PICK e \in 0..ExpansionMax :
        Edge(levels, w, poc, -1) = poc + -1 * e /\ (e < ExpansionMax => poc + -1 * e \notin w)
  BY EdgeStops
<1>4. PICK upper, lower : upper = Edge(levels, w, poc, 1) /\ lower = Edge(levels, w, poc, -1)
  OBVIOUS
<1>5. /\ d \in Nat /\ e \in Nat /\ d <= ExpansionMax /\ e <= ExpansionMax
      /\ upper = poc + d /\ lower = poc - e
      /\ d < ExpansionMax => poc + d \notin w
      /\ e < ExpansionMax => poc - e \notin w
  BY <1>2, <1>3, <1>4, OrderBlockConstants
<1>6. PICK top, bottom : top = Max({upper, poc + 1}) /\ bottom = Min({lower, poc - 1})
  OBVIOUS
<1>7. upper <= top /\ bottom <= lower /\ top \in Int /\ bottom \in Int /\ upper \in Int /\ lower \in Int
      /\ bottom < poc /\ poc < top
  <2>1. upper \in Int /\ lower \in Int /\ poc + 1 \in Int /\ poc - 1 \in Int
    BY <1>5
  <2>2. top = IF upper >= poc + 1 THEN upper ELSE poc + 1
    BY <1>6, <2>1, OfTwo
  <2>3. bottom = IF lower <= poc - 1 THEN lower ELSE poc - 1
    BY <1>6, <2>1, OfTwo
  <2>4. QED BY <2>1, <2>2, <2>3
<1>8. DynamicBand(levels, poc) = [top |-> top, bottom |-> bottom]
  <2>1. Cardinality({LevelVol(levels, x) : x \in DOMAIN levels}) \in Nat
    <3>1. PICK v : v = [x \in DOMAIN levels |-> LevelVol(levels, x)]
      OBVIOUS
    <3>2. PICK T : T = {v[x] : x \in DOMAIN levels}
      OBVIOUS
    <3>3. T = {LevelVol(levels, x) : x \in DOMAIN levels}
      BY <3>1, <3>2
    <3>4. IsFiniteSet(T)
      <4>1. v \in Surjection(DOMAIN levels, T)
        BY <3>1, <3>2 DEF Surjection
      <4>2. QED BY <4>1, FS_Surjection
    <3>5. QED BY <3>3, <3>4, FS_CardinalityType
  <2>2. ~(Cardinality({LevelVol(levels, x) : x \in DOMAIN levels}) <= 1)
    BY <2>1 DEF Varied
  <2>3. QED BY <1>1, <1>4, <1>6, <2>2 DEF DynamicBand
<1>9. \A q \in Int : (p <= q /\ q <= poc) \/ (poc <= q /\ q <= p) => q \in w
  BY <1>1, OfTwo
<1>10. ExpansionMax \in Nat /\ (IF p - poc >= 0 THEN p - poc ELSE poc - p) <= ExpansionMax
  BY OrderBlockConstants DEF AbsOf
<1>11. p <= upper
  <2>1. SUFFICES ASSUME upper < p PROVE FALSE
    BY <1>7
  <2>2. d < ExpansionMax /\ poc <= upper /\ upper <= p
    BY <1>5, <1>10, <2>1
  <2>3. upper \in w
    BY <1>7, <1>9, <2>2
  <2>4. QED BY <1>5, <2>2, <2>3
<1>12. lower <= p
  <2>1. SUFFICES ASSUME p < lower PROVE FALSE
    BY <1>7
  <2>2. e < ExpansionMax /\ p <= lower /\ lower <= poc
    BY <1>5, <1>10, <2>1
  <2>3. lower \in w
    BY <1>7, <1>9, <2>2
  <2>4. QED BY <1>5, <2>2, <2>3
<1>13. top >= p /\ bottom <= p
  BY <1>7, <1>11, <1>12
<1>14. QED BY <1>8, <1>13

-----------------------------------------------------------------------------
(* The history. *)

(* Buckets in the order of their start times.                              *)
WellFormed(bk) ==
    /\ bk \in Seq(ToSet(bk))
    /\ \A k \in DOMAIN bk : IsBucket(bk[k]) /\ bk[k].t >= 1
    /\ \A i, j \in DOMAIN bk : i <= j => bk[i].t <= bk[j].t

(* They are the last ones that were closed, and numbered.                  *)
ScanIInv ==
    /\ WellFormed(history)
    /\ family \in DOMAIN Families /\ total \in Nat
    /\ Len(history) = IF total <= Cap THEN total ELSE Cap
    /\ \A k \in DOMAIN history : history[k].n = total - Len(history) + k

LEMMA BucketFields ==
  ASSUME NEW b, IsBucket(b)
  PROVE  /\ b.n \in Nat /\ b.t \in Nat /\ b.dt \in Nat /\ b.open \in Int /\ b.close \in Int /\ b.poc \in Int
         /\ b.high \in Int /\ b.low \in Int
         /\ b.ber \in Nat /\ b.ser \in Nat /\ b.vel \in Nat
         /\ IsFiniteSet(DOMAIN b.levels) /\ DOMAIN b.levels \subseteq Int
BY DEF IsBucket

LEMMA CapIs == Cap \in Nat /\ Cap > 0
BY AnalyticsAssumption, OrderBlockConstants

LEMMA InitScanIInv == AnalyticsInit => ScanIInv
<1> SUFFICES ASSUME AnalyticsInit PROVE ScanIInv
  OBVIOUS
<1>1. family \in DOMAIN Families /\ total = 0 /\ history = <<>> /\ Len(history) = 0 /\ DOMAIN history = {}
  BY DEF AnalyticsInit
<1>2. history \in Seq(ToSet(history))
  BY <1>1
<1>3. WellFormed(history)
  BY <1>1, <1>2 DEF WellFormed
<1>4. QED BY <1>1, <1>3, CapIs DEF ScanIInv

Stamped(shape, n, t) == [shape EXCEPT !.n = n, !.t = t]

(* The bucket that a shape makes.                                          *)
LEMMA StampedIsBucket ==
  ASSUME NEW shape, IsBucket(shape), NEW n \in Nat, NEW t \in Nat
  PROVE  /\ IsBucket(Stamped(shape, n, t))
         /\ Stamped(shape, n, t).n = n /\ Stamped(shape, n, t).t = t
<1>0. PICK b : b = [shape EXCEPT !.n = n, !.t = t]
  OBVIOUS
<1>1. PICK R : R = [n : Nat, t : Nat, dt : Nat, open : Int, high : Int, low : Int, close : Int,
              poc : Int, levels : {shape.levels}, opL : Nat, opS : Nat, clL : Nat, clS : Nat,
              churn : Nat, liqS : Nat, liqL : Nat, ber : Nat, ser : Nat, vel : Nat]
  OBVIOUS
<1>2. shape \in R
  BY <1>1 DEF IsBucket
<1>3. b \in R /\ b.n = n /\ b.t = t
  BY <1>0, <1>1, <1>2
<1>4. b.levels = shape.levels
  BY <1>1, <1>3
<1>5. b.open = shape.open /\ b.close = shape.close /\ b.high = shape.high /\ b.low = shape.low /\ b.poc = shape.poc
  BY <1>0, <1>1, <1>2
<1>6. IsBucket(b)
  <2>1. /\ {shape.open, shape.close} \subseteq shape.low..shape.high
        /\ DOMAIN shape.levels # {} /\ shape.poc = PocOf(shape.levels)
    BY DEF IsBucket
  <2>2. /\ {b.open, b.close} \subseteq b.low..b.high
        /\ DOMAIN b.levels # {} /\ b.poc = PocOf(b.levels)
    BY <1>4, <1>5, <2>1
  <2>3. /\ IsFiniteSet(DOMAIN b.levels) /\ DOMAIN b.levels \subseteq Int
        /\ \A p \in DOMAIN b.levels : b.levels[p] \in [b : Nat, s : Nat]
    BY <1>4 DEF IsBucket
  <2>4. QED BY <1>1, <1>3, <1>4, <2>2, <2>3 DEF IsBucket
<1>7. QED BY <1>0, <1>3, <1>6 DEF Stamped

(* What a close appends, and what the trim leaves.                         *)
LEMMA Closing ==
  ASSUME ScanIInv, NEW shape \in Families[family], BucketCloses(shape)
  PROVE  \E b : /\ IsBucket(b) /\ b.n = total + 1 /\ b.t >= 1
                /\ \A k \in DOMAIN history : history[k].t <= b.t
                /\ history' = IF Len(history) + 1 > Cap THEN Tail(Append(history, b))
                              ELSE Append(history, b)
<1>1. PICK t : t = (IF history = <<>> THEN 1 ELSE history[Len(history)].t + shape.dt)
  OBVIOUS
<1>2. PICK m, b : m = total + 1 /\ b = [shape EXCEPT !.n = m, !.t = t]
  OBVIOUS
<1>3. IsBucket(shape) /\ shape.dt \in Nat
  BY AnalyticsAssumption, BucketFields DEF ScanIInv
<1>4. PICK h, n : h = history /\ n = Len(history)
  OBVIOUS
<1>5. h \in Seq(ToSet(h)) /\ Len(h) = n /\ n \in Nat /\ DOMAIN h = 1..n
  BY <1>4 DEF ScanIInv, WellFormed
<1>6. \A k \in 1..n : h[k].t \in Nat /\ h[k].t >= 1 /\ h[k].t <= h[n].t
  <2>1. \A k \in 1..n : IsBucket(h[k]) /\ h[k].t >= 1
    BY <1>4, <1>5 DEF ScanIInv, WellFormed
  <2>2. \A k \in 1..n : h[k].t \in Nat
    BY <2>1, BucketFields
  <2>3. \A k \in 1..n : k <= n /\ n \in 1..n
    BY <1>5
  <2>4. \A k \in 1..n : h[k].t <= h[n].t
    BY <1>4, <1>5, <2>3 DEF ScanIInv, WellFormed
  <2>5. QED BY <2>1, <2>2, <2>4
<1>7. t \in Nat /\ t >= 1 /\ \A k \in 1..n : h[k].t <= t
  <2>1. CASE n = 0
    <3>1. h = <<>>
      BY <1>5, <2>1
    <3>2. QED BY <1>1, <1>4, <1>5, <2>1, <3>1
  <2>2. CASE n > 0
    <3>1. h # <<>> /\ n \in 1..n
      BY <1>5, <2>2
    <3>2. t = h[n].t + shape.dt
      BY <1>1, <1>4, <3>1
    <3>3. QED BY <1>3, <1>6, <3>1, <3>2
  <2>3. QED BY <1>5, <2>1, <2>2
<1>8. m \in Nat
  BY <1>2 DEF ScanIInv
<1>9. IsBucket(b) /\ b.n = m /\ b.t = t
  <2>1. PICK s : s = shape
    OBVIOUS
  <2>2. IsBucket(s) /\ b = Stamped(s, m, t)
    BY <1>2, <1>3, <2>1 DEF Stamped
  <2>3. IsBucket(Stamped(s, m, t)) /\ Stamped(s, m, t).n = m /\ Stamped(s, m, t).t = t
    BY <1>7, <1>8, <2>2, StampedIsBucket
  <2>4. QED BY <2>2, <2>3
<1>10. Len(Append(h, b)) = n + 1
  BY <1>5
<1>11. history' = IF n + 1 > Cap THEN Tail(Append(h, b)) ELSE Append(h, b)
  BY <1>1, <1>2, <1>4, <1>10 DEF BucketCloses, Kept
<1>12. QED BY <1>2, <1>4, <1>5, <1>7, <1>9, <1>11

LEMMA SeqOfItsElements ==
  ASSUME NEW S, NEW s \in Seq(S)
  PROVE  s \in Seq(ToSet(s))
BY DEF ToSet

(* A longer history of well-formed buckets is well formed, and so is what  *)
(* the trim leaves of it.                                                  *)
LEMMA AppendWellFormed ==
  ASSUME NEW h, WellFormed(h), NEW b, IsBucket(b), b.t >= 1, \A k \in DOMAIN h : h[k].t <= b.t
  PROVE  /\ WellFormed(Append(h, b)) /\ Len(Append(h, b)) = Len(h) + 1
         /\ \A k \in 1..Len(h) : Append(h, b)[k] = h[k]
         /\ Append(h, b)[Len(h) + 1] = b
<1>1. PICK g, n : g = Append(h, b) /\ n = Len(h)
  OBVIOUS
<1>2. h \in Seq(ToSet(h)) /\ n \in Nat /\ DOMAIN h = 1..n
  BY <1>1 DEF WellFormed
<1>3. /\ g \in Seq(ToSet(h) \cup {b}) /\ Len(g) = n + 1 /\ DOMAIN g = 1..(n + 1)
      /\ \A k \in 1..n : g[k] = h[k]
      /\ g[n + 1] = b
  BY <1>1, <1>2
<1>4. g \in Seq(ToSet(g))
  BY <1>3, SeqOfItsElements
<1>5. \A k \in DOMAIN g : IsBucket(g[k]) /\ g[k].t >= 1
  <2>1. \A k \in 1..n : IsBucket(h[k]) /\ h[k].t >= 1
    BY <1>2 DEF WellFormed
  <2>2. \A k \in 1..(n + 1) : k \in 1..n \/ k = n + 1
    BY <1>2
  <2>3. QED BY <1>3, <2>1, <2>2
<1>6. ASSUME NEW i \in DOMAIN g, NEW j \in DOMAIN g, i <= j PROVE g[i].t <= g[j].t
  <2>1. i \in 1..(n + 1) /\ j \in 1..(n + 1)
    BY <1>3
  <2>2. CASE j \in 1..n
    <3>1. i \in 1..n
      BY <1>2, <1>6, <2>1, <2>2
    <3>2. h[i].t <= h[j].t
      BY <1>2, <1>6, <2>2, <3>1 DEF WellFormed
    <3>3. QED BY <1>3, <2>2, <3>1, <3>2
  <2>3. CASE j = n + 1 /\ i \in 1..n
    BY <1>2, <1>3, <2>3
  <2>4. CASE j = n + 1 /\ i = n + 1
    <3>1. b.t \in Nat
      BY BucketFields
    <3>2. QED BY <1>3, <2>4, <3>1
  <2>5. QED BY <1>2, <2>1, <2>2, <2>3, <2>4
<1>7. WellFormed(g)
  BY <1>4, <1>5, <1>6 DEF WellFormed
<1>8. QED BY <1>1, <1>3, <1>7

LEMMA TailWellFormed ==
  ASSUME NEW g, WellFormed(g), g # <<>>
  PROVE  /\ WellFormed(Tail(g)) /\ Len(Tail(g)) = Len(g) - 1
         /\ \A k \in 1..(Len(g) - 1) : Tail(g)[k] = g[k + 1]
<1>1. PICK h, n : h = Tail(g) /\ n = Len(g)
  OBVIOUS
<1>2. g \in Seq(ToSet(g)) /\ n \in Nat /\ n > 0 /\ DOMAIN g = 1..n
  BY <1>1 DEF WellFormed
<1>3. /\ h \in Seq(ToSet(g)) /\ Len(h) = n - 1 /\ DOMAIN h = 1..(n - 1)
      /\ \A k \in 1..(n - 1) : h[k] = g[k + 1]
  BY <1>1, <1>2
<1>4. h \in Seq(ToSet(h))
  BY <1>3, SeqOfItsElements
<1>5. \A k \in 1..(n - 1) : k + 1 \in 1..n
  BY <1>2
<1>6. \A k \in DOMAIN h : IsBucket(h[k]) /\ h[k].t >= 1
  BY <1>2, <1>3, <1>5 DEF WellFormed
<1>7. ASSUME NEW i \in DOMAIN h, NEW j \in DOMAIN h, i <= j PROVE h[i].t <= h[j].t
  <2>1. i + 1 \in DOMAIN g /\ j + 1 \in DOMAIN g /\ i + 1 <= j + 1
    BY <1>2, <1>3, <1>7
  <2>2. g[i + 1].t <= g[j + 1].t
    BY <2>1 DEF WellFormed
  <2>3. QED BY <1>3, <1>7, <2>2
<1>8. WellFormed(h)
  BY <1>4, <1>6, <1>7 DEF WellFormed
<1>9. QED BY <1>1, <1>3, <1>8

LEMMA NextScanIInv == ScanIInv /\ [AnalyticsNext]_analyticsVars => ScanIInv'
<1> SUFFICES ASSUME ScanIInv, [AnalyticsNext]_analyticsVars PROVE ScanIInv'
  OBVIOUS
<1>1. CASE UNCHANGED analyticsVars
  BY <1>1 DEF analyticsVars, ScanIInv
<1>2. ASSUME NEW shape \in Families[family], BucketCloses(shape) PROVE ScanIInv'
  <2>1. PICK b : /\ IsBucket(b) /\ b.n = total + 1 /\ b.t >= 1
                 /\ \A k \in DOMAIN history : history[k].t <= b.t
                 /\ history' = IF Len(history) + 1 > Cap THEN Tail(Append(history, b))
                               ELSE Append(history, b)
    BY <1>2, Closing
  <2>2. PICK h, n, g, m : h = history /\ n = Len(history) /\ g = Append(h, b) /\ m = total
    OBVIOUS
  <2>3. /\ WellFormed(h) /\ n \in Nat /\ m \in Nat /\ n = (IF m <= Cap THEN m ELSE Cap) /\ DOMAIN h = 1..n
        /\ \A k \in 1..n : h[k].n = m - n + k
    <3>1. WellFormed(h) /\ m \in Nat /\ n = (IF m <= Cap THEN m ELSE Cap)
          /\ \A k \in DOMAIN h : h[k].n = m - n + k
      BY <2>2 DEF ScanIInv
    <3>2. h \in Seq(ToSet(h)) /\ n = Len(h)
      BY <2>2, <3>1 DEF WellFormed
    <3>3. n \in Nat /\ DOMAIN h = 1..n
      BY <3>2
    <3>4. QED BY <3>1, <3>3
  <2>4. /\ WellFormed(g) /\ Len(g) = n + 1
        /\ \A k \in 1..n : g[k] = h[k]
        /\ g[n + 1] = b
    BY <2>1, <2>2, <2>3, AppendWellFormed
  <2>5. g \in Seq(ToSet(g)) /\ DOMAIN g = 1..(n + 1) /\ g # <<>>
    BY <2>3, <2>4 DEF WellFormed
  <2>6. \A k \in 1..(n + 1) : g[k].n = m - n + k
    <3>1. \A k \in 1..(n + 1) : k \in 1..n \/ k = n + 1
      BY <2>3
    <3>2. b.n = m - n + (n + 1)
      BY <2>1, <2>2, <2>3
    <3>3. QED BY <2>3, <2>4, <3>1, <3>2
  <2>7. family' = family /\ total' = m + 1
    BY <1>2, <2>2 DEF BucketCloses
  <2>8. family' \in DOMAIN Families /\ total' \in Nat
    BY <2>3, <2>7 DEF ScanIInv
  <2>9. CASE n + 1 > Cap
    <3>1. history' = Tail(g) /\ n = Cap
      BY <2>1, <2>2, <2>3, <2>9, CapIs
    <3>2. PICK f : f = Tail(g)
      OBVIOUS
    <3>3. /\ WellFormed(f) /\ Len(f) = Len(g) - 1
          /\ \A k \in 1..(Len(g) - 1) : f[k] = g[k + 1]
      BY <2>4, <2>5, <3>2, TailWellFormed
    <3>4. Len(f) = n /\ DOMAIN f = 1..n /\ \A k \in 1..n : f[k] = g[k + 1]
      <4>1. Len(f) = n /\ \A k \in 1..n : f[k] = g[k + 1]
        BY <2>3, <2>4, <3>3
      <4>2. QED BY <3>3, <4>1 DEF WellFormed
    <3>5. \A k \in 1..n : f[k].n = (m + 1) - n + k
      <4>1. \A k \in 1..n : k + 1 \in 1..(n + 1)
        BY <2>3
      <4>2. \A k \in 1..n : g[k + 1].n = m - n + (k + 1)
        BY <2>6, <4>1
      <4>3. \A k \in 1..n : m - n + (k + 1) = (m + 1) - n + k
        <5>1. m \in Nat /\ n \in Nat
          BY <2>3
        <5>2. QED BY <5>1
      <4>4. ASSUME NEW k \in 1..n PROVE f[k].n = (m + 1) - n + k
        <5>1. f[k] = g[k + 1]
          BY <3>4
        <5>2. g[k + 1].n = m - n + (k + 1)
          BY <4>2
        <5>3. QED BY <4>3, <5>1, <5>2
      <4>5. QED BY <4>4
    <3>6. n = IF m + 1 <= Cap THEN m + 1 ELSE Cap
      BY <2>3, <3>1, CapIs
    <3>7. f = history'
      BY <3>1, <3>2
    <3>8. QED BY <2>7, <2>8, <3>3, <3>4, <3>5, <3>6, <3>7 DEF ScanIInv
  <2>10. CASE ~(n + 1 > Cap)
    <3>1. g = history'
      BY <2>1, <2>2, <2>10
    <3>2. n + 1 = IF m + 1 <= Cap THEN m + 1 ELSE Cap
      BY <2>3, <2>10, CapIs
    <3>3. \A k \in 1..(n + 1) : m - n + k = (m + 1) - (n + 1) + k
      BY <2>3
    <3>4. QED BY <2>4, <2>5, <2>6, <2>7, <2>8, <3>1, <3>2, <3>3 DEF ScanIInv
  <2>11. QED BY <2>9, <2>10
<1>3. QED BY <1>1, <1>2 DEF AnalyticsNext

-----------------------------------------------------------------------------
(* The order blocks. *)

(* The block ob as mitigation may leave it.                                *)
Versions(ob) ==
    [n : {ob.n}, type : {ob.type}, top : Int, bottom : Int, start : {ob.start},
     confirm : {ob.confirm}, active : BOOLEAN, end : Nat, power : {ob.power}]

IsBlock(ob) ==
    /\ ob \in Versions(ob) /\ ob.type \in {"bullish", "bearish"}
    /\ ob.start \in Nat /\ ob.confirm \in Nat /\ ob.start <= ob.confirm

(* A block as it is confirmed.                                             *)
Fresh(ob) == IsBlock(ob) /\ ob.bottom <= ob.top /\ ob.active /\ ob.end = 0

BodyFields(b) == b.t \in Nat /\ b.close \in Int /\ BodyLow(b) \in Int /\ BodyHigh(b) \in Int

LEMMA BodiesAreIntegers ==
  ASSUME NEW b, IsBucket(b)
  PROVE  BodyFields(b)
<1>1. b.open \in Int /\ b.close \in Int /\ b.t \in Nat
  BY BucketFields
<1>2. Min({b.open, b.close}) \in Int /\ Max({b.open, b.close}) \in Int
  BY <1>1, OfTwo
<1>3. QED BY <1>1, <1>2 DEF BodyFields, BodyLow, BodyHigh

(* What one bucket b does to the version y of the block ob.                *)
StepsTo(ob, y, b, z) ==
    /\ z \in Versions(ob)
    /\ y.bottom <= y.top => z.bottom <= z.top /\ z.top <= y.top /\ y.bottom <= z.bottom
    /\ IF ob.type = "bullish" THEN z.bottom = y.bottom ELSE z.top = y.top
    /\ b.t <= ob.confirm \/ ~y.active => z = y
    /\ z.active => y.active
    /\ z.active /\ b.t > ob.confirm =>
         IF ob.type = "bullish"
         THEN b.close > z.bottom /\ z.top <= Max({z.bottom, BodyLow(b)})
         ELSE b.close < z.top /\ z.bottom >= Min({z.top, BodyHigh(b)})
    /\ (y.end > ob.confirm <=> ~y.active) => (z.end > ob.confirm <=> ~z.active)

LEMMA MitigationStep ==
  ASSUME NEW ob, IsBlock(ob), NEW y \in Versions(ob), NEW b, BodyFields(b)
  PROVE  StepsTo(ob, y, b, Mitigated(y, b))
<1>1. PICK z, lo, hi : z = Mitigated(y, b) /\ lo = BodyLow(b) /\ hi = BodyHigh(b)
  OBVIOUS
<1>2. /\ y.n = ob.n /\ y.type = ob.type /\ y.top \in Int /\ y.bottom \in Int /\ y.start = ob.start
      /\ y.confirm = ob.confirm /\ y.active \in BOOLEAN /\ y.end \in Nat /\ y.power = ob.power
      /\ DOMAIN y = {"n", "type", "top", "bottom", "start", "confirm", "active", "end", "power"}
  BY DEF Versions
<1>3. ob.confirm \in Nat /\ ob.type \in {"bullish", "bearish"}
  BY DEF IsBlock
<1>4. b.t \in Nat /\ b.close \in Int /\ lo \in Int /\ hi \in Int
  BY <1>1 DEF BodyFields
<1>5. CASE b.t <= ob.confirm \/ ~y.active
  <2>1. z = y
    BY <1>1, <1>2, <1>5 DEF Mitigated
  <2>2. QED BY <1>1, <1>2, <1>3, <1>4, <1>5, <2>1 DEF StepsTo
<1>6. CASE b.t > ob.confirm /\ y.active /\ ClearsFarEdge(y, b)
  <2>1. z = [y EXCEPT !.active = FALSE, !.end = b.t]
    <3>1. ~(b.t <= y.confirm \/ ~y.active)
      BY <1>2, <1>3, <1>4, <1>6
    <3>2. QED BY <1>1, <1>6, <3>1 DEF Mitigated
  <2>2. z \in Versions(ob)
    BY <1>4, <2>1 DEF Versions
  <2>3. z.active = FALSE /\ z.end = b.t /\ z.top = y.top /\ z.bottom = y.bottom
    BY <2>1 DEF Versions
  <2>4. QED BY <1>1, <1>2, <1>3, <1>4, <1>6, <2>2, <2>3 DEF StepsTo
<1>7. CASE b.t > ob.confirm /\ y.active /\ ~ClearsFarEdge(y, b) /\ ob.type = "bullish"
  <2>1. PICK near : near = Max({y.bottom, Min({y.top, lo})})
    OBVIOUS
  <2>2. near \in Int /\ (y.bottom <= y.top => y.bottom <= near /\ near <= y.top)
        /\ near <= Max({y.bottom, lo}) /\ Max({y.bottom, lo}) \in Int
    <3>1. PICK m : m = Min({y.top, lo})
      OBVIOUS
    <3>2. m = (IF y.top <= lo THEN y.top ELSE lo) /\ m \in Int
      BY <1>2, <1>4, <3>1, OfTwo
    <3>3. near = IF y.bottom >= m THEN y.bottom ELSE m
      BY <1>2, <2>1, <3>1, <3>2, OfTwo
    <3>4. Max({y.bottom, lo}) = IF y.bottom >= lo THEN y.bottom ELSE lo
      BY <1>2, <1>4, OfTwo
    <3>5. QED BY <1>2, <1>4, <3>2, <3>3, <3>4
  <2>3. z = [y EXCEPT !.top = near]
    <3>1. ~(b.t <= y.confirm \/ ~y.active)
      BY <1>2, <1>3, <1>4, <1>7
    <3>2. QED BY <1>1, <1>2, <1>7, <2>1, <3>1 DEF Mitigated, Eroded
  <2>4. z \in Versions(ob)
    BY <2>2, <2>3 DEF Versions
  <2>5. z.active = y.active /\ z.end = y.end /\ z.top = near /\ z.bottom = y.bottom
    BY <2>3 DEF Versions
  <2>6. b.close > y.bottom
    BY <1>2, <1>4, <1>7 DEF ClearsFarEdge
  <2>7. z.top <= Max({z.bottom, lo})
    BY <2>2, <2>5
  <2>8. y.bottom <= y.top => z.bottom <= z.top /\ z.top <= y.top /\ y.bottom <= z.bottom
    BY <1>2, <2>2, <2>5
  <2>9. QED BY <1>1, <1>2, <1>3, <1>4, <1>7, <2>4, <2>5, <2>6, <2>7, <2>8 DEF StepsTo
<1>8. CASE b.t > ob.confirm /\ y.active /\ ~ClearsFarEdge(y, b) /\ ob.type = "bearish"
  <2>1. PICK near : near = Min({y.top, Max({y.bottom, hi})})
    OBVIOUS
  <2>2. near \in Int /\ (y.bottom <= y.top => y.bottom <= near /\ near <= y.top)
        /\ near >= Min({y.top, hi}) /\ Min({y.top, hi}) \in Int
    <3>1. PICK m : m = Max({y.bottom, hi})
      OBVIOUS
    <3>2. m = (IF y.bottom >= hi THEN y.bottom ELSE hi) /\ m \in Int
      BY <1>2, <1>4, <3>1, OfTwo
    <3>3. near = IF y.top <= m THEN y.top ELSE m
      BY <1>2, <2>1, <3>1, <3>2, OfTwo
    <3>4. Min({y.top, hi}) = IF y.top <= hi THEN y.top ELSE hi
      BY <1>2, <1>4, OfTwo
    <3>5. QED BY <1>2, <1>4, <3>2, <3>3, <3>4
  <2>3. z = [y EXCEPT !.bottom = near]
    <3>1. ~(b.t <= y.confirm \/ ~y.active)
      BY <1>2, <1>3, <1>4, <1>8
    <3>2. QED BY <1>1, <1>2, <1>8, <2>1, <3>1 DEF Mitigated, Eroded
  <2>4. z \in Versions(ob)
    BY <2>2, <2>3 DEF Versions
  <2>5. z.active = y.active /\ z.end = y.end /\ z.bottom = near /\ z.top = y.top
    BY <2>3 DEF Versions
  <2>6. b.close < y.top
    BY <1>2, <1>4, <1>8 DEF ClearsFarEdge
  <2>7. z.bottom >= Min({z.top, hi})
    BY <2>2, <2>5
  <2>8. y.bottom <= y.top => z.bottom <= z.top /\ z.top <= y.top /\ y.bottom <= z.bottom
    BY <1>2, <2>2, <2>5
  <2>9. QED BY <1>1, <1>2, <1>3, <1>4, <1>8, <2>4, <2>5, <2>6, <2>7, <2>8 DEF StepsTo
<1>9. (b.t <= ob.confirm) \/ b.t > ob.confirm
  BY <1>3, <1>4
<1>10. QED BY <1>3, <1>5, <1>6, <1>7, <1>8, <1>9

(* A fold of the mitigation is a walk over the buckets.                    *)
Mitigation(h, ob, bk) ==
    /\ h \in [0..Len(bk) -> Versions(ob)] /\ h[0] = ob
    /\ \A k \in 1..Len(bk) : h[k] = Mitigated(h[k - 1], bk[k])

LEMMA MitigationWalks ==
  ASSUME NEW bk, WellFormed(bk), NEW ob, IsBlock(ob)
  PROVE  \E h : Mitigation(h, ob, bk) /\ FoldLeft(Mitigated, ob, bk) = h[Len(bk)]
<1>1. PICK n, D : n = Len(bk) /\ D = Versions(ob)
  OBVIOUS
<1>2. n \in Nat /\ DOMAIN bk = 1..n
  BY <1>1 DEF WellFormed
<1>3. PICK op : op = [i \in 1..n |-> [y \in D |-> Mitigated(y, bk[i])]]
  OBVIOUS
<1>4. \A y \in D, i \in 1..n : op[i][y] = Mitigated(y, bk[i])
  BY <1>3
<1>5. Closed(op, 1..n, D)
  <2>1. ASSUME NEW y \in D, NEW i \in 1..n PROVE op[i][y] \in D
    <3>1. BodyFields(bk[i])
      BY <1>2, BodiesAreIntegers DEF WellFormed
    <3>2. StepsTo(ob, y, bk[i], Mitigated(y, bk[i]))
      BY <1>1, <3>1, MitigationStep
    <3>3. QED BY <1>1, <1>4, <3>2 DEF StepsTo
  <2>2. QED BY <2>1 DEF Closed
<1>6. ob \in D
  BY <1>1 DEF IsBlock
<1>0. PICK f : IndexFolds(f, n, D, ob, op)
  BY <1>2, <1>5, <1>6, IndexFold
<1>7. /\ f \in [SUBSET (1..n) -> D]
      /\ f = [s \in SUBSET (1..n) |-> IF s = {} THEN ob ELSE op[Max(s)][f[s \ {Max(s)}]]]
      /\ \A k \in 1..n : f[1..k] = op[k][f[1..(k - 1)]]
  BY <1>0 DEF IndexFolds
<1>8. \A s \in SUBSET (1..n) : s # {} => Max(s) \in 1..n
  BY <1>2, GreatestOf
<1>9. f = [s \in SUBSET (1..n) |-> IF s = {} THEN ob ELSE Mitigated(f[s \ {Max(s)}], bk[Max(s)])]
  <2>1. ASSUME NEW s \in SUBSET (1..n), s # {}
        PROVE  op[Max(s)][f[s \ {Max(s)}]] = Mitigated(f[s \ {Max(s)}], bk[Max(s)])
    <3>1. f[s \ {Max(s)}] \in D
      BY <1>7
    <3>2. QED BY <1>4, <1>8, <2>1, <3>1
  <2>2. QED BY <1>7, <2>1
<1>10. PICK g : g = CHOOSE it : it = [s \in SUBSET (1..n) |->
                     IF s = {} THEN ob ELSE Mitigated(it[s \ {Max(s)}], bk[Max(s)])]
  OBVIOUS
<1>11. FoldLeft(Mitigated, ob, bk) = g[1..n]
  BY <1>2, <1>10 DEF FoldLeft, MapThenFoldSet
<1>12. g = [s \in SUBSET (1..n) |-> IF s = {} THEN ob ELSE Mitigated(g[s \ {Max(s)}], bk[Max(s)])]
  BY <1>9, <1>10
<1>13. \A s \in SUBSET (1..n) : g[s] = f[s]
  <2>1. g[{}] = ob
    BY <1>12
  <2>2. ASSUME NEW s \in SUBSET (1..n), s # {}, g[s \ {Max(s)}] \in D
        PROVE  g[s] = op[Max(s)][g[s \ {Max(s)}]]
    <3>1. g[s] = Mitigated(g[s \ {Max(s)}], bk[Max(s)])
      BY <1>12, <2>2
    <3>2. QED BY <1>4, <1>8, <2>2, <3>1
  <2>3. QED BY <1>0, <2>1, <2>2 DEF IndexFolds
<1>14. PICK h : h = [k \in 0..n |-> f[1..k]]
  OBVIOUS
<1>15. Mitigation(h, ob, bk)
  <2>1. \A k \in 0..n : 1..k \in SUBSET (1..n)
    BY <1>2
  <2>2. h \in [0..n -> D]
    BY <1>7, <1>14, <2>1
  <2>3. h[0] = ob
    <3>1. 1..0 = {} /\ 0 \in 0..n
      BY <1>2
    <3>2. QED BY <1>7, <1>14, <3>1
  <2>4. ASSUME NEW k \in 1..n PROVE h[k] = Mitigated(h[k - 1], bk[k])
    <3>1. k \in 0..n /\ k - 1 \in 0..n
      BY <1>2
    <3>2. h[k] = f[1..k] /\ h[k - 1] = f[1..(k - 1)] /\ h[k - 1] \in D
      BY <1>14, <2>2, <3>1
    <3>3. h[k] = op[k][h[k - 1]]
      BY <1>7, <3>2
    <3>4. QED BY <1>4, <3>2, <3>3
  <2>5. QED BY <1>1, <2>2, <2>3, <2>4 DEF Mitigation
<1>16. FoldLeft(Mitigated, ob, bk) = h[n]
  <2>1. n \in 0..n
    BY <1>2
  <2>2. h[n] = f[1..n] /\ g[1..n] = f[1..n]
    BY <1>13, <1>14, <2>1
  <2>3. QED BY <1>11, <2>2
<1>17. QED BY <1>1, <1>15, <1>16

(* What the walk has done to a fresh block after k buckets.                *)
Eroding(ob, y, bk, k) ==
    /\ y.bottom <= y.top /\ y.top <= ob.top /\ ob.bottom <= y.bottom
    /\ IF ob.type = "bullish" THEN y.bottom = ob.bottom ELSE y.top = ob.top
    /\ (y.end > ob.confirm <=> ~y.active)
    /\ y.active =>
         \A j \in 1..k : bk[j].t > ob.confirm =>
            IF ob.type = "bullish"
            THEN bk[j].close > y.bottom /\ y.top <= Max({y.bottom, BodyLow(bk[j])})
            ELSE bk[j].close < y.top /\ y.bottom >= Min({y.top, BodyHigh(bk[j])})

LEMMA ErodingStep ==
  ASSUME NEW ob, Fresh(ob), NEW bk, NEW k \in Nat, NEW y \in Versions(ob), Eroding(ob, y, bk, k),
         BodyFields(bk[k + 1]), \A j \in 1..k : BodyFields(bk[j])
  PROVE  Eroding(ob, Mitigated(y, bk[k + 1]), bk, k + 1)
<1>1. PICK b, z : b = bk[k + 1] /\ z = Mitigated(y, b)
  OBVIOUS
<1>0. IsBlock(ob)
  BY DEF Fresh
<1>9. StepsTo(ob, y, b, z)
  BY <1>0, <1>1, MitigationStep
<1>2. /\ z \in Versions(ob)
      /\ y.bottom <= y.top => z.bottom <= z.top /\ z.top <= y.top /\ y.bottom <= z.bottom
      /\ IF ob.type = "bullish" THEN z.bottom = y.bottom ELSE z.top = y.top
      /\ b.t <= ob.confirm \/ ~y.active => z = y
      /\ z.active => y.active
      /\ z.active /\ b.t > ob.confirm =>
           IF ob.type = "bullish"
           THEN b.close > z.bottom /\ z.top <= Max({z.bottom, BodyLow(b)})
           ELSE b.close < z.top /\ z.bottom >= Min({z.top, BodyHigh(b)})
      /\ (y.end > ob.confirm <=> ~y.active) => (z.end > ob.confirm <=> ~z.active)
  BY <1>9 DEF StepsTo
<1>3. /\ y.top \in Int /\ y.bottom \in Int /\ z.top \in Int /\ z.bottom \in Int
      /\ ob.top \in Int /\ ob.bottom \in Int /\ ob.type \in {"bullish", "bearish"}
  BY <1>2 DEF Versions, Fresh, IsBlock
<1>4. z.bottom <= z.top /\ z.top <= ob.top /\ ob.bottom <= z.bottom /\ z.top <= y.top /\ y.bottom <= z.bottom
  BY <1>2, <1>3 DEF Eroding
<1>5. IF ob.type = "bullish" THEN z.bottom = ob.bottom ELSE z.top = ob.top
  BY <1>2 DEF Eroding
<1>6. z.end > ob.confirm <=> ~z.active
  BY <1>2 DEF Eroding
<1>7. ASSUME z.active, NEW j \in 1..(k + 1), bk[j].t > ob.confirm
      PROVE  IF ob.type = "bullish"
             THEN bk[j].close > z.bottom /\ z.top <= Max({z.bottom, BodyLow(bk[j])})
             ELSE bk[j].close < z.top /\ z.bottom >= Min({z.top, BodyHigh(bk[j])})
  <2>1. CASE j = k + 1
    BY <1>1, <1>2, <1>7, <2>1
  <2>2. CASE j \in 1..k
    <3>1. y.active
      BY <1>2, <1>7
    <3>2. IF ob.type = "bullish"
          THEN bk[j].close > y.bottom /\ y.top <= Max({y.bottom, BodyLow(bk[j])})
          ELSE bk[j].close < y.top /\ y.bottom >= Min({y.top, BodyHigh(bk[j])})
      BY <1>7, <2>2, <3>1 DEF Eroding
    <3>3. bk[j].close \in Int /\ BodyLow(bk[j]) \in Int /\ BodyHigh(bk[j]) \in Int
      BY <2>2 DEF BodyFields
    <3>4. CASE ob.type = "bullish"
      <4>1. z.bottom = y.bottom /\ bk[j].close > y.bottom /\ y.top <= Max({y.bottom, BodyLow(bk[j])})
        BY <1>2, <3>2, <3>4
      <4>2. Max({y.bottom, BodyLow(bk[j])}) \in Int
        BY <1>3, <3>3, OfTwo
      <4>3. z.top <= Max({y.bottom, BodyLow(bk[j])})
        BY <1>3, <1>4, <4>1, <4>2
      <4>4. QED BY <3>4, <4>1, <4>3
    <3>5. CASE ob.type # "bullish"
      <4>1. z.top = y.top /\ bk[j].close < y.top /\ y.bottom >= Min({y.top, BodyHigh(bk[j])})
        BY <1>2, <3>2, <3>5
      <4>2. Min({y.top, BodyHigh(bk[j])}) \in Int
        BY <1>3, <3>3, OfTwo
      <4>3. z.bottom >= Min({y.top, BodyHigh(bk[j])})
        BY <1>3, <1>4, <4>1, <4>2
      <4>4. QED BY <3>5, <4>1, <4>3
    <3>6. QED BY <3>4, <3>5
  <2>3. j = k + 1 \/ j \in 1..k
    OBVIOUS
  <2>4. QED BY <2>1, <2>2, <2>3
<1>10. QED BY <1>1, <1>4, <1>5, <1>6, <1>7 DEF Eroding

LEMMA ErodedBlock ==
  ASSUME NEW bk, WellFormed(bk), NEW ob, Fresh(ob), NEW h, Mitigation(h, ob, bk)
  PROVE  \A k \in 0..Len(bk) : h[k] \in Versions(ob) /\ Eroding(ob, h[k], bk, k)
<1>1. PICK n : n = Len(bk)
  OBVIOUS
<1>2. n \in Nat /\ DOMAIN bk = 1..n
  BY <1>1 DEF WellFormed
<1>3. \A i \in 1..n : BodyFields(bk[i])
  BY <1>2, BodiesAreIntegers DEF WellFormed
<1>4. h \in [0..n -> Versions(ob)] /\ h[0] = ob /\ \A k \in 1..n : h[k] = Mitigated(h[k - 1], bk[k])
  BY <1>1 DEF Mitigation
<1>5. PICK T : T = {k \in Nat : k <= n => Eroding(ob, h[k], bk, k)}
  OBVIOUS
<1>6. 0 \in T
  <2>1. ob.top \in Int /\ ob.bottom \in Int /\ ob.confirm \in Nat
    BY DEF Fresh, IsBlock, Versions
  <2>2. Eroding(ob, ob, bk, 0)
    BY <2>1 DEF Eroding, Fresh
  <2>3. QED BY <1>4, <1>5, <2>2
<1>7. ASSUME NEW k \in Nat, k \in T PROVE k + 1 \in T
  <2>1. SUFFICES ASSUME k + 1 <= n PROVE Eroding(ob, h[k + 1], bk, k + 1)
    BY <1>5
  <2>2. k \in 0..n /\ k + 1 \in 1..n /\ (k + 1) - 1 = k
    BY <1>2, <2>1
  <2>3. h[k + 1] = Mitigated(h[k], bk[k + 1]) /\ h[k] \in Versions(ob)
    <3>1. h[k + 1] = Mitigated(h[(k + 1) - 1], bk[k + 1])
      BY <1>4, <2>2
    <3>2. QED BY <1>4, <2>2, <3>1
  <2>4. Eroding(ob, h[k], bk, k)
    BY <1>2, <1>5, <1>7, <2>1
  <2>5. BodyFields(bk[k + 1]) /\ \A j \in 1..k : BodyFields(bk[j])
    BY <1>2, <1>3, <2>1
  <2>6. QED BY <2>3, <2>4, <2>5, ErodingStep
<1>8. Nat \subseteq T
  BY <1>6, <1>7, EveryNatural
<1>9. \A k \in 0..n : Eroding(ob, h[k], bk, k)
  BY <1>2, <1>5, <1>8
<1>10. QED BY <1>1, <1>4, <1>9

(* A block is made of two buckets in a row.                                *)
LEMMA ObsAreMade ==
  ASSUME NEW bk, NEW i, NEW ob \in ObsAt(bk, i)
  PROVE  \E type \in {"bullish", "bearish"} : \E er, sum : ob = NewOb(type, bk[i - 1], bk[i], er, sum)
<1>1. PICK sumB, sumS :
        /\ sumB = MapThenSumSet(LAMBDA j : bk[j].ber, (i - Lookback)..(i - 1))
        /\ sumS = MapThenSumSet(LAMBDA j : bk[j].ser, (i - Lookback)..(i - 1))
  OBVIOUS
<1>2. \/ ob = NewOb("bullish", bk[i - 1], bk[i], bk[i - 1].ser, sumS)
      \/ ob = NewOb("bearish", bk[i - 1], bk[i], bk[i - 1].ber, sumB)
  BY <1>1 DEF ObsAt
<1>3. QED BY <1>2

LEMMA NewObIsFresh ==
  ASSUME NEW b0, IsBucket(b0), NEW b1, IsBucket(b1), b0.t <= b1.t, b1.t >= 1,
         NEW type \in {"bullish", "bearish"}, NEW er, NEW sum
  PROVE  /\ Fresh(NewOb(type, b0, b1, er, sum))
         /\ NewOb(type, b0, b1, er, sum).n = b0.n /\ NewOb(type, b0, b1, er, sum).confirm = b1.t
<1>1. PICK ob, band, power :
        /\ ob = NewOb(type, b0, b1, er, sum) /\ band = DynamicBand(b0.levels, b0.poc)
        /\ power = (er * Lookback * b1.vel * 100) \div Max({Lookback, sum})
  OBVIOUS
<1>2. b0.poc \in Int /\ b0.t \in Nat /\ b1.t \in Nat
  BY BucketFields
<1>3. band \in [top : Int, bottom : Int] /\ band.bottom < b0.poc /\ b0.poc < band.top
  BY <1>1, <1>2, BandIsAroundThePoc
<1>4. ob = [n |-> b0.n, type |-> type, top |-> band.top, bottom |-> band.bottom,
            start |-> b0.t, confirm |-> b1.t, active |-> TRUE, end |-> 0, power |-> power]
  BY <1>1 DEF NewOb
<1>5. ob \in Versions(ob)
  BY <1>2, <1>3, <1>4 DEF Versions
<1>6. /\ ob.n = b0.n /\ ob.type = type /\ ob.top = band.top /\ ob.bottom = band.bottom
      /\ ob.start = b0.t /\ ob.confirm = b1.t /\ ob.active = TRUE /\ ob.end = 0
  BY <1>4
<1>7. ob.bottom <= ob.top
  BY <1>2, <1>3, <1>6
<1>8. QED BY <1>1, <1>2, <1>5, <1>6, <1>7 DEF Fresh, IsBlock

(* The blocks of a scan: each is what the walk left of a fresh one.        *)
LEMMA ObsAreWalked ==
  ASSUME NEW bk, WellFormed(bk), NEW ob \in CalcQuantObs(bk)
  PROVE  \E i \in (Lookback + 1)..Len(bk) : \E fresh \in ObsAt(bk, i) :
           /\ Fresh(fresh) /\ fresh.n = bk[i - 1].n /\ fresh.confirm = bk[i].t
           /\ ob = FoldLeft(Mitigated, fresh, bk)
<1>1. PICK i \in (Lookback + 1)..Len(bk) : \E fresh \in ObsAt(bk, i) : ob = FoldLeft(Mitigated, fresh, bk)
  BY DEF CalcQuantObs
<1>2. PICK fresh \in ObsAt(bk, i) : ob = FoldLeft(Mitigated, fresh, bk)
  BY <1>1
<1>3. Len(bk) \in Nat /\ DOMAIN bk = 1..Len(bk)
  BY DEF WellFormed
<1>4. i \in DOMAIN bk /\ i - 1 \in DOMAIN bk /\ i - 1 <= i
  BY <1>1, <1>3, OrderBlockConstants
<1>5. IsBucket(bk[i]) /\ IsBucket(bk[i - 1]) /\ bk[i - 1].t <= bk[i].t /\ bk[i].t >= 1
  BY <1>4 DEF WellFormed
<1>6. PICK type \in {"bullish", "bearish"} : \E er, sum : fresh = NewOb(type, bk[i - 1], bk[i], er, sum)
  BY ObsAreMade
<1>7. PICK er, sum : fresh = NewOb(type, bk[i - 1], bk[i], er, sum)
  BY <1>6
<1>8. Fresh(fresh) /\ fresh.n = bk[i - 1].n /\ fresh.confirm = bk[i].t
  BY <1>5, <1>7, NewObIsFresh
<1>9. QED BY <1>2, <1>8

LEMMA WalkedBlock ==
  ASSUME NEW bk, WellFormed(bk), NEW ob \in CalcQuantObs(bk)
  PROVE  \E fresh : /\ Fresh(fresh) /\ ob \in Versions(fresh)
                    /\ Eroding(fresh, ob, bk, Len(bk))
<1>1. PICK i \in (Lookback + 1)..Len(bk) : \E fresh \in ObsAt(bk, i) :
           /\ Fresh(fresh) /\ fresh.n = bk[i - 1].n /\ fresh.confirm = bk[i].t
           /\ ob = FoldLeft(Mitigated, fresh, bk)
  BY ObsAreWalked
<1>2. PICK fresh : Fresh(fresh) /\ ob = FoldLeft(Mitigated, fresh, bk)
  BY <1>1
<1>3. IsBlock(fresh)
  BY <1>2 DEF Fresh
<1>4. PICK h : Mitigation(h, fresh, bk) /\ FoldLeft(Mitigated, fresh, bk) = h[Len(bk)]
  BY <1>3, MitigationWalks
<1>5. Len(bk) \in 0..Len(bk)
  BY DEF WellFormed
<1>6. \A k \in 0..Len(bk) : h[k] \in Versions(fresh) /\ Eroding(fresh, h[k], bk, k)
  BY <1>2, <1>4, ErodedBlock
<1>7. QED BY <1>2, <1>4, <1>5, <1>6

(* The blocks of a scan have their shape, and are where the deepest body   *)
(* since their confirmation left them.                                     *)
LEMMA BlocksFollowBodies ==
  ASSUME NEW bk, WellFormed(bk), NEW ob \in CalcQuantObs(bk)
  PROVE  /\ ob.bottom <= ob.top /\ ob.start <= ob.confirm
         /\ (ob.end > ob.confirm <=> ~ob.active)
         /\ ob.active => \A k \in DOMAIN bk : bk[k].t > ob.confirm =>
               IF ob.type = "bullish"
               THEN bk[k].close > ob.bottom /\ ob.top <= Max({ob.bottom, BodyLow(bk[k])})
               ELSE bk[k].close < ob.top /\ ob.bottom >= Min({ob.top, BodyHigh(bk[k])})
<1>1. PICK fresh : Fresh(fresh) /\ ob \in Versions(fresh) /\ Eroding(fresh, ob, bk, Len(bk))
  BY WalkedBlock
<1>2. ob.confirm = fresh.confirm /\ ob.type = fresh.type /\ ob.start = fresh.start
  BY <1>1 DEF Versions
<1>3. ob.start <= ob.confirm
  BY <1>1, <1>2 DEF Fresh, IsBlock
<1>4. DOMAIN bk = 1..Len(bk)
  BY DEF WellFormed
<1>5. QED BY <1>1, <1>2, <1>3, <1>4 DEF Eroding

LEMMA ErosionHolds == ScanIInv => ErosionIsTheDeepestBody
<1> SUFFICES ASSUME ScanIInv, NEW ob \in Obs, ob.active, NEW k \in DOMAIN history, history[k].t > ob.confirm
             PROVE  IF ob.type = "bullish"
                    THEN history[k].close > ob.bottom /\ ob.top <= Max({ob.bottom, BodyLow(history[k])})
                    ELSE history[k].close < ob.top /\ ob.bottom >= Min({ob.top, BodyHigh(history[k])})
  BY DEF ErosionIsTheDeepestBody
<1>1. PICK bk : bk = history
  OBVIOUS
<1>2. WellFormed(bk) /\ ob \in CalcQuantObs(bk) /\ k \in DOMAIN bk /\ bk[k].t > ob.confirm
  BY <1>1 DEF ScanIInv, Obs
<1>3. IF ob.type = "bullish"
      THEN bk[k].close > ob.bottom /\ ob.top <= Max({ob.bottom, BodyLow(bk[k])})
      ELSE bk[k].close < ob.top /\ ob.bottom >= Min({ob.top, BodyHigh(bk[k])})
  BY <1>2, BlocksFollowBodies
<1>4. QED BY <1>1, <1>3

LEMMA BandsHold == ScanIInv => BandHoldsTheWall
<1> SUFFICES ASSUME ScanIInv, NEW k \in DOMAIN history
             PROVE  LET b == history[k]
                        band == DynamicBand(b.levels, b.poc)
                        whales == Institutional(b.levels)
                    IN  /\ band.bottom < b.poc /\ b.poc < band.top
                        /\ \A p \in whales :
                              /\ Varied(b.levels) /\ AbsOf(p - b.poc) <= ExpansionMax
                              /\ \A q \in Min({p, b.poc})..Max({p, b.poc}) : q \in whales
                              => band.bottom <= p /\ p <= band.top
  BY DEF BandHoldsTheWall
<1>1. PICK levels, poc : levels = history[k].levels /\ poc = history[k].poc
  OBVIOUS
<1>2. poc \in Int /\ IsFiniteSet(DOMAIN levels) /\ DOMAIN levels \subseteq Int
  BY <1>1, BucketFields DEF ScanIInv, WellFormed
<1>3. DynamicBand(levels, poc).bottom < poc /\ poc < DynamicBand(levels, poc).top
  BY <1>2, BandIsAroundThePoc
<1>4. ASSUME NEW p \in Institutional(levels), Varied(levels), AbsOf(p - poc) <= ExpansionMax,
             \A q \in Min({p, poc})..Max({p, poc}) : q \in Institutional(levels)
      PROVE  DynamicBand(levels, poc).bottom <= p /\ p <= DynamicBand(levels, poc).top
  <2>1. p \in Int
    BY <1>2 DEF Institutional, Whales
  <2>2. QED BY <1>2, <1>4, <2>1, BandHasTheWall
<1>5. QED BY <1>1, <1>3, <1>4

-----------------------------------------------------------------------------
(* Finite sets of integers, and sums over finite sets. *)

LEMMA ExtremesOf ==
  ASSUME NEW E, IsFiniteSet(E), E \subseteq Int, E # {}
  PROVE  /\ Min(E) \in E /\ \A y \in E : Min(E) <= y
         /\ Max(E) \in E /\ \A y \in E : y <= Max(E)
<1>1. PICK T : T = {s \in SUBSET E : s = {} \/ \E lo, hi \in s : \A y \in s : lo <= y /\ y <= hi}
  OBVIOUS
<1>2. ASSUME NEW s \in SUBSET E, \A x \in s : s \ {x} \in T PROVE s \in T
  <2>1. CASE s = {}
    BY <1>1, <2>1
  <2>2. CASE s # {}
    <3>1. PICK x \in s : x \in Int
      BY <2>2
    <3>2. s \ {x} \in T
      BY <1>2
    <3>3. CASE s \ {x} = {}
      <4>1. \A y \in s : y = x
        BY <3>3
      <4>2. QED BY <1>1, <3>1, <4>1
    <3>4. CASE s \ {x} # {}
      <4>1. PICK lo \in s \ {x}, hi \in s \ {x} : \A y \in s \ {x} : lo <= y /\ y <= hi
        BY <1>1, <3>2, <3>4
      <4>2. lo \in Int /\ hi \in Int
        OBVIOUS
      <4>3. PICK l, h : l = (IF x <= lo THEN x ELSE lo) /\ h = (IF hi <= x THEN x ELSE hi)
        OBVIOUS
      <4>4. l \in s /\ h \in s /\ l <= x /\ l <= lo /\ x <= h /\ hi <= h /\ l \in Int /\ h \in Int
        BY <3>1, <4>2, <4>3
      <4>5. ASSUME NEW y \in s PROVE l <= y /\ y <= h
        <5>1. y \in Int
          OBVIOUS
        <5>2. CASE y = x
          BY <4>4, <5>2
        <5>3. CASE y # x
          <6>1. lo <= y /\ y <= hi
            BY <4>1, <5>3
          <6>2. QED BY <4>2, <4>4, <5>1, <6>1
        <5>4. QED BY <5>2, <5>3
      <4>6. QED BY <1>1, <4>4, <4>5
    <3>5. QED BY <3>3, <3>4
  <2>3. QED BY <2>1, <2>2
<1>3. Inductive(E, T)
  BY <1>2 DEF Inductive
<1>4. Covers(E, T)
  BY <1>3, EverySubset
<1>5. E \in T
  BY <1>4 DEF Covers
<1>6. PICK lo \in E, hi \in E : \A y \in E : lo <= y /\ y <= hi
  BY <1>1, <1>5
<1>7. Min(E) \in E /\ \A y \in E : Min(E) <= y
  BY <1>6 DEF Min
<1>8. Max(E) \in E /\ \A y \in E : Max(E) >= y
  <2>1. \A y \in E : hi >= y
    BY <1>6
  <2>2. QED BY <2>1 DEF Max
<1>9. \A y \in E : y <= Max(E)
  BY <1>8
<1>10. QED BY <1>7, <1>8, <1>9

(* Counting from the least, every place is taken.                          *)
Placed(s, k) == \E q \in s : Cardinality({p \in s : p <= q}) = k

LEMMA EveryPlace ==
  ASSUME NEW E, IsFiniteSet(E), E \subseteq Int, NEW k \in 1..Cardinality(E)
  PROVE  Placed(E, k)
<1>1. PICK T : T = {s \in SUBSET E : \A j \in 1..Cardinality(s) : Placed(s, j)}
  OBVIOUS
<1>2. ASSUME NEW s \in SUBSET E, \A x \in s : s \ {x} \in T PROVE s \in T
  <2>1. IsFiniteSet(s) /\ Cardinality(s) \in Nat /\ s \subseteq Int
    BY FS_Subset, FS_CardinalityType
  <2>2. SUFFICES ASSUME NEW j \in 1..Cardinality(s) PROVE Placed(s, j)
    BY <1>1
  <2>3. s # {}
    BY <2>1, <2>2, FS_EmptySet
  <2>4. PICK m : m = Max(s)
    OBVIOUS
  <2>5. m \in s /\ \A y \in s : y <= m
    BY <2>1, <2>3, <2>4, ExtremesOf
  <2>6. PICK r : r = s \ {m}
    OBVIOUS
  <2>7. r \in T /\ Cardinality(r) = Cardinality(s) - 1
    BY <1>2, <2>1, <2>5, <2>6, FS_RemoveElement
  <2>8. CASE j = Cardinality(s)
    <3>1. {p \in s : p <= m} = s
      BY <2>5
    <3>2. QED BY <2>5, <2>8, <3>1 DEF Placed
  <2>9. CASE j < Cardinality(s)
    <3>1. j \in 1..Cardinality(r)
      BY <2>1, <2>7, <2>9
    <3>2. PICK q \in r : Cardinality({p \in r : p <= q}) = j
      BY <1>1, <2>7, <3>1 DEF Placed
    <3>3. ~(m <= q)
      <4>1. q \in s /\ q # m /\ q \in Int /\ m \in Int
        BY <2>1, <2>5, <2>6, <3>2
      <4>2. q <= m
        BY <2>5, <4>1
      <4>3. QED BY <4>1, <4>2
    <3>4. {p \in s : p <= q} = {p \in r : p <= q}
      BY <2>6, <3>3
    <3>5. q \in s
      BY <2>6
    <3>6. QED BY <3>2, <3>4, <3>5 DEF Placed
  <2>10. QED BY <2>1, <2>8, <2>9
<1>3. Inductive(E, T)
  BY <1>2 DEF Inductive
<1>4. Covers(E, T)
  BY <1>3, EverySubset
<1>5. QED BY <1>1, <1>4 DEF Covers

(* The partial sums of w over the subsets of S, an element at a time.      *)
Picker(S) == [s \in SUBSET S |-> CHOOSE x \in s : TRUE]
Adder(w, S) == [x \in S |-> [d \in Int |-> w[x] + d]]
Sums(f, w, S) == f \in [SUBSET S -> Int] /\ Solves(f, S, 0, Picker(S), Adder(w, S))

LEMMA PickerChooses ==
  ASSUME NEW S
  PROVE  Chooses(Picker(S), S)
BY DEF Chooses, Picker

LEMMA SumsExist ==
  ASSUME NEW S, IsFiniteSet(S), NEW w, \A x \in S : w[x] \in Int
  PROVE  \E f : Sums(f, w, S)
<1>1. PICK c, op : c = Picker(S) /\ op = Adder(w, S)
  OBVIOUS
<1>2. Closed(op, S, Int)
  BY <1>1 DEF Closed, Adder
<1>3. Chooses(c, S)
  BY <1>1, PickerChooses
<1>4. 0 \in Int
  OBVIOUS
<1>5. \E f \in [SUBSET S -> Int] : Solves(f, S, 0, c, op)
  BY <1>2, <1>3, <1>4, FoldExists
<1>6. QED BY <1>1, <1>5 DEF Sums

(* What a recursion g over the subsets must do to be the sum.              *)
Adds(g, w, S) ==
    g = [s \in SUBSET S |-> IF s = {} THEN 0
                            ELSE w[CHOOSE x \in s : TRUE] + g[s \ {CHOOSE x \in s : TRUE}]]

(* A recursion g over the subsets of S is the sum as soon as it adds one
   element at a time.                                                      *)
LEMMA AddsFrom ==
  ASSUME NEW g, NEW w, NEW S, g = [s \in SUBSET S |-> g[s]], g[{}] = 0,
         \A s \in SUBSET S : s # {} => g[s] = w[CHOOSE x \in s : TRUE] + g[s \ {CHOOSE x \in s : TRUE}]
  PROVE  Adds(g, w, S)
<1>1. \A s \in SUBSET S : g[s] = (IF s = {} THEN 0
                                  ELSE w[CHOOSE x \in s : TRUE] + g[s \ {CHOOSE x \in s : TRUE}])
  OBVIOUS
<1>2. QED BY <1>1 DEF Adds

LEMMA SumsAdd ==
  ASSUME NEW S, NEW w, \A x \in S : w[x] \in Int, NEW f, Sums(f, w, S)
  PROVE  Adds(f, w, S)
<1>1. ASSUME NEW s \in SUBSET S, s # {}
      PROVE  f[s] = w[CHOOSE x \in s : TRUE] + f[s \ {CHOOSE x \in s : TRUE}]
  <2>1. PICK x : x = CHOOSE y \in s : TRUE
    OBVIOUS
  <2>2. x \in s /\ Picker(S)[s] = x /\ s \ {x} \in SUBSET S
    BY <1>1, <2>1 DEF Picker
  <2>3. f[s] = Adder(w, S)[x][f[s \ {x}]]
    BY <1>1, <2>2 DEF Sums, Solves
  <2>4. f[s \ {x}] \in Int
    BY <2>2 DEF Sums
  <2>5. f[s] = w[x] + f[s \ {x}]
    BY <2>2, <2>3, <2>4 DEF Adder
  <2>6. QED BY <2>1, <2>5
<1>2. f[{}] = 0
  BY DEF Sums, Solves
<1>3. f = [s \in SUBSET S |-> f[s]]
  BY DEF Sums
<1>4. QED BY <1>1, <1>2, <1>3 DEF Adds

LEMMA SumIsUnique ==
  ASSUME NEW S, IsFiniteSet(S), NEW w, \A x \in S : w[x] \in Int, NEW f, Sums(f, w, S),
         NEW g, Adds(g, w, S)
  PROVE  g[S] = f[S]
<1>1. PICK c, op : c = Picker(S) /\ op = Adder(w, S)
  OBVIOUS
<1>2. Chooses(c, S)
  BY <1>1, PickerChooses
<1>3. Agrees(g, S, Int, 0, c, op)
  <2>1. g[{}] = 0
    BY DEF Adds
  <2>2. ASSUME NEW s \in SUBSET S, s # {}, g[s \ {c[s]}] \in Int
        PROVE  g[s] = op[c[s]][g[s \ {c[s]}]]
    <3>1. c[s] = (CHOOSE x \in s : TRUE) /\ c[s] \in S
      BY <1>1, <1>2, <2>2 DEF Picker, Chooses
    <3>2. g[s] = w[c[s]] + g[s \ {c[s]}]
      BY <2>2, <3>1 DEF Adds
    <3>3. QED BY <1>1, <2>2, <3>1, <3>2 DEF Adder
  <2>3. QED BY <2>1, <2>2 DEF Agrees
<1>4. f \in [SUBSET S -> Int] /\ Solves(f, S, 0, c, op) /\ 0 \in Int
  BY <1>1 DEF Sums
<1>5. AlikeOn(g, f, S)
  BY <1>2, <1>3, <1>4, FoldIsUnique
<1>6. QED BY <1>5 DEF AlikeOn

SumOver(w, S) == MapThenSumSet(LAMBDA x : w[x], S)

LEMMA SumOfFunction ==
  ASSUME NEW S, IsFiniteSet(S), NEW w, \A x \in S : w[x] \in Int
  PROVE  SumOver(w, S) \in Int
<1>1. PICK f : Sums(f, w, S)
  BY SumsExist
<1>2. Adds(f, w, S)
  BY <1>1, SumsAdd
<1>3. PICK g : g = CHOOSE it : Adds(it, w, S)
  OBVIOUS
<1>4. SumOver(w, S) = g[S]
  BY <1>3 DEF SumOver, MapThenSumSet, MapThenFoldSet, Adds
<1>5. Adds(g, w, S)
  BY <1>2, <1>3
<1>6. g[S] = f[S]
  BY <1>1, <1>5, SumIsUnique
<1>7. f[S] \in Int
  BY <1>1 DEF Sums
<1>8. QED BY <1>4, <1>6, <1>7

LEMMA SideAtIsCount ==
  ASSUME NEW b, IsBucket(b), NEW p, NEW side
  PROVE  SideAt(b, p, side) \in Nat
<1>1. CASE p \in DOMAIN b.levels
  <2>1. b.levels[p] \in [b : Nat, s : Nat]
    BY <1>1 DEF IsBucket
  <2>2. b.levels[p].b \in Nat /\ b.levels[p].s \in Nat
    BY <2>1
  <2>3. QED BY <1>1, <2>2 DEF SideAt
<1>2. CASE p \notin DOMAIN b.levels
  BY <1>2 DEF SideAt
<1>3. QED BY <1>1, <1>2

AddsSides(g, win, p, side, S) ==
    g = [s \in SUBSET S |-> IF s = {} THEN 0
            ELSE SideAt(win[CHOOSE x \in s : TRUE], p, side) + g[s \ {CHOOSE x \in s : TRUE}]]

LEMMA AbsorbedIsCount ==
  ASSUME NEW win, IsFiniteSet(DOMAIN win), \A k \in DOMAIN win : IsBucket(win[k]), NEW p, NEW side
  PROVE  Absorbed(win, p, side) \in Int
<1>1. PICK S, w : S = DOMAIN win /\ w = [k \in S |-> SideAt(win[k], p, side)]
  OBVIOUS
<1>2. IsFiniteSet(S) /\ \A k \in S : w[k] \in Int /\ w[k] = SideAt(win[k], p, side)
  <2>1. \A k \in S : SideAt(win[k], p, side) \in Nat
    BY <1>1, SideAtIsCount
  <2>2. QED BY <1>1, <2>1
<1>3. PICK f : Sums(f, w, S)
  BY <1>2, SumsExist
<1>4. Adds(f, w, S)
  BY <1>2, <1>3, SumsAdd
<1>5. \A s \in SUBSET S : s # {} =>
        w[CHOOSE x \in s : TRUE] = SideAt(win[CHOOSE x \in s : TRUE], p, side)
  BY <1>2
<1>6. AddsSides(f, win, p, side, S)
  BY <1>4, <1>5 DEF Adds, AddsSides
<1>7. PICK g : g = CHOOSE it : AddsSides(it, win, p, side, S)
  OBVIOUS
<1>8. Absorbed(win, p, side) = g[S]
  BY <1>1, <1>7 DEF Absorbed, MapThenSumSet, MapThenFoldSet, AddsSides
<1>9. AddsSides(g, win, p, side, S)
  BY <1>6, <1>7
<1>10. Adds(g, w, S)
  <2>1. g = [s \in SUBSET S |-> g[s]] /\ g[{}] = 0
    BY <1>9 DEF AddsSides
  <2>2. \A s \in SUBSET S : s # {} => g[s] = w[CHOOSE x \in s : TRUE] + g[s \ {CHOOSE x \in s : TRUE}]
    BY <1>5, <1>9 DEF AddsSides
  <2>3. QED BY <2>1, <2>2, AddsFrom
<1>11. g[S] = f[S]
  BY <1>2, <1>3, <1>10, SumIsUnique
<1>12. f[S] \in Int
  BY <1>3 DEF Sums
<1>13. QED BY <1>8, <1>11, <1>12

-----------------------------------------------------------------------------
(* The clusters of a window. *)

Sides == {"SELL", "BUY"}
ClusterSet ==
    {c \in [plo : Int, phi : Int, side : Sides, usd : Int, price : Int] :
        c.plo <= c.price /\ c.price <= c.phi}

LEMMA ClusterHasShape ==
  ASSUME NEW c, IsFiniteSet(c), c # {}, c \subseteq Int, NEW side \in Sides,
         NEW mass, \A q \in c : mass[q] \in Int
  PROVE  Cluster(c, side, mass) \in ClusterSet
<1>1. Min(c) \in c /\ Max(c) \in c /\ \A y \in c : Min(c) <= y /\ y <= Max(c)
  BY ExtremesOf
<1>2. PICK peaks : peaks = {p \in c : \A q \in c : mass[q] <= mass[p]}
  OBVIOUS
<1>3. peaks # {}
  <2>1. PICK M, v : v = [q \in c |-> mass[q]] /\ M = {v[q] : q \in c}
    OBVIOUS
  <2>2. v \in Surjection(c, M)
    BY <2>1 DEF Surjection
  <2>3. IsFiniteSet(M)
    BY <2>2, FS_Surjection
  <2>4. M \subseteq Int /\ M # {}
    BY <2>1
  <2>5. Max(M) \in M /\ \A y \in M : y <= Max(M)
    BY <2>3, <2>4, ExtremesOf
  <2>6. PICK p \in c : mass[p] = Max(M)
    BY <2>1, <2>5
  <2>7. \A q \in c : mass[q] <= mass[p]
    BY <2>1, <2>5, <2>6
  <2>8. QED BY <1>2, <2>6, <2>7
<1>4. IsFiniteSet(peaks) /\ peaks \subseteq Int
  BY <1>2, FS_Subset
<1>5. PICK price : price = Min(peaks)
  OBVIOUS
<1>6. price \in c
  BY <1>2, <1>3, <1>4, <1>5, ExtremesOf
<1>7. PICK sum : sum = MapThenSumSet(LAMBDA q : mass[q], c)
  OBVIOUS
<1>8. sum \in Int
  <2>1. sum = SumOver(mass, c)
    BY <1>7 DEF SumOver
  <2>2. QED BY <2>1, SumOfFunction
<1>9. PICK lo, hi : lo = Min(c) /\ hi = Max(c)
  OBVIOUS
<1>10. lo \in Int /\ hi \in Int /\ price \in Int /\ lo <= price /\ price <= hi
  BY <1>1, <1>6, <1>9
<1>11. sum * (lo + hi) \in Int
  BY <1>8, <1>10
<1>12. Cluster(c, side, mass) = [plo |-> lo, phi |-> hi, side |-> side, usd |-> sum * (lo + hi), price |-> price]
  BY <1>2, <1>5, <1>7, <1>9 DEF Cluster
<1>13. PICK usd : usd = sum * (lo + hi)
  OBVIOUS
<1>14. usd \in Int
  BY <1>11, <1>13
<1>15. Cluster(c, side, mass) = [plo |-> lo, phi |-> hi, side |-> side, usd |-> usd, price |-> price]
  BY <1>12, <1>13
<1>16. QED BY <1>10, <1>14, <1>15 DEF ClusterSet

LEMMA FiredClustersHaveShape ==
  ASSUME NEW fired, IsFiniteSet(fired), fired \subseteq Int, NEW side \in Sides,
         NEW mass, \A q \in fired : mass[q] \in Int
  PROVE  FiredClusters(fired, side, mass) \in Seq(ClusterSet)
<1>1. PICK starts, n, groups : starts = Starts(fired) /\ n = Cardinality(starts) /\ groups = Grouped(fired, starts)
  OBVIOUS
<1>2. starts \subseteq fired /\ starts \subseteq Int
  BY <1>1 DEF Starts
<1>3. IsFiniteSet(starts) /\ n \in Nat
  BY <1>1, <1>2, FS_Subset, FS_CardinalityType
<1>4. groups = [k \in 1..n |-> {q \in fired : Cardinality({p \in starts : p <= q}) = k}]
  BY <1>1 DEF Grouped
<1>5. ASSUME NEW k \in 1..n PROVE Cluster(groups[k], side, mass) \in ClusterSet
  <2>1. PICK c : c = groups[k]
    OBVIOUS
  <2>2. c = {q \in fired : Cardinality({p \in starts : p <= q}) = k}
    BY <1>4, <2>1
  <2>3. c \subseteq fired /\ c \subseteq Int /\ IsFiniteSet(c)
    BY <2>2, FS_Subset
  <2>4. c # {}
    <3>1. Placed(starts, k)
      BY <1>1, <1>2, <1>3, EveryPlace
    <3>2. PICK q \in starts : Cardinality({p \in starts : p <= q}) = k
      BY <3>1 DEF Placed
    <3>3. QED BY <1>2, <2>2, <3>2
  <2>5. \A q \in c : mass[q] \in Int
    BY <2>3
  <2>6. Cluster(c, side, mass) \in ClusterSet
    BY <2>3, <2>4, <2>5, ClusterHasShape
  <2>7. QED BY <2>1, <2>6
<1>6. FiredClusters(fired, side, mass) = [k \in 1..n |-> Cluster(groups[k], side, mass)]
  BY <1>1, <1>4 DEF FiredClusters, ClustersOf
<1>7. QED BY <1>3, <1>5, <1>6

LEMMA PricesAreFinite ==
  ASSUME NEW win, IsFiniteSet(DOMAIN win), \A k \in DOMAIN win : IsBucket(win[k])
  PROVE  IsFiniteSet(Prices(win)) /\ Prices(win) \subseteq Int
<1>1. PICK v, M : v = [k \in DOMAIN win |-> DOMAIN win[k].levels] /\ M = {v[k] : k \in DOMAIN win}
  OBVIOUS
<1>2. v \in Surjection(DOMAIN win, M)
  BY <1>1 DEF Surjection
<1>3. IsFiniteSet(M)
  BY <1>2, FS_Surjection
<1>4. \A k \in DOMAIN win : IsFiniteSet(DOMAIN win[k].levels) /\ DOMAIN win[k].levels \subseteq Int
  BY BucketFields
<1>5. \A T \in M : IsFiniteSet(T) /\ T \subseteq Int
  BY <1>1, <1>4
<1>6. IsFiniteSet(UNION M) /\ UNION M \subseteq Int
  BY <1>3, <1>5, FS_UNION
<1>7. M = {DOMAIN win[k].levels : k \in DOMAIN win}
  BY <1>1
<1>8. QED BY <1>6, <1>7 DEF Prices

LEMMA ClustersHaveShape ==
  ASSUME NEW win, IsFiniteSet(DOMAIN win), \A k \in DOMAIN win : IsBucket(win[k]), NEW side \in Sides
  PROVE  Clusters(win, side) \in Seq(ClusterSet)
<1>1. PICK fired, mass : /\ fired = {p \in Prices(win) : Fires(win, p, side)}
                         /\ mass = [p \in Prices(win) |-> Absorbed(win, p, side)]
  OBVIOUS
<1>2. IsFiniteSet(Prices(win)) /\ Prices(win) \subseteq Int
  BY PricesAreFinite
<1>3. fired \subseteq Prices(win) /\ fired \subseteq Int /\ IsFiniteSet(fired)
  BY <1>1, <1>2, FS_Subset
<1>4. \A p \in Prices(win) : Absorbed(win, p, side) \in Int
  BY AbsorbedIsCount
<1>5. \A q \in fired : mass[q] \in Int
  BY <1>1, <1>3, <1>4
<1>6. FiredClusters(fired, side, mass) \in Seq(ClusterSet)
  BY <1>3, <1>5, FiredClustersHaveShape
<1>7. QED BY <1>1, <1>6 DEF Clusters

-----------------------------------------------------------------------------
(* The absorption marks. *)

MarkSet ==
    {m \in [plo : Int, phi : Int, price : Int, side : Sides, usd : Int, tier : 1..3, birth : Nat,
            id : Sides \X Int \X Nat, end : Nat, active : BOOLEAN] :
        m.plo <= m.price /\ m.price <= m.phi}

LEMMA MarkFields ==
  ASSUME NEW m \in MarkSet
  PROVE  /\ m.plo \in Int /\ m.phi \in Int /\ m.price \in Int /\ m.side \in Sides /\ m.usd \in Int
         /\ m.tier \in 1..3 /\ m.birth \in Nat /\ m.end \in Nat /\ m.active \in BOOLEAN
         /\ m.plo <= m.price /\ m.price <= m.phi
BY DEF MarkSet

LEMMA ClusterFields ==
  ASSUME NEW c \in ClusterSet
  PROVE  /\ c.plo \in Int /\ c.phi \in Int /\ c.price \in Int /\ c.side \in Sides /\ c.usd \in Int
         /\ c.plo <= c.price /\ c.price <= c.phi
BY DEF ClusterSet

LEMMA TierIs ==
  ASSUME NEW usd
  PROVE  Tier(usd) \in 1..3
BY DEF Tier

(* A lifted mark stays itself and widens, and its peak does not fall.      *)
LEMMA LiftedMark ==
  ASSUME NEW m \in MarkSet, NEW c \in ClusterSet
  PROVE  /\ Lifted(m, c) \in MarkSet
         /\ Lifted(m, c).plo <= m.plo /\ m.phi <= Lifted(m, c).phi
         /\ Lifted(m, c).birth = m.birth /\ Lifted(m, c).end = m.end
         /\ Lifted(m, c).active = m.active /\ Lifted(m, c).side = m.side
         /\ Lifted(m, c).id = m.id /\ m.usd <= Lifted(m, c).usd
         /\ Lifted(m, c).tier = IF c.usd > m.usd THEN Tier(c.usd) ELSE m.tier
         /\ Lifted(m, c).usd = IF c.usd > m.usd THEN c.usd ELSE m.usd
<1>1. PICK usd, tier, price, plo, phi :
        /\ usd = Max({m.usd, c.usd}) /\ plo = Min({m.plo, c.plo}) /\ phi = Max({m.phi, c.phi})
        /\ tier = (IF c.usd > m.usd THEN Tier(c.usd) ELSE m.tier)
        /\ price = (IF c.usd > m.usd THEN c.price ELSE m.price)
  OBVIOUS
<1>2. /\ m.plo \in Int /\ m.phi \in Int /\ m.price \in Int /\ m.usd \in Int /\ m.tier \in 1..3
      /\ m.plo <= m.price /\ m.price <= m.phi
      /\ c.plo \in Int /\ c.phi \in Int /\ c.price \in Int /\ c.usd \in Int
      /\ c.plo <= c.price /\ c.price <= c.phi
  BY MarkFields, ClusterFields
<1>3. usd = IF m.usd >= c.usd THEN m.usd ELSE c.usd
  BY <1>1, <1>2, OfTwo
<1>4. plo = IF m.plo <= c.plo THEN m.plo ELSE c.plo
  BY <1>1, <1>2, OfTwo
<1>5. phi = IF m.phi >= c.phi THEN m.phi ELSE c.phi
  BY <1>1, <1>2, OfTwo
<1>6. tier \in 1..3
  BY <1>1, <1>2, TierIs
<1>7. usd \in Int /\ price \in Int /\ plo \in Int /\ phi \in Int /\ plo <= price /\ price <= phi
  BY <1>1, <1>2, <1>3, <1>4, <1>5
<1>8. PICK z : z = [m EXCEPT !.usd = usd, !.tier = tier, !.price = price, !.plo = plo, !.phi = phi]
  OBVIOUS
<1>9. z = Lifted(m, c)
  BY <1>1, <1>8 DEF Lifted, MarkSet
<1>10. z \in MarkSet
  BY <1>6, <1>7, <1>8 DEF MarkSet
<1>11. /\ z.plo = plo /\ z.phi = phi /\ z.usd = usd /\ z.tier = tier /\ z.birth = m.birth
       /\ z.end = m.end /\ z.active = m.active /\ z.side = m.side /\ z.id = m.id
  BY <1>8 DEF MarkSet
<1>12. plo <= m.plo /\ m.phi <= phi /\ m.usd <= usd
  BY <1>2, <1>3, <1>4, <1>5
<1>13. usd = IF c.usd > m.usd THEN c.usd ELSE m.usd
  BY <1>2, <1>3
<1>14. QED BY <1>1, <1>9, <1>10, <1>11, <1>12, <1>13

LEMMA NewMarkIsBorn ==
  ASSUME NEW c \in ClusterSet, NEW t \in Nat
  PROVE  /\ NewMark(c, t) \in MarkSet /\ NewMark(c, t).birth = t /\ NewMark(c, t).end = 0
         /\ NewMark(c, t).active = TRUE
         /\ NewMark(c, t).usd = c.usd /\ NewMark(c, t).tier = Tier(c.usd)
<1>1. /\ c.plo \in Int /\ c.phi \in Int /\ c.price \in Int /\ c.side \in Sides /\ c.usd \in Int
      /\ c.plo <= c.price /\ c.price <= c.phi
  BY ClusterFields
<1>2. PICK z, tier, id : /\ tier = Tier(c.usd) /\ id = <<c.side, c.plo, t>>
        /\ z = [plo |-> c.plo, phi |-> c.phi, price |-> c.price, side |-> c.side, usd |-> c.usd,
                tier |-> tier, birth |-> t, id |-> id, end |-> 0, active |-> TRUE]
  OBVIOUS
<1>3. z = NewMark(c, t)
  BY <1>2 DEF NewMark
<1>4. tier \in 1..3 /\ id \in Sides \X Int \X Nat
  BY <1>1, <1>2, TierIs
<1>5. z \in MarkSet
  BY <1>1, <1>2, <1>4 DEF MarkSet
<1>6. z.birth = t /\ z.end = 0 /\ z.active = TRUE /\ z.usd = c.usd /\ z.tier = tier
  BY <1>2
<1>7. QED BY <1>2, <1>3, <1>5, <1>6

(* What a cluster does to the standing marks: it lifts one of them in its  *)
(* place or adds one.                                                      *)
Grown(ms, ns, c, t) ==
    /\ ns \in Seq(MarkSet) /\ Len(ms) <= Len(ns)
    /\ \A i \in 1..Len(ms) : ns[i] = ms[i] \/ ns[i] = Lifted(ms[i], c)
    /\ \A i \in 1..Len(ns) : i > Len(ms) => ns[i] = NewMark(c, t)

LEMMA MeetGrows ==
  ASSUME NEW ms \in Seq(MarkSet), NEW c \in ClusterSet, NEW t \in Nat
  PROVE  Grown(ms, Meet(ms, c, t), c, t)
<1>1. PICK near, n, ns : near = {k \in DOMAIN ms : Near(ms[k], c)} /\ n = Len(ms) /\ ns = Meet(ms, c, t)
  OBVIOUS
<1>2. n \in Nat /\ DOMAIN ms = 1..n /\ \A i \in 1..n : ms[i] \in MarkSet
  BY <1>1
<1>3. CASE near = {}
  <2>1. ns = Append(ms, NewMark(c, t))
    BY <1>1, <1>3 DEF Meet
  <2>2. NewMark(c, t) \in MarkSet
    BY NewMarkIsBorn
  <2>3. /\ ns \in Seq(MarkSet) /\ Len(ns) = n + 1 /\ ns[n + 1] = NewMark(c, t)
        /\ \A i \in 1..n : ns[i] = ms[i]
    BY <1>1, <1>2, <2>1, <2>2
  <2>4. \A i \in 1..Len(ns) : i > n => i = n + 1
    BY <1>2, <2>3
  <2>5. QED BY <1>1, <1>2, <2>3, <2>4 DEF Grown
<1>4. CASE near # {}
  <2>1. PICK k : k = Min(near)
    OBVIOUS
  <2>2. near \subseteq Nat /\ near \subseteq 1..n
    BY <1>1, <1>2
  <2>3. k \in 1..n
    BY <1>4, <2>1, <2>2, LeastOf
  <2>4. ns = [ms EXCEPT ![k] = Lifted(ms[k], c)]
    BY <1>1, <1>4, <2>1, <2>3 DEF Meet
  <2>5. Lifted(ms[k], c) \in MarkSet
    BY <1>2, <2>3, LiftedMark
  <2>6. ns \in Seq(MarkSet) /\ Len(ns) = n /\ \A i \in 1..n : ns[i] = IF i = k THEN Lifted(ms[k], c) ELSE ms[i]
    BY <1>1, <1>2, <2>3, <2>4, <2>5
  <2>7. \A i \in 1..Len(ns) : ~(i > n)
    BY <1>2, <2>6
  <2>8. QED BY <1>1, <1>2, <2>6, <2>7 DEF Grown
<1>5. QED BY <1>3, <1>4

-----------------------------------------------------------------------------
(* Walks: a fold over the indices, step by step.                           *)

Walk(h, n, D, base, op) ==
    h \in [0..n -> D] /\ h[0] = base /\ \A k \in 1..n : h[k] = op[k][h[k - 1]]
FoldsLike(g, n, D, base, op) ==
    /\ g[{}] = base
    /\ \A s \in SUBSET (1..n) : s # {} /\ g[s \ {Max(s)}] \in D
                                => g[s] = op[Max(s)][g[s \ {Max(s)}]]

(* Whatever satisfies the equation of the fold ends where the walk ends.   *)
LEMMA WalkEnds ==
  ASSUME NEW n \in Nat, NEW D, NEW base \in D, NEW op,
         NEW f, IndexFolds(f, n, D, base, op), NEW g, FoldsLike(g, n, D, base, op)
  PROVE  \E h : Walk(h, n, D, base, op) /\ g[1..n] = h[n]
<1>1. /\ f \in [SUBSET (1..n) -> D]
      /\ f = [s \in SUBSET (1..n) |-> IF s = {} THEN base ELSE op[Max(s)][f[s \ {Max(s)}]]]
      /\ \A k \in 1..n : f[1..k] = op[k][f[1..(k - 1)]]
  BY DEF IndexFolds
<1>2. \A s \in SUBSET (1..n) : g[s] = f[s]
  BY DEF IndexFolds, FoldsLike
<1>3. PICK h : h = [k \in 0..n |-> f[1..k]]
  OBVIOUS
<1>4. \A k \in 0..n : 1..k \in SUBSET (1..n)
  OBVIOUS
<1>5. h \in [0..n -> D]
  BY <1>1, <1>3, <1>4
<1>6. h[0] = base
  <2>1. 1..0 = {} /\ 0 \in 0..n
    OBVIOUS
  <2>2. QED BY <1>1, <1>3, <2>1
<1>7. ASSUME NEW k \in 1..n PROVE h[k] = op[k][h[k - 1]]
  <2>1. k \in 0..n /\ k - 1 \in 0..n
    OBVIOUS
  <2>2. h[k] = f[1..k] /\ h[k - 1] = f[1..(k - 1)]
    BY <1>3, <2>1
  <2>3. QED BY <1>1, <2>2
<1>8. n \in 0..n
  OBVIOUS
<1>9. g[1..n] = h[n]
  BY <1>2, <1>3, <1>4, <1>8
<1>10. QED BY <1>5, <1>6, <1>7, <1>9 DEF Walk

(* The marks that the close of bucket b leaves standing.                   *)
Living(ms, b) ==
    FoldLeft(LAMBDA ns, m : IF BrokenBy(m, b) THEN ns ELSE Append(ns, m), <<>>, ms)
Left(y, m, b) == IF BrokenBy(m, b) THEN y ELSE Append(y, m)
SolvesLiving(it, ms, b) ==
    it = [s \in SUBSET (1..Len(ms)) |->
            IF s = {} THEN <<>> ELSE Left(it[s \ {Max(s)}], ms[Max(s)], b)]
LeftOp(ms, b) == [i \in 1..Len(ms) |-> [y \in Seq(MarkSet) |-> Left(y, ms[i], b)]]

LEMMA LivingWalks ==
  ASSUME NEW ms \in Seq(MarkSet), NEW b
  PROVE  \E h : Walk(h, Len(ms), Seq(MarkSet), <<>>, LeftOp(ms, b)) /\ Living(ms, b) = h[Len(ms)]
<1>1. PICK n, D, op : n = Len(ms) /\ D = Seq(MarkSet) /\ op = LeftOp(ms, b)
  OBVIOUS
<1>2. n \in Nat /\ DOMAIN ms = 1..n /\ (\A i \in 1..n : ms[i] \in MarkSet) /\ <<>> \in D
  BY <1>1
<1>3. \A y \in D, i \in 1..n : op[i][y] = Left(y, ms[i], b)
  BY <1>1 DEF LeftOp
<1>4. \A y \in D, i \in 1..n : Left(y, ms[i], b) \in D
  BY <1>1, <1>2 DEF Left
<1>5. Closed(op, 1..n, D)
  BY <1>3, <1>4 DEF Closed
<1>6. PICK f : IndexFolds(f, n, D, <<>>, op)
  BY <1>2, <1>5, IndexFold
<1>7. /\ f \in [SUBSET (1..n) -> D]
      /\ f = [s \in SUBSET (1..n) |-> IF s = {} THEN <<>> ELSE op[Max(s)][f[s \ {Max(s)}]]]
  BY <1>6 DEF IndexFolds
<1>8. \A s \in SUBSET (1..n) : s # {} => Max(s) \in 1..n
  BY <1>2, GreatestOf
<1>9. SolvesLiving(f, ms, b)
  <2>1. ASSUME NEW s \in SUBSET (1..n), s # {}
        PROVE  op[Max(s)][f[s \ {Max(s)}]] = Left(f[s \ {Max(s)}], ms[Max(s)], b)
    <3>1. f[s \ {Max(s)}] \in D
      BY <1>7
    <3>2. QED BY <1>3, <1>8, <2>1, <3>1
  <2>2. f = [s \in SUBSET (1..n) |-> IF s = {} THEN <<>> ELSE Left(f[s \ {Max(s)}], ms[Max(s)], b)]
    BY <1>7, <2>1
  <2>3. QED BY <1>1, <2>2 DEF SolvesLiving
<1>10. PICK g : g = CHOOSE it : SolvesLiving(it, ms, b)
  OBVIOUS
<1>11. Living(ms, b) = g[1..n]
  BY <1>1, <1>2, <1>10 DEF Living, Left, SolvesLiving, FoldLeft, MapThenFoldSet
<1>12. SolvesLiving(g, ms, b)
  BY <1>9, <1>10
<1>13. g = [s \in SUBSET (1..n) |-> IF s = {} THEN <<>> ELSE Left(g[s \ {Max(s)}], ms[Max(s)], b)]
  BY <1>1, <1>12 DEF SolvesLiving
<1>14. FoldsLike(g, n, D, <<>>, op)
  <2>1. g[{}] = <<>>
    BY <1>13
  <2>2. ASSUME NEW s \in SUBSET (1..n), s # {}, g[s \ {Max(s)}] \in D
        PROVE  g[s] = op[Max(s)][g[s \ {Max(s)}]]
    <3>1. g[s] = Left(g[s \ {Max(s)}], ms[Max(s)], b)
      BY <1>13, <2>2
    <3>2. QED BY <1>3, <1>8, <2>2, <3>1
  <2>3. QED BY <2>1, <2>2 DEF FoldsLike
<1>15. \E h : Walk(h, n, D, <<>>, op) /\ g[1..n] = h[n]
  BY <1>2, <1>6, <1>14, WalkEnds
<1>16. QED BY <1>1, <1>11, <1>15

LEMMA AppendedElements ==
  ASSUME NEW S, NEW s \in Seq(S), NEW m \in S
  PROVE  ToSet(Append(s, m)) = ToSet(s) \cup {m}
<1>1. PICK n, a : n = Len(s) /\ a = Append(s, m)
  OBVIOUS
<1>2. /\ n \in Nat /\ DOMAIN s = 1..n /\ DOMAIN a = 1..(n + 1)
      /\ (\A i \in 1..n : a[i] = s[i]) /\ a[n + 1] = m
  BY <1>1
<1>3. 1..(n + 1) = 1..n \cup {n + 1}
  BY <1>2
<1>4. {a[i] : i \in 1..(n + 1)} = {s[i] : i \in 1..n} \cup {m}
  BY <1>2, <1>3
<1>5. ToSet(s) = {s[i] : i \in 1..n} /\ ToSet(a) = {a[i] : i \in 1..(n + 1)}
  BY <1>2 DEF ToSet
<1>6. QED BY <1>1, <1>4, <1>5

(* They are the marks that it does not break.                              *)
LEMMA LivingIsUnbroken ==
  ASSUME NEW ms \in Seq(MarkSet), NEW b
  PROVE  /\ Living(ms, b) \in Seq(MarkSet)
         /\ ToSet(Living(ms, b)) = {m \in ToSet(ms) : ~BrokenBy(m, b)}
<1>1. PICK n, D, op : n = Len(ms) /\ D = Seq(MarkSet) /\ op = LeftOp(ms, b)
  OBVIOUS
<1>2. n \in Nat /\ DOMAIN ms = 1..n /\ (\A i \in 1..n : ms[i] \in MarkSet)
  BY <1>1
<1>3. PICK h : Walk(h, n, D, <<>>, op) /\ Living(ms, b) = h[n]
  BY <1>1, LivingWalks
<1>4. h \in [0..n -> D] /\ h[0] = <<>> /\ \A k \in 1..n : h[k] = op[k][h[k - 1]]
  BY <1>3 DEF Walk
<1>5. \A k \in 1..n : h[k] = Left(h[k - 1], ms[k], b)
  <2>1. \A k \in 1..n : k - 1 \in 0..n /\ h[k - 1] \in D
    BY <1>2, <1>4
  <2>2. QED BY <1>1, <1>4, <2>1 DEF LeftOp
<1>6. PICK R : R = {k \in Nat : k <= n =>
                      ToSet(h[k]) = {m \in MarkSet : ~BrokenBy(m, b) /\ \E i \in 1..k : m = ms[i]}}
  OBVIOUS
<1>7. 0 \in R
  <2>1. ToSet(h[0]) = {} /\ 1..0 = {}
    BY <1>4 DEF ToSet
  <2>2. QED BY <1>6, <2>1
<1>8. ASSUME NEW k \in Nat, k \in R PROVE k + 1 \in R
  <2>1. SUFFICES ASSUME k + 1 <= n
                 PROVE  ToSet(h[k + 1]) = {m \in MarkSet : ~BrokenBy(m, b) /\ \E i \in 1..(k + 1) : m = ms[i]}
    BY <1>6
  <2>2. k + 1 \in 1..n /\ k \in 0..n /\ (k + 1) - 1 = k /\ k <= n
    BY <1>2, <2>1
  <2>3. h[k + 1] = Left(h[k], ms[k + 1], b) /\ h[k] \in D
    BY <1>4, <1>5, <2>2
  <2>4. ToSet(h[k]) = {m \in MarkSet : ~BrokenBy(m, b) /\ \E i \in 1..k : m = ms[i]}
    BY <1>6, <1>8, <2>2
  <2>5. 1..(k + 1) = 1..k \cup {k + 1}
    OBVIOUS
  <2>6. ms[k + 1] \in MarkSet
    BY <1>2, <2>2
  <2>7. CASE BrokenBy(ms[k + 1], b)
    BY <2>3, <2>4, <2>5, <2>7 DEF Left
  <2>8. CASE ~BrokenBy(ms[k + 1], b)
    <3>1. ToSet(Append(h[k], ms[k + 1])) = ToSet(h[k]) \cup {ms[k + 1]}
      <4>1. h[k] \in Seq(MarkSet)
        BY <1>1, <2>3
      <4>2. QED BY <2>6, <4>1, AppendedElements
    <3>2. h[k + 1] = Append(h[k], ms[k + 1])
      BY <2>3, <2>8 DEF Left
    <3>3. QED BY <2>4, <2>5, <2>6, <2>8, <3>1, <3>2
  <2>9. QED BY <2>7, <2>8
<1>9. Nat \subseteq R
  BY <1>7, <1>8, EveryNatural
<1>10. ToSet(h[n]) = {m \in MarkSet : ~BrokenBy(m, b) /\ \E i \in 1..n : m = ms[i]}
  BY <1>2, <1>6, <1>9
<1>11. ToSet(ms) = {ms[i] : i \in 1..n}
  BY <1>2 DEF ToSet
<1>12. {m \in MarkSet : ~BrokenBy(m, b) /\ \E i \in 1..n : m = ms[i]} = {m \in ToSet(ms) : ~BrokenBy(m, b)}
  BY <1>2, <1>11
<1>13. h[n] \in D
  BY <1>2, <1>4
<1>14. QED BY <1>1, <1>3, <1>10, <1>12, <1>13

-----------------------------------------------------------------------------
(* The standing marks from bucket to bucket. *)

HasTier(m) == m.tier = Tier(m.usd)

(* The mark n is the mark m, wider and no weaker.                          *)
Outgrows(n, m) ==
    /\ n \in MarkSet /\ n.plo <= m.plo /\ m.phi <= n.phi /\ m.usd <= n.usd
    /\ n.birth = m.birth /\ n.end = m.end /\ n.active = m.active /\ n.side = m.side /\ n.id = m.id
    /\ HasTier(m) => HasTier(n)
Born(n, t) == n.birth = t /\ n.end = 0 /\ n.active = TRUE /\ HasTier(n)

Raised(ms, ns, t) ==
    /\ ns \in Seq(MarkSet) /\ Len(ms) <= Len(ns)
    /\ \A i \in 1..Len(ms) : Outgrows(ns[i], ms[i])
    /\ \A i \in 1..Len(ns) : i > Len(ms) => Born(ns[i], t)

LEMMA LiftedOutgrows ==
  ASSUME NEW m \in MarkSet, NEW c \in ClusterSet
  PROVE  Outgrows(Lifted(m, c), m)
<1>1. PICK z : z = Lifted(m, c)
  OBVIOUS
<1>2. /\ z \in MarkSet /\ z.plo <= m.plo /\ m.phi <= z.phi
      /\ z.birth = m.birth /\ z.end = m.end /\ z.active = m.active /\ z.side = m.side
      /\ z.id = m.id /\ m.usd <= z.usd
      /\ z.tier = (IF c.usd > m.usd THEN Tier(c.usd) ELSE m.tier)
      /\ z.usd = IF c.usd > m.usd THEN c.usd ELSE m.usd
  BY <1>1, LiftedMark
<1>3. HasTier(m) => HasTier(z)
  BY <1>2 DEF HasTier
<1>4. QED BY <1>1, <1>2, <1>3 DEF Outgrows

LEMMA OutgrowsItself ==
  ASSUME NEW m \in MarkSet
  PROVE  Outgrows(m, m)
<1>1. m.plo \in Int /\ m.phi \in Int /\ m.usd \in Int
  BY MarkFields
<1>2. m.plo <= m.plo /\ m.phi <= m.phi /\ m.usd <= m.usd
  BY <1>1
<1>3. QED BY <1>2 DEF Outgrows

LEMMA OutgrowsInTurn ==
  ASSUME NEW m \in MarkSet, NEW n, Outgrows(n, m), NEW o, Outgrows(o, n)
  PROVE  Outgrows(o, m)
<1>1. n \in MarkSet /\ o \in MarkSet
  BY DEF Outgrows
<1>2. /\ m.plo \in Int /\ m.phi \in Int /\ m.usd \in Int
      /\ n.plo \in Int /\ n.phi \in Int /\ n.usd \in Int
      /\ o.plo \in Int /\ o.phi \in Int /\ o.usd \in Int
  BY <1>1, MarkFields
<1>3. o.plo <= m.plo /\ m.phi <= o.phi /\ m.usd <= o.usd
  BY <1>2 DEF Outgrows
<1>4. QED BY <1>1, <1>3 DEF Outgrows

LEMMA BornOutgrown ==
  ASSUME NEW m \in MarkSet, NEW t, Born(m, t), NEW n, Outgrows(n, m)
  PROVE  Born(n, t)
BY DEF Born, Outgrows

LEMMA MeetRaises ==
  ASSUME NEW ms \in Seq(MarkSet), NEW c \in ClusterSet, NEW t \in Nat
  PROVE  Raised(ms, Meet(ms, c, t), t)
<1>1. PICK ns, n : ns = Meet(ms, c, t) /\ n = Len(ms)
  OBVIOUS
<1>2. Grown(ms, ns, c, t)
  BY <1>1, MeetGrows
<1>3. n \in Nat /\ \A i \in 1..n : ms[i] \in MarkSet
  BY <1>1
<1>4. \A i \in 1..n : Outgrows(ns[i], ms[i])
  <2>1. SUFFICES ASSUME NEW i \in 1..n PROVE Outgrows(ns[i], ms[i])
    OBVIOUS
  <2>2. ns[i] = ms[i] \/ ns[i] = Lifted(ms[i], c)
    BY <1>1, <1>2 DEF Grown
  <2>3. QED BY <1>3, <2>2, LiftedOutgrows, OutgrowsItself
<1>5. Born(NewMark(c, t), t)
  <2>1. PICK z : z = NewMark(c, t)
    OBVIOUS
  <2>2. z.birth = t /\ z.end = 0 /\ z.active = TRUE /\ z.usd = c.usd /\ z.tier = Tier(c.usd)
    BY <2>1, NewMarkIsBorn
  <2>3. QED BY <2>1, <2>2 DEF Born, HasTier
<1>6. QED BY <1>1, <1>2, <1>4, <1>5 DEF Grown, Raised

LEMMA RaisedInTurn ==
  ASSUME NEW ms \in Seq(MarkSet), NEW ns, NEW os, NEW t, Raised(ms, ns, t), Raised(ns, os, t)
  PROVE  Raised(ms, os, t)
<1>1. ns \in Seq(MarkSet) /\ os \in Seq(MarkSet)
  BY DEF Raised
<1>2. PICK l, m, n : l = Len(ms) /\ m = Len(ns) /\ n = Len(os)
  OBVIOUS
<1>3. /\ l \in Nat /\ m \in Nat /\ n \in Nat /\ l <= m /\ m <= n
      /\ (\A i \in 1..l : ms[i] \in MarkSet) /\ (\A i \in 1..m : ns[i] \in MarkSet)
  BY <1>1, <1>2 DEF Raised
<1>4. /\ \A i \in 1..l : Outgrows(ns[i], ms[i])
      /\ \A i \in 1..m : Outgrows(os[i], ns[i])
      /\ \A i \in 1..m : i > l => Born(ns[i], t)
      /\ \A i \in 1..n : i > m => Born(os[i], t)
  BY <1>2 DEF Raised
<1>5. ASSUME NEW i \in 1..l PROVE Outgrows(os[i], ms[i])
  <2>1. i \in 1..m
    BY <1>3
  <2>2. QED BY <1>3, <1>4, <2>1, OutgrowsInTurn
<1>6. ASSUME NEW i \in 1..n, i > l PROVE Born(os[i], t)
  <2>1. CASE i > m
    BY <1>4, <2>1
  <2>2. CASE ~(i > m)
    <3>1. i \in 1..m
      BY <1>3, <2>2
    <3>2. QED BY <1>3, <1>4, <1>6, <3>1, BornOutgrown
  <2>3. QED BY <2>1, <2>2
<1>7. QED BY <1>1, <1>2, <1>3, <1>5, <1>6 DEF Raised

(* The clusters of a window meet the marks one after the other.            *)
Met(ms, cs, t) == FoldLeft(LAMBDA ns, c : Meet(ns, c, t), ms, cs)
SolvesMet(it, ms, cs, t) ==
    it = [s \in SUBSET (1..Len(cs)) |->
            IF s = {} THEN ms ELSE Meet(it[s \ {Max(s)}], cs[Max(s)], t)]
MeetOp(cs, t) == [i \in 1..Len(cs) |-> [y \in Seq(MarkSet) |-> Meet(y, cs[i], t)]]

LEMMA MetWalks ==
  ASSUME NEW ms \in Seq(MarkSet), NEW cs \in Seq(ClusterSet), NEW t \in Nat
  PROVE  \E h : Walk(h, Len(cs), Seq(MarkSet), ms, MeetOp(cs, t)) /\ Met(ms, cs, t) = h[Len(cs)]
<1>1. PICK n, D, op : n = Len(cs) /\ D = Seq(MarkSet) /\ op = MeetOp(cs, t)
  OBVIOUS
<1>2. n \in Nat /\ DOMAIN cs = 1..n /\ (\A i \in 1..n : cs[i] \in ClusterSet) /\ ms \in D
  BY <1>1
<1>3. \A y \in D, i \in 1..n : op[i][y] = Meet(y, cs[i], t)
  BY <1>1 DEF MeetOp
<1>4. ASSUME NEW y \in D, NEW i \in 1..n PROVE Meet(y, cs[i], t) \in D
  <2>1. Raised(y, Meet(y, cs[i], t), t)
    BY <1>1, <1>2, MeetRaises
  <2>2. QED BY <1>1, <2>1 DEF Raised
<1>5. Closed(op, 1..n, D)
  BY <1>3, <1>4 DEF Closed
<1>6. PICK f : IndexFolds(f, n, D, ms, op)
  BY <1>2, <1>5, IndexFold
<1>7. /\ f \in [SUBSET (1..n) -> D]
      /\ f = [s \in SUBSET (1..n) |-> IF s = {} THEN ms ELSE op[Max(s)][f[s \ {Max(s)}]]]
  BY <1>6 DEF IndexFolds
<1>8. \A s \in SUBSET (1..n) : s # {} => Max(s) \in 1..n
  BY <1>2, GreatestOf
<1>9. SolvesMet(f, ms, cs, t)
  <2>1. ASSUME NEW s \in SUBSET (1..n), s # {}
        PROVE  op[Max(s)][f[s \ {Max(s)}]] = Meet(f[s \ {Max(s)}], cs[Max(s)], t)
    <3>1. f[s \ {Max(s)}] \in D
      BY <1>7
    <3>2. QED BY <1>3, <1>8, <2>1, <3>1
  <2>2. f = [s \in SUBSET (1..n) |-> IF s = {} THEN ms ELSE Meet(f[s \ {Max(s)}], cs[Max(s)], t)]
    BY <1>7, <2>1
  <2>3. QED BY <1>1, <2>2 DEF SolvesMet
<1>10. PICK g : g = CHOOSE it : SolvesMet(it, ms, cs, t)
  OBVIOUS
<1>11. Met(ms, cs, t) = g[1..n]
  BY <1>1, <1>2, <1>10 DEF Met, SolvesMet, FoldLeft, MapThenFoldSet
<1>12. SolvesMet(g, ms, cs, t)
  BY <1>9, <1>10
<1>13. g = [s \in SUBSET (1..n) |-> IF s = {} THEN ms ELSE Meet(g[s \ {Max(s)}], cs[Max(s)], t)]
  BY <1>1, <1>12 DEF SolvesMet
<1>14. FoldsLike(g, n, D, ms, op)
  <2>1. g[{}] = ms
    BY <1>13
  <2>2. ASSUME NEW s \in SUBSET (1..n), s # {}, g[s \ {Max(s)}] \in D
        PROVE  g[s] = op[Max(s)][g[s \ {Max(s)}]]
    <3>1. g[s] = Meet(g[s \ {Max(s)}], cs[Max(s)], t)
      BY <1>13, <2>2
    <3>2. QED BY <1>3, <1>8, <2>2, <3>1
  <2>3. QED BY <2>1, <2>2 DEF FoldsLike
<1>15. \E h : Walk(h, n, D, ms, op) /\ g[1..n] = h[n]
  BY <1>2, <1>6, <1>14, WalkEnds
<1>16. QED BY <1>1, <1>11, <1>15

LEMMA MetRaises ==
  ASSUME NEW ms \in Seq(MarkSet), NEW cs \in Seq(ClusterSet), NEW t \in Nat
  PROVE  Raised(ms, Met(ms, cs, t), t)
<1>1. PICK n, D, op : n = Len(cs) /\ D = Seq(MarkSet) /\ op = MeetOp(cs, t)
  OBVIOUS
<1>2. n \in Nat /\ \A i \in 1..n : cs[i] \in ClusterSet
  BY <1>1
<1>3. PICK h : Walk(h, n, D, ms, op) /\ Met(ms, cs, t) = h[n]
  BY <1>1, MetWalks
<1>4. h \in [0..n -> D] /\ h[0] = ms /\ \A k \in 1..n : h[k] = op[k][h[k - 1]]
  BY <1>3 DEF Walk
<1>5. PICK R : R = {k \in Nat : k <= n => Raised(ms, h[k], t)}
  OBVIOUS
<1>6. 0 \in R
  <2>1. PICK l : l = Len(ms)
    OBVIOUS
  <2>2. l \in Nat /\ \A i \in 1..l : ms[i] \in MarkSet /\ ~(i > l)
    BY <2>1
  <2>3. \A i \in 1..l : Outgrows(ms[i], ms[i])
    BY <2>2, OutgrowsItself
  <2>4. Raised(ms, ms, t)
    BY <2>1, <2>2, <2>3 DEF Raised
  <2>5. QED BY <1>4, <1>5, <2>4
<1>7. ASSUME NEW k \in Nat, k \in R PROVE k + 1 \in R
  <2>1. SUFFICES ASSUME k + 1 <= n PROVE Raised(ms, h[k + 1], t)
    BY <1>5
  <2>2. k + 1 \in 1..n /\ k \in 0..n /\ (k + 1) - 1 = k /\ k <= n
    BY <1>2, <2>1
  <2>3. h[k] \in Seq(MarkSet) /\ h[k + 1] = op[k + 1][h[k]]
    BY <1>1, <1>4, <2>2
  <2>4. h[k + 1] = Meet(h[k], cs[k + 1], t)
    BY <1>1, <2>2, <2>3 DEF MeetOp
  <2>5. cs[k + 1] \in ClusterSet
    BY <1>2, <2>2
  <2>6. Raised(h[k], Meet(h[k], cs[k + 1], t), t)
    BY <2>3, <2>5, MeetRaises
  <2>7. Raised(ms, h[k], t)
    BY <1>5, <1>7, <2>2
  <2>8. Raised(h[k], h[k + 1], t)
    BY <2>4, <2>6
  <2>9. QED BY <2>7, <2>8, RaisedInTurn
<1>8. Nat \subseteq R
  BY <1>6, <1>7, EveryNatural
<1>9. Raised(ms, h[n], t)
  BY <1>2, <1>5, <1>8
<1>10. QED BY <1>3, <1>9

-----------------------------------------------------------------------------
(* The absorption of one bucket. *)

LastWindow(bk, k) == SubSeq(bk, k - Window + 1, k)
NewClusters(bk, k) ==
    IF k < Window THEN <<>> ELSE Clusters(LastWindow(bk, k), "SELL") \o Clusters(LastWindow(bk, k), "BUY")
Dead(m, b) == [m EXCEPT !.active = FALSE, !.end = b.t]
Fallen(ms, b) == {Dead(m, b) : m \in {x \in ToSet(ms) : BrokenBy(x, b)}}
StateSet == [active : Seq(MarkSet), done : SUBSET MarkSet]

LEMMA AbsorbedBucket ==
  ASSUME NEW st, NEW bk, NEW k
  PROVE  AbsorbBucket(st, bk, k) =
           [active |-> Met(Living(st.active, bk[k]), NewClusters(bk, k), bk[k].t),
            done   |-> st.done \cup Fallen(st.active, bk[k])]
BY DEF AbsorbBucket, Met, Living, NewClusters, LastWindow, Fallen, Dead

LEMMA NewClustersHaveShape ==
  ASSUME NEW bk, WellFormed(bk), NEW k \in 1..Len(bk)
  PROVE  NewClusters(bk, k) \in Seq(ClusterSet)
<1>1. PICK S, n : S = ToSet(bk) /\ n = Len(bk)
  OBVIOUS
<1>2. bk \in Seq(S) /\ n \in Nat /\ DOMAIN bk = 1..n /\ \A j \in 1..n : IsBucket(bk[j])
  BY <1>1 DEF WellFormed
<1>3. CASE k < Window
  <2>1. NewClusters(bk, k) = <<>>
    BY <1>3 DEF NewClusters
  <2>2. QED BY <2>1
<1>4. CASE ~(k < Window)
  <2>1. Window \in Nat /\ Window > 0
    BY OrderBlockConstants
  <2>2. PICK i, win : i = k - Window + 1 /\ win = SubSeq(bk, i, k)
    OBVIOUS
  <2>3. i \in Nat /\ i >= 1 /\ i <= k /\ k \in Nat /\ k <= n
    BY <1>1, <1>2, <1>4, <2>1, <2>2
  <2>4. DOMAIN win = 1..(k - i + 1) /\ \A j \in 1..(k - i + 1) : win[j] = bk[i + j - 1]
    BY <1>1, <1>2, <2>2, <2>3
  <2>5. \A j \in 1..(k - i + 1) : i + j - 1 \in 1..n
    BY <1>2, <2>3
  <2>6. IsFiniteSet(DOMAIN win) /\ \A j \in DOMAIN win : IsBucket(win[j])
    <3>1. IsFiniteSet(1..(k - i + 1))
      BY <2>3, FS_Interval
    <3>2. QED BY <1>2, <2>4, <2>5, <3>1
  <2>7. PICK s, b : s = Clusters(win, "SELL") /\ b = Clusters(win, "BUY")
    OBVIOUS
  <2>8. "SELL" \in Sides /\ "BUY" \in Sides
    BY DEF Sides
  <2>9. s \in Seq(ClusterSet) /\ b \in Seq(ClusterSet)
    BY <2>6, <2>7, <2>8, ClustersHaveShape
  <2>10. s \o b \in Seq(ClusterSet)
    BY <2>9
  <2>11. NewClusters(bk, k) = s \o b
    BY <1>4, <2>2, <2>7 DEF NewClusters, LastWindow
  <2>12. QED BY <2>10, <2>11
<1>5. QED BY <1>3, <1>4

LEMMA BucketTimes ==
  ASSUME NEW bk, WellFormed(bk)
  PROVE  /\ DOMAIN bk = 1..Len(bk) /\ Len(bk) \in Nat
         /\ \A k \in 1..Len(bk) : bk[k].t \in Nat /\ bk[k].t >= 1 /\ bk[k].close \in Int
         /\ \A i, j \in 1..Len(bk) : i <= j => bk[i].t <= bk[j].t
<1>1. bk \in Seq(ToSet(bk))
  BY DEF WellFormed
<1>2. DOMAIN bk = 1..Len(bk) /\ Len(bk) \in Nat
  BY <1>1
<1>3. \A k \in 1..Len(bk) : IsBucket(bk[k]) /\ bk[k].t >= 1
  BY <1>2 DEF WellFormed
<1>4. \A k \in 1..Len(bk) : bk[k].t \in Nat /\ bk[k].close \in Int
  BY <1>3, BucketFields
<1>5. \A i, j \in 1..Len(bk) : i <= j => bk[i].t <= bk[j].t
  BY <1>2 DEF WellFormed
<1>6. QED BY <1>2, <1>3, <1>4, <1>5

LEMMA DeadMark ==
  ASSUME NEW m \in MarkSet, NEW b, b.t \in Nat
  PROVE  /\ Dead(m, b) \in MarkSet /\ Dead(m, b).active = FALSE /\ Dead(m, b).end = b.t
         /\ Dead(m, b).birth = m.birth /\ Dead(m, b).id = m.id /\ Dead(m, b).plo = m.plo
         /\ Dead(m, b).phi = m.phi /\ Dead(m, b).usd = m.usd /\ Dead(m, b).tier = m.tier
         /\ Dead(m, b).side = m.side
<1>1. PICK t, z : t = b.t /\ z = [m EXCEPT !.active = FALSE, !.end = t]
  OBVIOUS
<1>2. z = Dead(m, b)
  BY <1>1 DEF Dead
<1>3. t \in Nat
  BY <1>1
<1>4. z \in MarkSet
  BY <1>1, <1>3 DEF MarkSet
<1>5. /\ z.active = FALSE /\ z.end = t /\ z.birth = m.birth /\ z.id = m.id /\ z.plo = m.plo
      /\ z.phi = m.phi /\ z.usd = m.usd /\ z.tier = m.tier /\ z.side = m.side
  BY <1>1 DEF MarkSet
<1>6. QED BY <1>1, <1>2, <1>4, <1>5

(* What breaks the wider mark would have broken the narrower one.          *)
LEMMA WiderIsHarder ==
  ASSUME NEW m \in MarkSet, NEW n, Outgrows(n, m), NEW b, b.close \in Int, BrokenBy(n, b)
  PROVE  BrokenBy(m, b)
<1>1. n \in MarkSet /\ n.plo <= m.plo /\ m.phi <= n.phi /\ n.side = m.side
  BY DEF Outgrows
<1>2. m.plo \in Int /\ m.phi \in Int /\ n.plo \in Int /\ n.phi \in Int
  BY <1>1, MarkFields
<1>3. Buffer \in Nat
  BY OrderBlockConstants
<1>4. QED BY <1>1, <1>2, <1>3 DEF BrokenBy

Stands(m, bk, k) ==
    /\ m.active = TRUE /\ m.end = 0 /\ HasTier(m)
    /\ \E j \in 1..k : m.birth = bk[j].t
    /\ \A j \in 1..k : bk[j].t > m.birth => ~BrokenBy(m, bk[j])
Fell(m) == m.active = FALSE /\ m.end >= m.birth
Sound(st, bk, k) ==
    /\ st \in StateSet
    /\ \A m \in ToSet(st.active) : Stands(m, bk, k)
    /\ \A m \in st.done : Fell(m)

LEMMA AbsorbingIsSound ==
  ASSUME NEW bk, WellFormed(bk), NEW k \in 1..Len(bk), NEW st, Sound(st, bk, k - 1)
  PROVE  Sound(AbsorbBucket(st, bk, k), bk, k)
<1>1. PICK b, ms, ls, cs, t, ns, ds :
        /\ b = bk[k] /\ ms = st.active /\ ls = Living(ms, b) /\ cs = NewClusters(bk, k) /\ t = b.t
        /\ ns = Met(ls, cs, t) /\ ds = st.done \cup Fallen(ms, b)
  OBVIOUS
<1>2. ms \in Seq(MarkSet) /\ st.done \in SUBSET MarkSet
  BY <1>1 DEF Sound, StateSet
<1>3. \A m \in ToSet(ms) : m \in MarkSet /\ Stands(m, bk, k - 1)
  <2>1. \A m \in ToSet(ms) : Stands(m, bk, k - 1)
    BY <1>1 DEF Sound
  <2>2. ToSet(ms) \subseteq MarkSet
    BY <1>2 DEF ToSet
  <2>3. QED BY <2>1, <2>2
<1>4. /\ \A j \in 1..Len(bk) : bk[j].t \in Nat /\ bk[j].t >= 1 /\ bk[j].close \in Int
      /\ \A i, j \in 1..Len(bk) : i <= j => bk[i].t <= bk[j].t
      /\ Len(bk) \in Nat
  BY BucketTimes
<1>5. t \in Nat /\ b.t \in Nat /\ b.close \in Int /\ k \in Nat /\ k >= 1 /\ k <= Len(bk)
  BY <1>1, <1>4
<1>6. ls \in Seq(MarkSet) /\ ToSet(ls) = {m \in ToSet(ms) : ~BrokenBy(m, b)}
  BY <1>1, <1>2, LivingIsUnbroken
<1>7. cs \in Seq(ClusterSet)
  BY <1>1, NewClustersHaveShape
<1>8. Raised(ls, ns, t)
  BY <1>1, <1>5, <1>6, <1>7, MetRaises
<1>9. ns \in Seq(MarkSet)
  BY <1>8 DEF Raised
<1>10. \A j \in 1..k : j \in 1..Len(bk) /\ bk[j].t \in Nat /\ bk[j].t <= t /\ (j \in 1..(k - 1) \/ j = k)
  BY <1>1, <1>4, <1>5
<1>11. ASSUME NEW n \in ToSet(ns) PROVE Stands(n, bk, k)
  <2>1. PICK i \in 1..Len(ns) : n = ns[i]
    BY <1>9 DEF ToSet
  <2>2. n \in MarkSet
    BY <1>9, <2>1
  <2>3. n.birth \in Nat
    BY <2>2, MarkFields
  <2>4. Len(ls) \in Nat /\ i \in Nat
    BY <1>6, <2>1
  <2>5. CASE i > Len(ls)
    <3>1. Born(n, t)
      BY <1>8, <2>1, <2>5 DEF Raised
    <3>2. n.birth = bk[k].t /\ k \in 1..k
      BY <1>1, <1>5, <3>1 DEF Born
    <3>3. \A j \in 1..k : ~(bk[j].t > n.birth)
      BY <1>1, <1>5, <1>10, <3>2
    <3>4. QED BY <3>1, <3>2, <3>3 DEF Stands, Born
  <2>6. CASE ~(i > Len(ls))
    <3>1. i \in 1..Len(ls)
      BY <2>1, <2>4, <2>6
    <3>2. PICK m : m = ls[i]
      OBVIOUS
    <3>3. m \in ToSet(ls)
      BY <1>6, <3>1, <3>2 DEF ToSet
    <3>4. m \in ToSet(ms) /\ ~BrokenBy(m, b)
      BY <1>6, <3>3
    <3>5. m \in MarkSet /\ Stands(m, bk, k - 1)
      BY <1>3, <3>4
    <3>6. Outgrows(n, m)
      BY <1>8, <2>1, <3>1, <3>2 DEF Raised
    <3>7. n.active = TRUE /\ n.end = 0 /\ HasTier(n) /\ n.birth = m.birth
      BY <3>5, <3>6 DEF Stands, Outgrows
    <3>8. \E j \in 1..k : n.birth = bk[j].t
      <4>1. PICK j \in 1..(k - 1) : m.birth = bk[j].t
        BY <3>5 DEF Stands
      <4>2. j \in 1..k
        BY <1>5
      <4>3. QED BY <3>7, <4>1, <4>2
    <3>9. ASSUME NEW j \in 1..k, bk[j].t > n.birth PROVE ~BrokenBy(n, bk[j])
      <4>1. bk[j].close \in Int
        BY <1>4, <1>10
      <4>2. ~BrokenBy(m, bk[j])
        <5>1. CASE j \in 1..(k - 1)
          BY <3>5, <3>7, <3>9, <5>1 DEF Stands
        <5>2. CASE j = k
          BY <1>1, <3>4, <5>2
        <5>3. QED BY <1>10, <5>1, <5>2
      <4>3. QED BY <3>5, <3>6, <4>1, <4>2, WiderIsHarder
    <3>10. QED BY <3>7, <3>8, <3>9 DEF Stands
  <2>7. QED BY <2>5, <2>6
<1>12. ASSUME NEW d \in ds PROVE d \in MarkSet /\ Fell(d)
  <2>1. CASE d \in st.done
    BY <1>2, <2>1 DEF Sound
  <2>2. CASE d \in Fallen(ms, b)
    <3>1. PICK m \in ToSet(ms) : d = Dead(m, b)
      BY <2>2 DEF Fallen
    <3>2. m \in MarkSet /\ Stands(m, bk, k - 1)
      BY <1>3, <3>1
    <3>3. d \in MarkSet /\ d.active = FALSE /\ d.end = t /\ d.birth = m.birth
      BY <1>1, <1>5, <3>1, <3>2, DeadMark
    <3>4. PICK j \in 1..(k - 1) : m.birth = bk[j].t
      BY <3>2 DEF Stands
    <3>5. j \in 1..k
      BY <1>5
    <3>6. m.birth <= t
      BY <1>10, <3>4, <3>5
    <3>7. QED BY <3>3, <3>6 DEF Fell
  <2>3. QED BY <1>1, <2>1, <2>2
<1>13. AbsorbBucket(st, bk, k) = [active |-> ns, done |-> ds]
  BY <1>1, AbsorbedBucket
<1>14. PICK z : z = [active |-> ns, done |-> ds]
  OBVIOUS
<1>15. z.active = ns /\ z.done = ds
  BY <1>14
<1>16. z \in StateSet
  BY <1>9, <1>12, <1>14 DEF StateSet
<1>17. Sound(z, bk, k)
  BY <1>11, <1>12, <1>15, <1>16 DEF Sound
<1>18. QED BY <1>13, <1>14, <1>17

-----------------------------------------------------------------------------
(* The absorption of a history. *)

LEMMA AbsorbingHasShape ==
  ASSUME NEW bk, WellFormed(bk), NEW k \in 1..Len(bk), NEW st \in StateSet
  PROVE  AbsorbBucket(st, bk, k) \in StateSet
<1>1. PICK b, ms, ls, cs, t, ns, ds :
        /\ b = bk[k] /\ ms = st.active /\ ls = Living(ms, b) /\ cs = NewClusters(bk, k) /\ t = b.t
        /\ ns = Met(ls, cs, t) /\ ds = st.done \cup Fallen(ms, b)
  OBVIOUS
<1>2. ms \in Seq(MarkSet) /\ st.done \in SUBSET MarkSet /\ ToSet(ms) \subseteq MarkSet
  BY <1>1 DEF StateSet, ToSet
<1>3. t \in Nat /\ b.t \in Nat
  BY <1>1, BucketTimes
<1>4. ls \in Seq(MarkSet)
  BY <1>1, <1>2, LivingIsUnbroken
<1>5. cs \in Seq(ClusterSet)
  BY <1>1, NewClustersHaveShape
<1>6. Raised(ls, ns, t)
  BY <1>1, <1>3, <1>4, <1>5, MetRaises
<1>7. ns \in Seq(MarkSet)
  BY <1>6 DEF Raised
<1>8. ASSUME NEW d \in Fallen(ms, b) PROVE d \in MarkSet
  <2>1. PICK m \in ToSet(ms) : d = Dead(m, b)
    BY <1>8 DEF Fallen
  <2>2. m \in MarkSet
    BY <1>2
  <2>3. QED BY <1>3, <2>1, <2>2, DeadMark
<1>9. ds \in SUBSET MarkSet
  BY <1>1, <1>2, <1>8
<1>10. AbsorbBucket(st, bk, k) = [active |-> ns, done |-> ds]
  BY <1>1, AbsorbedBucket
<1>11. [active |-> ns, done |-> ds] \in StateSet
  BY <1>7, <1>9 DEF StateSet
<1>12. QED BY <1>10, <1>11

NoMarks == [active |-> <<>>, done |-> {}]
ScanState(bk) ==
    FoldLeft(LAMBDA s, k : AbsorbBucket(s, bk, k), [active |-> <<>>, done |-> {}],
             [k \in 1..Len(bk) |-> k])
SolvesScan(it, bk, ks) ==
    it = [s \in SUBSET (1..Len(bk)) |->
            IF s = {} THEN NoMarks ELSE AbsorbBucket(it[s \ {Max(s)}], bk, ks[Max(s)])]
ScanOp(bk) == [k \in 1..Len(bk) |-> [y \in StateSet |-> AbsorbBucket(y, bk, k)]]

(* A scan is a walk over the buckets.                                      *)
LEMMA ScanWalks ==
  ASSUME NEW bk, WellFormed(bk)
  PROVE  \E h : Walk(h, Len(bk), StateSet, NoMarks, ScanOp(bk)) /\ ScanState(bk) = h[Len(bk)]
<1>1. PICK n, D, op, ks : n = Len(bk) /\ D = StateSet /\ op = ScanOp(bk) /\ ks = [k \in 1..n |-> k]
  OBVIOUS
<1>2. n \in Nat /\ DOMAIN bk = 1..n /\ DOMAIN ks = 1..n /\ \A k \in 1..n : ks[k] = k
  BY <1>1, BucketTimes
<1>3. NoMarks \in D
  BY <1>1 DEF NoMarks, StateSet
<1>4. \A y \in D, i \in 1..n : op[i][y] = AbsorbBucket(y, bk, i)
  BY <1>1 DEF ScanOp
<1>5. \A y \in D, i \in 1..n : AbsorbBucket(y, bk, i) \in D
  BY <1>1, AbsorbingHasShape
<1>6. Closed(op, 1..n, D)
  BY <1>4, <1>5 DEF Closed
<1>7. PICK f : IndexFolds(f, n, D, NoMarks, op)
  BY <1>2, <1>3, <1>6, IndexFold
<1>8. /\ f \in [SUBSET (1..n) -> D]
      /\ f = [s \in SUBSET (1..n) |-> IF s = {} THEN NoMarks ELSE op[Max(s)][f[s \ {Max(s)}]]]
  BY <1>7 DEF IndexFolds
<1>9. \A s \in SUBSET (1..n) : s # {} => Max(s) \in 1..n /\ ks[Max(s)] = Max(s)
  BY <1>2, GreatestOf
<1>10. SolvesScan(f, bk, ks)
  <2>1. ASSUME NEW s \in SUBSET (1..n), s # {}
        PROVE  op[Max(s)][f[s \ {Max(s)}]] = AbsorbBucket(f[s \ {Max(s)}], bk, ks[Max(s)])
    <3>1. f[s \ {Max(s)}] \in D
      BY <1>8
    <3>2. Max(s) \in 1..n /\ ks[Max(s)] = Max(s)
      BY <1>9, <2>1
    <3>3. op[Max(s)][f[s \ {Max(s)}]] = AbsorbBucket(f[s \ {Max(s)}], bk, Max(s))
      BY <1>4, <3>1, <3>2
    <3>4. QED BY <3>2, <3>3
  <2>2. f = [s \in SUBSET (1..n) |-> IF s = {} THEN NoMarks
                                      ELSE AbsorbBucket(f[s \ {Max(s)}], bk, ks[Max(s)])]
    BY <1>8, <2>1
  <2>3. QED BY <1>1, <2>2 DEF SolvesScan
<1>11. PICK g : g = CHOOSE it : SolvesScan(it, bk, ks)
  OBVIOUS
<1>12. ScanState(bk) = g[1..n]
  <2>1. ScanState(bk) = FoldLeft(LAMBDA s, k : AbsorbBucket(s, bk, k), NoMarks, ks)
    BY <1>1 DEF ScanState, NoMarks
  <2>2. QED BY <1>1, <1>2, <1>11, <2>1 DEF SolvesScan, FoldLeft, MapThenFoldSet
<1>13. SolvesScan(g, bk, ks)
  BY <1>10, <1>11
<1>14. g = [s \in SUBSET (1..n) |-> IF s = {} THEN NoMarks
                                     ELSE AbsorbBucket(g[s \ {Max(s)}], bk, ks[Max(s)])]
  BY <1>1, <1>13 DEF SolvesScan
<1>15. FoldsLike(g, n, D, NoMarks, op)
  <2>1. g[{}] = NoMarks
    BY <1>14
  <2>2. ASSUME NEW s \in SUBSET (1..n), s # {}, g[s \ {Max(s)}] \in D
        PROVE  g[s] = op[Max(s)][g[s \ {Max(s)}]]
    <3>1. g[s] = AbsorbBucket(g[s \ {Max(s)}], bk, ks[Max(s)])
      BY <1>14, <2>2
    <3>2. Max(s) \in 1..n /\ ks[Max(s)] = Max(s)
      BY <1>9, <2>2
    <3>3. op[Max(s)][g[s \ {Max(s)}]] = AbsorbBucket(g[s \ {Max(s)}], bk, Max(s))
      BY <1>4, <2>2, <3>2
    <3>4. QED BY <3>1, <3>2, <3>3
  <2>3. QED BY <2>1, <2>2 DEF FoldsLike
<1>16. \E h : Walk(h, n, D, NoMarks, op) /\ g[1..n] = h[n]
  BY <1>2, <1>3, <1>7, <1>15, WalkEnds
<1>17. QED BY <1>1, <1>12, <1>16

LEMMA ScanIsSound ==
  ASSUME NEW bk, WellFormed(bk)
  PROVE  Sound(ScanState(bk), bk, Len(bk))
<1>1. PICK n, D, op : n = Len(bk) /\ D = StateSet /\ op = ScanOp(bk)
  OBVIOUS
<1>2. n \in Nat
  BY <1>1, BucketTimes
<1>3. PICK h : Walk(h, n, D, NoMarks, op) /\ ScanState(bk) = h[n]
  BY <1>1, ScanWalks
<1>4. h \in [0..n -> D] /\ h[0] = NoMarks /\ \A k \in 1..n : h[k] = op[k][h[k - 1]]
  BY <1>3 DEF Walk
<1>5. PICK R : R = {k \in Nat : k <= n => Sound(h[k], bk, k)}
  OBVIOUS
<1>6. 0 \in R
  <2>1. NoMarks.active = <<>> /\ NoMarks.done = {} /\ NoMarks \in StateSet
    BY DEF NoMarks, StateSet
  <2>2. ToSet(NoMarks.active) = {}
    BY <2>1 DEF ToSet
  <2>3. Sound(NoMarks, bk, 0)
    BY <2>1, <2>2 DEF Sound
  <2>4. QED BY <1>4, <1>5, <2>3
<1>7. ASSUME NEW k \in Nat, k \in R PROVE k + 1 \in R
  <2>1. SUFFICES ASSUME k + 1 <= n PROVE Sound(h[k + 1], bk, k + 1)
    BY <1>5
  <2>2. k + 1 \in 1..n /\ k \in 0..n /\ (k + 1) - 1 = k /\ k <= n
    BY <1>2, <2>1
  <2>3. h[k] \in StateSet /\ h[k + 1] = op[k + 1][h[k]]
    BY <1>1, <1>4, <2>2
  <2>4. h[k + 1] = AbsorbBucket(h[k], bk, k + 1)
    BY <1>1, <2>2, <2>3 DEF ScanOp
  <2>5. Sound(h[k], bk, k)
    BY <1>5, <1>7, <2>2
  <2>6. PICK j, st : j = k + 1 /\ st = h[k]
    OBVIOUS
  <2>7. j \in 1..Len(bk) /\ Sound(st, bk, j - 1)
    BY <1>1, <2>2, <2>5, <2>6
  <2>8. Sound(AbsorbBucket(st, bk, j), bk, j)
    BY <2>7, AbsorbingIsSound
  <2>9. QED BY <2>4, <2>6, <2>8
<1>8. Nat \subseteq R
  BY <1>6, <1>7, EveryNatural
<1>9. Sound(h[n], bk, n)
  BY <1>2, <1>5, <1>8
<1>10. QED BY <1>1, <1>3, <1>9

LEMMA MarksOfScan ==
  ASSUME NEW bk
  PROVE  CalcAbsorption(bk) = {m \in ScanState(bk).done \cup ToSet(ScanState(bk).active) : m.usd >= 2 * Tiers[1]}
BY DEF CalcAbsorption, ScanState

LEMMA MarksAreSound ==
  ASSUME NEW bk, WellFormed(bk), NEW m \in CalcAbsorption(bk)
  PROVE  /\ m.plo <= m.price /\ m.price <= m.phi /\ (m.end >= m.birth <=> ~m.active)
         /\ m.active => \A k \in DOMAIN bk : bk[k].t > m.birth => ~BrokenBy(m, bk[k])
<1>1. PICK st, n : st = ScanState(bk) /\ n = Len(bk)
  OBVIOUS
<1>2. Sound(st, bk, n)
  BY <1>1, ScanIsSound
<1>3. m \in st.done \/ m \in ToSet(st.active)
  BY <1>1, MarksOfScan
<1>4. st.active \in Seq(MarkSet) /\ st.done \in SUBSET MarkSet
  BY <1>2 DEF Sound, StateSet
<1>5. m \in MarkSet
  BY <1>3, <1>4 DEF ToSet
<1>6. m.plo <= m.price /\ m.price <= m.phi /\ m.birth \in Nat
  BY <1>5, MarkFields
<1>7. CASE m \in st.done
  <2>1. m.active = FALSE /\ m.end >= m.birth
    BY <1>2, <1>7 DEF Sound, Fell
  <2>2. QED BY <1>6, <2>1
<1>8. CASE m \in ToSet(st.active)
  <2>1. Stands(m, bk, n)
    BY <1>2, <1>8 DEF Sound
  <2>2. DOMAIN bk = 1..n /\ \A j \in 1..n : bk[j].t \in Nat /\ bk[j].t >= 1
    BY <1>1, BucketTimes
  <2>3. PICK j \in 1..n : m.birth = bk[j].t
    BY <2>1 DEF Stands
  <2>4. m.birth >= 1 /\ m.end = 0 /\ m.active = TRUE
    BY <2>1, <2>2, <2>3 DEF Stands
  <2>5. ~(m.end >= m.birth)
    BY <1>6, <2>4
  <2>6. \A k \in DOMAIN bk : bk[k].t > m.birth => ~BrokenBy(m, bk[k])
    BY <2>1, <2>2 DEF Stands
  <2>7. QED BY <1>6, <2>4, <2>5, <2>6
<1>9. QED BY <1>3, <1>7, <1>8

-----------------------------------------------------------------------------
(* What a scan shows follows from its buckets. *)

LEMMA ReadingsHaveShape == ScanIInv => ReadingsTypeOK
<1> SUFFICES ASSUME ScanIInv PROVE ReadingsTypeOK
  OBVIOUS
<1>1. PICK bk : bk = history
  OBVIOUS
<1>2. WellFormed(bk)
  BY <1>1 DEF ScanIInv
<1>3. Len(history) = Min({total, Cap})
  <2>1. PICK n, c : n = total /\ c = Cap
    OBVIOUS
  <2>2. n \in Nat /\ c \in Nat /\ Len(history) = IF n <= c THEN n ELSE c
    BY <2>1, CapIs DEF ScanIInv
  <2>3. Min({n, c}) = IF n <= c THEN n ELSE c
    BY <2>2, OfTwo
  <2>4. QED BY <2>1, <2>2, <2>3
<1>4. \A ob \in CalcQuantObs(bk) : /\ ob.bottom <= ob.top /\ ob.start <= ob.confirm
                                  /\ (ob.end > ob.confirm <=> ~ob.active)
  BY <1>2, BlocksFollowBodies
<1>5. \A m \in CalcAbsorption(bk) : m.plo <= m.price /\ m.price <= m.phi /\ (m.end >= m.birth <=> ~m.active)
  BY <1>2, MarksAreSound
<1>6. Obs = CalcQuantObs(bk) /\ Marks = CalcAbsorption(bk)
  BY <1>1 DEF Obs, Marks
<1>7. QED BY <1>3, <1>4, <1>5, <1>6 DEF ReadingsTypeOK

LEMMA MarksHold == ScanIInv => StandingMarksAreUnbroken
<1> SUFFICES ASSUME ScanIInv, NEW m \in Marks, m.active, NEW k \in DOMAIN history,
                    history[k].t > m.birth
             PROVE  ~BrokenBy(m, history[k])
  BY DEF StandingMarksAreUnbroken
<1>1. PICK bk : bk = history
  OBVIOUS
<1>2. WellFormed(bk) /\ m \in CalcAbsorption(bk) /\ k \in DOMAIN bk /\ bk[k].t > m.birth
  BY <1>1 DEF ScanIInv, Marks
<1>3. ~BrokenBy(m, bk[k])
  BY <1>2, MarksAreSound
<1>4. QED BY <1>1, <1>3

(* The buckets stay in the order of their start times, numbered up to the  *)
(* last one closed.                                                        *)
THEOREM ScansKeepTheirBuckets == AnalyticsSpec => []ScanIInv
<1>1. AnalyticsInit => ScanIInv
  BY InitScanIInv
<1>2. ScanIInv /\ [AnalyticsNext]_analyticsVars => ScanIInv'
  BY NextScanIInv
<1>3. QED BY <1>1, <1>2, PTL DEF AnalyticsSpec

(* In every history the band of a bucket holds the wall of its POC, an     *)
(* active block was never closed through and lies where the deepest body   *)
(* left it, and no close since its birth lies beyond a standing mark       *)
(* (calculate_dynamic_band, calc_quant_obs and calc_absorption).           *)
THEOREM LevelsHold == AnalyticsSpec => []LevelsFollowTheirBuckets
<1>1. ScanIInv => LevelsFollowTheirBuckets
  <2>1. ScanIInv => ReadingsTypeOK /\ BandHoldsTheWall
    BY ReadingsHaveShape, BandsHold
  <2>2. ScanIInv => ErosionIsTheDeepestBody /\ StandingMarksAreUnbroken
    BY ErosionHolds, MarksHold
  <2>3. QED BY <2>1, <2>2 DEF LevelsFollowTheirBuckets
<1>2. QED BY <1>1, ScansKeepTheirBuckets, PTL

-----------------------------------------------------------------------------
(* The marks of two scans in a row. *)

LEMMA TierIsMonotone ==
  ASSUME NEW u \in Int, NEW v \in Int, u <= v
  PROVE  Tier(u) <= Tier(v)
<1>1. PICK t2, t3 : t2 = Tiers[2] /\ t3 = Tiers[3]
  OBVIOUS
<1>2. t2 \in Nat /\ t3 \in Nat /\ t2 <= t3
  BY <1>1, OrderBlocksAssumption
<1>3. QED BY <1>1, <1>2 DEF Tier

(* The window that ends with a bucket does not depend on what comes after. *)
LEMMA SameAbsorption ==
  ASSUME NEW h, WellFormed(h), NEW g, WellFormed(g), Len(h) <= Len(g),
         \A j \in 1..Len(h) : g[j] = h[j], NEW k \in 1..Len(h), NEW st
  PROVE  AbsorbBucket(st, g, k) = AbsorbBucket(st, h, k)
<1>1. PICK n, l : n = Len(h) /\ l = Len(g)
  OBVIOUS
<1>2. h \in Seq(ToSet(h)) /\ g \in Seq(ToSet(g)) /\ n \in Nat /\ l \in Nat /\ n <= l
  BY <1>1 DEF WellFormed
<1>3. g[k] = h[k]
  OBVIOUS
<1>4. NewClusters(g, k) = NewClusters(h, k)
  <2>1. CASE k < Window
    BY <2>1 DEF NewClusters
  <2>2. CASE ~(k < Window)
    <3>1. PICK i : i = k - Window + 1
      OBVIOUS
    <3>2. i \in Nat /\ i >= 1 /\ i <= k /\ k \in Nat /\ k <= n
      BY <1>1, <1>2, <2>2, <3>1, OrderBlockConstants
    <3>3. SubSeq(g, i, k) = [j \in 1..(k - i + 1) |-> g[i + j - 1]]
      BY <1>1, <1>2, <3>2
    <3>4. SubSeq(h, i, k) = [j \in 1..(k - i + 1) |-> h[i + j - 1]]
      BY <1>1, <1>2, <3>2
    <3>5. \A j \in 1..(k - i + 1) : i + j - 1 \in 1..n
      BY <1>2, <3>2
    <3>6. SubSeq(g, i, k) = SubSeq(h, i, k)
      BY <1>1, <3>3, <3>4, <3>5
    <3>7. QED BY <2>2, <3>1, <3>6 DEF NewClusters, LastWindow
  <2>3. QED BY <2>1, <2>2
<1>5. QED BY <1>3, <1>4, AbsorbedBucket

(* A scan of one more bucket continues the scan before it.                 *)
LEMMA ScanContinues ==
  ASSUME NEW h, WellFormed(h), NEW g, WellFormed(g), Len(g) = Len(h) + 1,
         \A j \in 1..Len(h) : g[j] = h[j]
  PROVE  ScanState(g) = AbsorbBucket(ScanState(h), g, Len(h) + 1)
<1>1. PICK n, D, oh, og : n = Len(h) /\ D = StateSet /\ oh = ScanOp(h) /\ og = ScanOp(g)
  OBVIOUS
<1>2. n \in Nat /\ Len(g) = n + 1
  BY <1>1, BucketTimes
<1>3. PICK v : Walk(v, n, D, NoMarks, oh) /\ ScanState(h) = v[n]
  BY <1>1, ScanWalks
<1>4. PICK w : Walk(w, n + 1, D, NoMarks, og) /\ ScanState(g) = w[n + 1]
  BY <1>1, <1>2, ScanWalks
<1>5. v \in [0..n -> D] /\ v[0] = NoMarks /\ \A k \in 1..n : v[k] = oh[k][v[k - 1]]
  BY <1>3 DEF Walk
<1>6. w \in [0..(n + 1) -> D] /\ w[0] = NoMarks /\ \A k \in 1..(n + 1) : w[k] = og[k][w[k - 1]]
  BY <1>4 DEF Walk
<1>7. \A y \in D, k \in 1..n : oh[k][y] = AbsorbBucket(y, h, k)
  BY <1>1 DEF ScanOp
<1>8. \A y \in D, k \in 1..(n + 1) : og[k][y] = AbsorbBucket(y, g, k)
  BY <1>1, <1>2 DEF ScanOp
<1>9. \A y \in D, k \in 1..n : AbsorbBucket(y, g, k) = AbsorbBucket(y, h, k)
  <2>1. SUFFICES ASSUME NEW y \in D, NEW k \in 1..n PROVE AbsorbBucket(y, g, k) = AbsorbBucket(y, h, k)
    OBVIOUS
  <2>2. Len(h) <= Len(g) /\ k \in 1..Len(h)
    BY <1>1, <1>2
  <2>3. QED BY <2>2, SameAbsorption
<1>10. PICK R : R = {k \in Nat : k <= n => w[k] = v[k]}
  OBVIOUS
<1>11. 0 \in R
  BY <1>5, <1>6, <1>10
<1>12. ASSUME NEW k \in Nat, k \in R PROVE k + 1 \in R
  <2>1. SUFFICES ASSUME k + 1 <= n PROVE w[k + 1] = v[k + 1]
    BY <1>10
  <2>2. k + 1 \in 1..n /\ k + 1 \in 1..(n + 1) /\ k \in 0..n /\ (k + 1) - 1 = k /\ k <= n
    BY <1>2, <2>1
  <2>3. w[k] = v[k] /\ v[k] \in D
    BY <1>5, <1>10, <1>12, <2>2
  <2>4. w[k + 1] = og[k + 1][v[k]] /\ v[k + 1] = oh[k + 1][v[k]]
    BY <1>5, <1>6, <2>2, <2>3
  <2>5. QED BY <1>7, <1>8, <1>9, <2>2, <2>3, <2>4
<1>13. Nat \subseteq R
  BY <1>11, <1>12, EveryNatural
<1>14. w[n] = v[n] /\ v[n] \in D
  <2>1. n \in 0..n /\ n <= n /\ n \in R
    BY <1>2, <1>13
  <2>2. QED BY <1>5, <1>10, <2>1
<1>15. w[n + 1] = AbsorbBucket(v[n], g, n + 1)
  <2>1. n + 1 \in 1..(n + 1) /\ (n + 1) - 1 = n
    BY <1>2
  <2>2. w[n + 1] = og[n + 1][v[n]]
    BY <1>6, <1>14, <2>1
  <2>3. QED BY <1>8, <1>14, <2>1, <2>2
<1>16. QED BY <1>1, <1>3, <1>4, <1>15

(* What became of a mark in the scan with one more bucket b.               *)
Continues(new, m, b) ==
    /\ new.id = m.id
    /\ IF m.active
       THEN /\ new.plo <= m.plo /\ m.phi <= new.phi
            /\ new.usd >= m.usd /\ new.tier >= m.tier
            /\ new.active \/ BrokenBy(m, b)
       ELSE new = m

LEMMA MarkContinues ==
  ASSUME NEW h, WellFormed(h), NEW g, WellFormed(g), Len(g) = Len(h) + 1,
         \A j \in 1..Len(h) : g[j] = h[j], NEW m \in CalcAbsorption(h)
  PROVE  \E new \in CalcAbsorption(g) : Continues(new, m, g[Len(h) + 1])
<1>1. PICK n, b, st, ms, ls, cs, t, ns, ds :
        /\ n = Len(h) + 1 /\ b = g[n] /\ st = ScanState(h) /\ ms = st.active
        /\ ls = Living(ms, b) /\ cs = NewClusters(g, n) /\ t = b.t
        /\ ns = Met(ls, cs, t) /\ ds = st.done \cup Fallen(ms, b)
  OBVIOUS
<1>2. ScanState(g) = [active |-> ns, done |-> ds]
  <2>1. ScanState(g) = AbsorbBucket(st, g, n)
    BY <1>1, ScanContinues
  <2>2. QED BY <1>1, <2>1, AbsorbedBucket
<1>3. Sound(st, h, Len(h))
  BY <1>1, ScanIsSound
<1>4. ms \in Seq(MarkSet) /\ st.done \in SUBSET MarkSet /\ ToSet(ms) \subseteq MarkSet
  BY <1>1, <1>3 DEF Sound, StateSet, ToSet
<1>5. n \in 1..Len(g) /\ t \in Nat /\ b.t \in Nat
  <2>1. Len(h) \in Nat
    BY BucketTimes
  <2>2. n \in 1..Len(g)
    BY <1>1, <2>1
  <2>3. g[n].t \in Nat
    BY <2>2, BucketTimes
  <2>4. QED BY <1>1, <2>2, <2>3
<1>6. ls \in Seq(MarkSet) /\ ToSet(ls) = {x \in ToSet(ms) : ~BrokenBy(x, b)}
  BY <1>1, <1>4, LivingIsUnbroken
<1>7. cs \in Seq(ClusterSet)
  BY <1>1, <1>5, NewClustersHaveShape
<1>8. Raised(ls, ns, t)
  BY <1>1, <1>5, <1>6, <1>7, MetRaises
<1>9. \A x : x \in CalcAbsorption(g) <=> (x \in ds \/ x \in ToSet(ns)) /\ x.usd >= 2 * Tiers[1]
  BY <1>2, MarksOfScan
<1>10. (m \in st.done \/ m \in ToSet(ms)) /\ m.usd >= 2 * Tiers[1]
  BY <1>1, MarksOfScan
<1>11. m \in MarkSet
  BY <1>4, <1>10
<1>12. /\ m.plo \in Int /\ m.phi \in Int /\ m.usd \in Int /\ m.tier \in 1..3 /\ m.active \in BOOLEAN
  BY <1>11, MarkFields
<1>13. CASE m \in st.done
  <2>1. ~m.active
    BY <1>3, <1>13 DEF Sound, Fell
  <2>2. m \in CalcAbsorption(g)
    BY <1>1, <1>9, <1>10, <1>13
  <2>3. Continues(m, m, b)
    BY <2>1 DEF Continues
  <2>4. QED BY <1>1, <2>2, <2>3
<1>14. CASE m \in ToSet(ms) /\ BrokenBy(m, b)
  <2>1. PICK d : d = Dead(m, b)
    OBVIOUS
  <2>2. d.id = m.id /\ d.plo = m.plo /\ d.phi = m.phi /\ d.usd = m.usd /\ d.tier = m.tier
    BY <1>5, <1>11, <2>1, DeadMark
  <2>3. d \in Fallen(ms, b)
    BY <1>14, <2>1 DEF Fallen
  <2>4. d \in CalcAbsorption(g)
    BY <1>1, <1>9, <1>10, <2>2, <2>3
  <2>5. m.active
    BY <1>1, <1>3, <1>14 DEF Sound, Stands
  <2>6. d.plo <= m.plo /\ m.phi <= d.phi /\ d.usd >= m.usd /\ d.tier >= m.tier
    BY <1>12, <2>2
  <2>7. Continues(d, m, b)
    BY <1>14, <2>2, <2>5, <2>6 DEF Continues
  <2>8. QED BY <1>1, <2>4, <2>7
<1>15. CASE m \in ToSet(ms) /\ ~BrokenBy(m, b)
  <2>1. m \in ToSet(ls)
    BY <1>6, <1>15
  <2>2. PICK i \in 1..Len(ls) : m = ls[i]
    BY <1>6, <2>1 DEF ToSet
  <2>3. PICK z : z = ns[i]
    OBVIOUS
  <2>4. Outgrows(z, m)
    BY <1>8, <2>2, <2>3 DEF Raised
  <2>5. z \in ToSet(ns)
    <3>1. ns \in Seq(MarkSet) /\ Len(ls) <= Len(ns)
      BY <1>8 DEF Raised
    <3>2. Len(ls) \in Nat /\ Len(ns) \in Nat
      BY <1>6, <3>1
    <3>3. i \in 1..Len(ns)
      BY <2>2, <3>1, <3>2
    <3>4. i \in DOMAIN ns
      BY <3>1, <3>3
    <3>5. QED BY <2>3, <3>4 DEF ToSet
  <2>6. m.active = TRUE /\ HasTier(m)
    BY <1>1, <1>3, <1>15 DEF Sound, Stands
  <2>7. z \in MarkSet /\ z.usd \in Int /\ m.usd <= z.usd /\ HasTier(z) /\ z.active = TRUE
    BY <2>4, <2>6, MarkFields DEF Outgrows
  <2>8. z.tier >= m.tier
    <3>1. Tier(m.usd) <= Tier(z.usd)
      BY <1>12, <2>7, TierIsMonotone
    <3>2. Tier(m.usd) \in 1..3 /\ Tier(z.usd) \in 1..3
      BY TierIs
    <3>3. QED BY <2>6, <2>7, <3>1, <3>2 DEF HasTier
  <2>9. z.usd >= 2 * Tiers[1]
    <3>1. PICK t1 : t1 = Tiers[1]
      OBVIOUS
    <3>2. t1 \in Nat
      BY <3>1, OrderBlocksAssumption
    <3>3. QED BY <1>10, <1>12, <2>7, <3>1, <3>2
  <2>10. z \in CalcAbsorption(g)
    BY <1>9, <2>5, <2>9
  <2>11. z.usd >= m.usd
    BY <1>12, <2>7
  <2>12. Continues(z, m, b)
    BY <2>4, <2>6, <2>7, <2>8, <2>11 DEF Continues, Outgrows
  <2>13. QED BY <1>1, <2>10, <2>12
<1>16. QED BY <1>10, <1>13, <1>14, <1>15

(* A step of the history appends a bucket, and may trim the oldest.        *)
Appended(h, a, g) ==
    /\ WellFormed(h) /\ WellFormed(g) /\ WellFormed(a)
    /\ Len(a) = Len(h) + 1 /\ \A k \in 1..Len(h) : a[k] = h[k]
    /\ g = a \/ g = Tail(a)

LEMMA StepAppends ==
  ASSUME ScanIInv, ScanIInv', AnalyticsNext
  PROVE  \E a : Appended(history, a, history')
<1>1. PICK h, g : h = history /\ g = history'
  OBVIOUS
<1>2. WellFormed(h) /\ WellFormed(g)
  BY <1>1 DEF ScanIInv
<1>3. PICK shape \in Families[family] : BucketCloses(shape)
  BY DEF AnalyticsNext
<1>4. PICK b : /\ IsBucket(b) /\ b.n = total + 1 /\ b.t >= 1
               /\ \A k \in DOMAIN h : h[k].t <= b.t
               /\ g = IF Len(h) + 1 > Cap THEN Tail(Append(h, b)) ELSE Append(h, b)
  BY <1>1, <1>3, Closing
<1>5. PICK a : a = Append(h, b)
  OBVIOUS
<1>6. WellFormed(a) /\ Len(a) = Len(h) + 1 /\ \A k \in 1..Len(h) : a[k] = h[k]
  BY <1>2, <1>4, <1>5, AppendWellFormed
<1>7. g = a \/ g = Tail(a)
  BY <1>4, <1>5
<1>8. Appended(h, a, g)
  BY <1>2, <1>6, <1>7 DEF Appended
<1>9. QED BY <1>1, <1>8

LEMMA NextMarksGrow ==
  ASSUME ScanIInv, ScanIInv', AnalyticsNext, Len(history') > Len(history), NEW m \in Marks
  PROVE  \E new \in CalcAbsorption(history') : Continues(new, m, history'[Len(history')])
<1>1. PICK h, g : h = history /\ g = history'
  OBVIOUS
<1>2. PICK a : Appended(h, a, g)
  BY <1>1, StepAppends
<1>3. /\ WellFormed(h) /\ WellFormed(a) /\ WellFormed(g) /\ Len(a) = Len(h) + 1
      /\ \A k \in 1..Len(h) : a[k] = h[k]
      /\ g = a \/ g = Tail(a)
  BY <1>2 DEF Appended
<1>4. Len(h) \in Nat /\ Len(g) > Len(h) /\ m \in CalcAbsorption(h)
  BY <1>1, <1>3, BucketTimes DEF Marks
<1>5. g = a
  <2>1. CASE g = Tail(a)
    <3>1. Len(<<>>) = 0
      OBVIOUS
    <3>2. a # <<>>
      BY <1>3, <1>4, <3>1
    <3>3. Len(Tail(a)) = Len(a) - 1
      BY <1>3, <3>2, TailWellFormed
    <3>4. QED BY <1>3, <1>4, <2>1, <3>3
  <2>2. QED BY <1>3, <2>1
<1>6. \E new \in CalcAbsorption(g) : Continues(new, m, g[Len(h) + 1])
  BY <1>3, <1>4, <1>5, MarkContinues
<1>7. Len(g) = Len(h) + 1
  BY <1>3, <1>5
<1>8. QED BY <1>1, <1>6, <1>7

-----------------------------------------------------------------------------
(* Sums do not depend on the order, nor on the numbering. *)

(* An element of a set counts once, whichever is taken first.              *)
TakesAny(f, w, s) == \A x \in s : f[s] = w[x] + f[s \ {x}]

LEMMA SumTakesAny ==
  ASSUME NEW S, IsFiniteSet(S), NEW w, \A x \in S : w[x] \in Int, NEW f, Sums(f, w, S),
         NEW s \in SUBSET S
  PROVE  TakesAny(f, w, s)
<1>1. f \in [SUBSET S -> Int] /\ Adds(f, w, S)
  BY SumsAdd DEF Sums
<1>2. PICK T : T = {r \in SUBSET S : TakesAny(f, w, r)}
  OBVIOUS
<1>3. ASSUME NEW r \in SUBSET S, \A x \in r : r \ {x} \in T PROVE r \in T
  <2>1. SUFFICES ASSUME NEW x \in r PROVE f[r] = w[x] + f[r \ {x}]
    BY <1>2 DEF TakesAny
  <2>2. PICK c : c = CHOOSE y \in r : TRUE
    OBVIOUS
  <2>3. c \in r
    BY <2>1, <2>2
  <2>4. f[r] = w[c] + f[r \ {c}]
    BY <1>1, <2>1, <2>2 DEF Adds
  <2>5. CASE x = c
    BY <2>4, <2>5
  <2>6. CASE x # c
    <3>1. PICK q : q = (r \ {c}) \ {x}
      OBVIOUS
    <3>2. q = (r \ {x}) \ {c} /\ q \in SUBSET S
      BY <3>1
    <3>3. TakesAny(f, w, r \ {c}) /\ TakesAny(f, w, r \ {x})
      BY <1>2, <1>3, <2>3
    <3>4. f[r \ {c}] = w[x] + f[q]
      BY <2>6, <3>1, <3>3 DEF TakesAny
    <3>5. f[r \ {x}] = w[c] + f[q]
      BY <2>3, <2>6, <3>2, <3>3 DEF TakesAny
    <3>6. f[q] \in Int /\ w[c] \in Int /\ w[x] \in Int
      BY <1>1, <2>3, <3>2
    <3>7. PICK fq, wc, wx : fq = f[q] /\ wc = w[c] /\ wx = w[x]
      OBVIOUS
    <3>8. wc + (wx + fq) = wx + (wc + fq)
      BY <3>6, <3>7
    <3>9. QED BY <2>4, <3>4, <3>5, <3>7, <3>8
  <2>7. QED BY <2>5, <2>6
<1>4. Inductive(S, T)
  BY <1>3 DEF Inductive
<1>5. Covers(S, T)
  BY <1>4, EverySubset
<1>6. QED BY <1>2, <1>5 DEF Covers

LEMMA SumIs ==
  ASSUME NEW S, IsFiniteSet(S), NEW w, \A x \in S : w[x] \in Int, NEW f, Sums(f, w, S)
  PROVE  SumOver(w, S) = f[S]
<1>1. Adds(f, w, S)
  BY SumsAdd
<1>2. PICK g : g = CHOOSE it : Adds(it, w, S)
  OBVIOUS
<1>3. SumOver(w, S) = g[S]
  BY <1>2 DEF SumOver, MapThenSumSet, MapThenFoldSet, Adds
<1>4. Adds(g, w, S)
  BY <1>1, <1>2
<1>5. g[S] = f[S]
  BY <1>4, SumIsUnique
<1>6. QED BY <1>3, <1>5

Shifted(s, d) == {x + d : x \in s}

Renamed(s, ren) == {ren[x] : x \in s}
OneToOne(ren, S) == \A x, y \in S : ren[x] = ren[y] => x = y

(* The same numbers under other names have the same sum.                   *)
LEMMA SumRenames ==
  ASSUME NEW S, IsFiniteSet(S), NEW ren, OneToOne(ren, S),
         NEW v, \A x \in S : v[x] \in Int,
         NEW w, \A x \in S : w[ren[x]] = v[x]
  PROVE  SumOver(w, Renamed(S, ren)) = SumOver(v, S)
<1>1. PICK M : M = Renamed(S, ren)
  OBVIOUS
<1>2. M = {ren[x] : x \in S}
  BY <1>1 DEF Renamed
<1>3. IsFiniteSet(M)
  <2>1. PICK m : m = [x \in S |-> ren[x]]
    OBVIOUS
  <2>2. m \in Surjection(S, M)
    BY <1>2, <2>1 DEF Surjection
  <2>3. QED BY <2>2, FS_Surjection
<1>4. \A y \in M : w[y] \in Int
  BY <1>2
<1>5. PICK f : Sums(f, v, S)
  BY SumsExist
<1>6. PICK g : Sums(g, w, M)
  BY <1>3, <1>4, SumsExist
<1>7. f \in [SUBSET S -> Int] /\ Adds(f, v, S)
  BY <1>5, SumsAdd DEF Sums
<1>8. g \in [SUBSET M -> Int] /\ Adds(g, w, M)
  BY <1>4, <1>6, SumsAdd DEF Sums
<1>9. PICK T : T = {s \in SUBSET S : g[Renamed(s, ren)] = f[s]}
  OBVIOUS
<1>10. ASSUME NEW s \in SUBSET S, \A x \in s : s \ {x} \in T PROVE s \in T
  <2>1. CASE s = {}
    <3>1. Renamed(s, ren) = {}
      BY <2>1 DEF Renamed
    <3>2. g[{}] = 0 /\ f[{}] = 0
      BY <1>7, <1>8 DEF Adds
    <3>3. QED BY <1>9, <2>1, <3>1, <3>2
  <2>2. CASE s # {}
    <3>1. PICK x \in s : TRUE
      BY <2>2
    <3>2. PICK r, m : r = s \ {x} /\ m = Renamed(s, ren)
      OBVIOUS
    <3>3. x \in S /\ r \in SUBSET S
      BY <3>1, <3>2
    <3>4. m \in SUBSET M /\ ren[x] \in m
      BY <1>2, <3>1, <3>2 DEF Renamed
    <3>5. Renamed(r, ren) = m \ {ren[x]}
      <4>1. \A y \in s : ren[y] = ren[x] => y = x
        BY <3>3 DEF OneToOne
      <4>2. QED BY <3>2, <4>1 DEF Renamed
    <3>6. g[m] = w[ren[x]] + g[m \ {ren[x]}]
      <4>1. TakesAny(g, w, m)
        BY <1>3, <1>4, <1>6, <3>4, SumTakesAny
      <4>2. QED BY <3>4, <4>1 DEF TakesAny
    <3>7. f[s] = v[x] + f[r]
      <4>1. TakesAny(f, v, s)
        BY <1>5, SumTakesAny
      <4>2. QED BY <3>1, <3>2, <4>1 DEF TakesAny
    <3>8. g[Renamed(r, ren)] = f[r]
      BY <1>9, <1>10, <3>1, <3>2
    <3>9. g[m] = f[s]
      BY <3>3, <3>5, <3>6, <3>7, <3>8
    <3>10. QED BY <1>9, <3>2, <3>9
  <2>3. QED BY <2>1, <2>2
<1>11. Inductive(S, T)
  BY <1>10 DEF Inductive
<1>12. Covers(S, T)
  BY <1>11, EverySubset
<1>13. g[M] = f[S]
  BY <1>1, <1>9, <1>12 DEF Covers
<1>14. SumOver(w, M) = g[M] /\ SumOver(v, S) = f[S]
  BY <1>3, <1>4, <1>5, <1>6, SumIs
<1>15. QED BY <1>1, <1>13, <1>14

(* An element more.                                                        *)
LEMMA SumGrows ==
  ASSUME NEW S, IsFiniteSet(S), NEW w, \A x \in S : w[x] \in Int
  PROVE  /\ SumOver(w, {}) = 0
         /\ \A s \in SUBSET S : \A x \in s : SumOver(w, s) = w[x] + SumOver(w, s \ {x})
<1>1. PICK f : Sums(f, w, S)
  BY SumsExist
<1>2. ASSUME NEW s \in SUBSET S PROVE SumOver(w, s) = f[s]
  <2>1. IsFiniteSet(s) /\ \A x \in s : w[x] \in Int
    BY FS_Subset
  <2>2. PICK g : Sums(g, w, s)
    BY <2>1, SumsExist
  <2>3. SumOver(w, s) = g[s] /\ Adds(g, w, s)
    BY <2>1, <2>2, SumIs, SumsAdd
  <2>4. Adds(f, w, S) /\ f \in [SUBSET S -> Int]
    BY <1>1, SumsAdd DEF Sums
  <2>5. PICK h : h = [r \in SUBSET s |-> f[r]]
    OBVIOUS
  <2>6. Adds(h, w, s)
    <3>1. ASSUME NEW r \in SUBSET s
          PROVE  h[r] = IF r = {} THEN 0
                        ELSE w[CHOOSE x \in r : TRUE] + h[r \ {CHOOSE x \in r : TRUE}]
      <4>1. PICK c : c = CHOOSE x \in r : TRUE
        OBVIOUS
      <4>2. r \in SUBSET S /\ r \ {c} \in SUBSET s /\ h[r] = f[r] /\ h[r \ {c}] = f[r \ {c}]
        BY <2>5, <3>1
      <4>3. f[r] = IF r = {} THEN 0 ELSE w[c] + f[r \ {c}]
        BY <2>4, <4>1, <4>2 DEF Adds
      <4>4. QED BY <4>1, <4>2, <4>3
    <3>2. h = [r \in SUBSET s |-> h[r]]
      BY <2>5
    <3>3. QED BY <3>1, <3>2 DEF Adds
  <2>7. h[s] = g[s]
    BY <2>1, <2>2, <2>6, SumIsUnique
  <2>8. QED BY <2>3, <2>5, <2>7
<1>3. SumOver(w, {}) = 0
  <2>1. f[{}] = 0
    BY <1>1, SumsAdd DEF Adds
  <2>2. QED BY <1>2, <2>1
<1>4. ASSUME NEW s \in SUBSET S, NEW x \in s
      PROVE  SumOver(w, s) = w[x] + SumOver(w, s \ {x})
  <2>1. f[s] = w[x] + f[s \ {x}]
    <3>1. TakesAny(f, w, s)
      BY <1>1, SumTakesAny
    <3>2. QED BY <3>1 DEF TakesAny
  <2>2. s \ {x} \in SUBSET S
    OBVIOUS
  <2>3. QED BY <1>2, <2>1, <2>2
<1>5. QED BY <1>3, <1>4

LEMMA SumOfOne ==
  ASSUME NEW x, NEW w, w[x] \in Int
  PROVE  SumOver(w, {x}) = w[x]
<1>1. IsFiniteSet({x}) /\ x \in {x} /\ {x} \ {x} = {}
  BY FS_Singleton
<1>2. SumOver(w, {x}) = w[x] + SumOver(w, {x} \ {x}) /\ SumOver(w, {}) = 0
  BY <1>1, SumGrows
<1>3. QED BY <1>1, <1>2

AtMostTimes(v, c, w, s) == c * SumOver(v, s) <= SumOver(w, s)
AtLeastTimes(v, c, w, s) == SumOver(w, s) <= c * SumOver(v, s)

(* What bounds the terms bounds the sum.                                   *)
LEMMA SumAtLeast ==
  ASSUME NEW S, IsFiniteSet(S), NEW v, NEW w, \A x \in S : v[x] \in Int /\ w[x] \in Int,
         NEW c \in Int, \A x \in S : c * v[x] <= w[x]
  PROVE  c * SumOver(v, S) <= SumOver(w, S)
<1>1. PICK T : T = {s \in SUBSET S : AtMostTimes(v, c, w, s)}
  OBVIOUS
<1>2. ASSUME NEW s \in SUBSET S, \A x \in s : s \ {x} \in T PROVE s \in T
  <2>1. SumOver(v, {}) = 0 /\ SumOver(w, {}) = 0
    BY SumGrows
  <2>2. CASE s = {}
    BY <1>1, <2>1, <2>2 DEF AtMostTimes
  <2>3. CASE s # {}
    <3>1. PICK x \in s : TRUE
      BY <2>3
    <3>2. PICK r : r = s \ {x}
      OBVIOUS
    <3>3. SumOver(v, s) = v[x] + SumOver(v, r) /\ SumOver(w, s) = w[x] + SumOver(w, r)
      BY <3>1, <3>2, SumGrows
    <3>4. c * SumOver(v, r) <= SumOver(w, r)
      BY <1>1, <1>2, <3>1, <3>2 DEF AtMostTimes
    <3>5. SumOver(v, r) \in Int /\ SumOver(w, r) \in Int
      <4>1. IsFiniteSet(r) /\ \A y \in r : v[y] \in Int /\ w[y] \in Int
        BY <3>2, FS_Subset
      <4>2. QED BY <4>1, SumOfFunction
    <3>6. PICK p, q, a, b : p = v[x] /\ q = w[x] /\ a = SumOver(v, r) /\ b = SumOver(w, r)
      OBVIOUS
    <3>7. p \in Int /\ q \in Int /\ a \in Int /\ b \in Int /\ c * p <= q /\ c * a <= b
      BY <3>1, <3>4, <3>5, <3>6
    <3>8. c * (p + a) = c * p + c * a /\ c * p \in Int /\ c * a \in Int
      BY <3>7
    <3>9. c * (p + a) <= q + b
      BY <3>7, <3>8
    <3>10. QED BY <1>1, <3>3, <3>6, <3>9 DEF AtMostTimes
  <2>4. QED BY <2>2, <2>3
<1>3. Inductive(S, T)
  BY <1>2 DEF Inductive
<1>4. Covers(S, T)
  BY <1>3, EverySubset
<1>5. QED BY <1>1, <1>4 DEF Covers, AtMostTimes

LEMMA SumAtMost ==
  ASSUME NEW S, IsFiniteSet(S), NEW v, NEW w, \A x \in S : v[x] \in Int /\ w[x] \in Int,
         NEW c \in Int, \A x \in S : w[x] <= c * v[x]
  PROVE  SumOver(w, S) <= c * SumOver(v, S)
<1>1. PICK T : T = {s \in SUBSET S : AtLeastTimes(v, c, w, s)}
  OBVIOUS
<1>2. ASSUME NEW s \in SUBSET S, \A x \in s : s \ {x} \in T PROVE s \in T
  <2>1. SumOver(v, {}) = 0 /\ SumOver(w, {}) = 0
    BY SumGrows
  <2>2. CASE s = {}
    BY <1>1, <2>1, <2>2 DEF AtLeastTimes
  <2>3. CASE s # {}
    <3>1. PICK x \in s : TRUE
      BY <2>3
    <3>2. PICK r : r = s \ {x}
      OBVIOUS
    <3>3. SumOver(v, s) = v[x] + SumOver(v, r) /\ SumOver(w, s) = w[x] + SumOver(w, r)
      BY <3>1, <3>2, SumGrows
    <3>4. SumOver(w, r) <= c * SumOver(v, r)
      BY <1>1, <1>2, <3>1, <3>2 DEF AtLeastTimes
    <3>5. SumOver(v, r) \in Int /\ SumOver(w, r) \in Int
      <4>1. IsFiniteSet(r) /\ \A y \in r : v[y] \in Int /\ w[y] \in Int
        BY <3>2, FS_Subset
      <4>2. QED BY <4>1, SumOfFunction
    <3>6. PICK p, q, a, b : p = v[x] /\ q = w[x] /\ a = SumOver(v, r) /\ b = SumOver(w, r)
      OBVIOUS
    <3>7. p \in Int /\ q \in Int /\ a \in Int /\ b \in Int /\ q <= c * p /\ b <= c * a
      BY <3>1, <3>4, <3>5, <3>6
    <3>8. c * (p + a) = c * p + c * a /\ c * p \in Int /\ c * a \in Int
      BY <3>7
    <3>9. q + b <= c * (p + a)
      BY <3>7, <3>8
    <3>10. QED BY <1>1, <3>3, <3>6, <3>9 DEF AtLeastTimes
  <2>4. QED BY <2>2, <2>3
<1>3. Inductive(S, T)
  BY <1>2 DEF Inductive
<1>4. Covers(S, T)
  BY <1>3, EverySubset
<1>5. QED BY <1>1, <1>4 DEF Covers, AtLeastTimes

LEMMA SumSame ==
  ASSUME NEW S, IsFiniteSet(S), NEW v, NEW w, \A x \in S : v[x] \in Int /\ w[x] = v[x]
  PROVE  SumOver(w, S) = SumOver(v, S)
<1>1. \A x \in S : v[x] \in Int /\ w[x] \in Int /\ 1 * v[x] <= w[x] /\ w[x] <= 1 * v[x]
  OBVIOUS
<1>2. 1 * SumOver(v, S) <= SumOver(w, S) /\ SumOver(w, S) <= 1 * SumOver(v, S)
  BY <1>1, SumAtLeast, SumAtMost
<1>3. SumOver(v, S) \in Int /\ SumOver(w, S) \in Int
  BY <1>1, SumOfFunction
<1>4. QED BY <1>2, <1>3

LEMMA SumOfNaturals ==
  ASSUME NEW S, IsFiniteSet(S), NEW w, \A x \in S : w[x] \in Nat
  PROVE  /\ SumOver(w, S) \in Nat
         /\ \A x \in S : w[x] <= SumOver(w, S)
<1>1. ASSUME NEW s \in SUBSET S PROVE SumOver(w, s) \in Nat
  <2>1. IsFiniteSet(s) /\ \A x \in s : w[x] \in Int /\ 0 * w[x] <= w[x]
    BY FS_Subset
  <2>2. 0 * SumOver(w, s) <= SumOver(w, s)
    <3>1. \A x \in s : w[x] \in Int /\ w[x] \in Int
      BY <2>1
    <3>2. QED BY <2>1, <3>1, SumAtLeast
  <2>3. SumOver(w, s) \in Int
    BY <2>1, SumOfFunction
  <2>4. QED BY <2>2, <2>3
<1>2. ASSUME NEW x \in S PROVE w[x] <= SumOver(w, S)
  <2>1. SumOver(w, S) = w[x] + SumOver(w, S \ {x})
    BY SumGrows
  <2>2. SumOver(w, S \ {x}) \in Nat
    BY <1>1
  <2>3. QED BY <2>1, <2>2
<1>3. QED BY <1>1, <1>2

(* Zeros add nothing.                                                      *)
LEMMA SumOfSupport ==
  ASSUME NEW S, IsFiniteSet(S), NEW w, \A x \in S : w[x] \in Int,
         NEW R \in SUBSET S, \A x \in S \ R : w[x] = 0
  PROVE  SumOver(w, S) = SumOver(w, R)
<1>1. PICK T : T = {s \in SUBSET S : SumOver(w, s) = SumOver(w, s \cap R)}
  OBVIOUS
<1>2. ASSUME NEW s \in SUBSET S, \A x \in s : s \ {x} \in T PROVE s \in T
  <2>1. CASE s \subseteq R
    <3>1. s \cap R = s
      BY <2>1
    <3>2. QED BY <1>1, <3>1
  <2>2. CASE \E x \in s : x \notin R
    <3>1. PICK x \in s : x \notin R
      BY <2>2
    <3>2. w[x] = 0 /\ s \cap R = (s \ {x}) \cap R
      BY <3>1
    <3>3. SumOver(w, s) = w[x] + SumOver(w, s \ {x})
      BY <3>1, SumGrows
    <3>4. SumOver(w, s \ {x}) = SumOver(w, (s \ {x}) \cap R)
      BY <1>1, <1>2, <3>1
    <3>5. SumOver(w, s \ {x}) \in Int
      <4>1. IsFiniteSet(s \ {x}) /\ \A y \in s \ {x} : w[y] \in Int
        BY FS_Subset
      <4>2. QED BY <4>1, SumOfFunction
    <3>6. SumOver(w, s) = SumOver(w, s \cap R)
      <4>1. PICK a, r : a = SumOver(w, s) /\ r = SumOver(w, s \ {x})
        OBVIOUS
      <4>2. a = 0 + r /\ r \in Int
        BY <3>2, <3>3, <3>5, <4>1
      <4>3. a = r
        BY <4>2
      <4>4. QED BY <3>2, <3>4, <4>1, <4>3
    <3>7. QED BY <1>1, <3>6
  <2>3. QED BY <2>1, <2>2
<1>3. Inductive(S, T)
  BY <1>2 DEF Inductive
<1>4. Covers(S, T)
  BY <1>3, EverySubset
<1>5. S \cap R = R
  OBVIOUS
<1>6. QED BY <1>1, <1>4, <1>5 DEF Covers

(* So many ones.                                                           *)
LEMMA SumOfOnes ==
  ASSUME NEW S, IsFiniteSet(S), NEW w, \A x \in S : w[x] = 1
  PROVE  SumOver(w, S) = Cardinality(S)
<1>1. PICK T : T = {s \in SUBSET S : SumOver(w, s) = Cardinality(s)}
  OBVIOUS
<1>2. ASSUME NEW s \in SUBSET S, \A x \in s : s \ {x} \in T PROVE s \in T
  <2>1. CASE s = {}
    <3>1. SumOver(w, {}) = 0
      BY SumGrows
    <3>2. Cardinality({}) = 0
      BY FS_EmptySet
    <3>3. QED BY <1>1, <2>1, <3>1, <3>2
  <2>2. CASE s # {}
    <3>1. PICK x \in s : TRUE
      BY <2>2
    <3>2. SumOver(w, s) = w[x] + SumOver(w, s \ {x})
      <4>1. \A y \in S : w[y] \in Int
        OBVIOUS
      <4>2. QED BY <3>1, <4>1, SumGrows
    <3>3. SumOver(w, s \ {x}) = Cardinality(s \ {x})
      BY <1>1, <1>2, <3>1
    <3>4. IsFiniteSet(s)
      BY FS_Subset
    <3>5. Cardinality(s \ {x}) = Cardinality(s) - 1 /\ Cardinality(s) \in Nat
      BY <3>1, <3>4, FS_RemoveElement, FS_CardinalityType
    <3>6. SumOver(w, s) = Cardinality(s)
      BY <3>1, <3>2, <3>3, <3>5
    <3>7. QED BY <1>1, <3>6
  <2>3. QED BY <2>1, <2>2
<1>3. Inductive(S, T)
  BY <1>2 DEF Inductive
<1>4. Covers(S, T)
  BY <1>3, EverySubset
<1>5. QED BY <1>1, <1>4 DEF Covers

(* The same numbers d places further have the same sum.                    *)
LEMMA SumMoves ==
  ASSUME NEW S, IsFiniteSet(S), S \subseteq Int, NEW d \in Int,
         NEW v, \A x \in S : v[x] \in Int,
         NEW w, \A x \in S : w[x + d] = v[x]
  PROVE  SumOver(w, Shifted(S, d)) = SumOver(v, S)
<1>1. PICK ren : ren = [x \in S |-> x + d]
  OBVIOUS
<1>2. OneToOne(ren, S) /\ Renamed(S, ren) = Shifted(S, d) /\ \A x \in S : w[ren[x]] = v[x]
  <2>1. OneToOne(ren, S)
    BY <1>1 DEF OneToOne
  <2>2. Renamed(S, ren) = Shifted(S, d)
    BY <1>1 DEF Renamed, Shifted
  <2>3. QED BY <1>1, <2>1, <2>2
<1>3. SumOver(w, Renamed(S, ren)) = SumOver(v, S)
  BY <1>2, SumRenames
<1>4. QED BY <1>2, <1>3

(* The sums of effort/result in a stretch of buckets.                      *)
AddsBer(g, bk, S) ==
    g = [s \in SUBSET S |-> IF s = {} THEN 0
            ELSE bk[CHOOSE x \in s : TRUE].ber + g[s \ {CHOOSE x \in s : TRUE}]]
AddsSer(g, bk, S) ==
    g = [s \in SUBSET S |-> IF s = {} THEN 0
            ELSE bk[CHOOSE x \in s : TRUE].ser + g[s \ {CHOOSE x \in s : TRUE}]]
BerSum(bk, S) == MapThenSumSet(LAMBDA j : bk[j].ber, S)
SerSum(bk, S) == MapThenSumSet(LAMBDA j : bk[j].ser, S)
Bers(bk, S) == [j \in S |-> bk[j].ber]
Sers(bk, S) == [j \in S |-> bk[j].ser]

LEMMA BerSumIs ==
  ASSUME NEW bk, NEW S, IsFiniteSet(S), \A j \in S : bk[j].ber \in Int
  PROVE  BerSum(bk, S) = SumOver(Bers(bk, S), S)
<1>1. PICK w : w = Bers(bk, S)
  OBVIOUS
<1>2. \A j \in S : w[j] \in Int /\ w[j] = bk[j].ber
  BY <1>1 DEF Bers
<1>3. PICK f : Sums(f, w, S)
  BY <1>2, SumsExist
<1>4. Adds(f, w, S)
  BY <1>2, <1>3, SumsAdd
<1>5. \A s \in SUBSET S : s # {} => w[CHOOSE x \in s : TRUE] = bk[CHOOSE x \in s : TRUE].ber
  BY <1>2
<1>6. AddsBer(f, bk, S)
  BY <1>4, <1>5 DEF Adds, AddsBer
<1>7. PICK g : g = CHOOSE it : AddsBer(it, bk, S)
  OBVIOUS
<1>8. BerSum(bk, S) = g[S]
  BY <1>7 DEF BerSum, MapThenSumSet, MapThenFoldSet, AddsBer
<1>9. AddsBer(g, bk, S)
  BY <1>6, <1>7
<1>10. Adds(g, w, S)
  <2>1. g = [s \in SUBSET S |-> g[s]] /\ g[{}] = 0
    BY <1>9 DEF AddsBer
  <2>2. \A s \in SUBSET S : s # {} => g[s] = w[CHOOSE x \in s : TRUE] + g[s \ {CHOOSE x \in s : TRUE}]
    BY <1>5, <1>9 DEF AddsBer
  <2>3. QED BY <2>1, <2>2, AddsFrom
<1>11. g[S] = f[S]
  BY <1>2, <1>3, <1>10, SumIsUnique
<1>12. SumOver(w, S) = f[S]
  BY <1>2, <1>3, SumIs
<1>13. QED BY <1>1, <1>8, <1>11, <1>12

LEMMA SerSumIs ==
  ASSUME NEW bk, NEW S, IsFiniteSet(S), \A j \in S : bk[j].ser \in Int
  PROVE  SerSum(bk, S) = SumOver(Sers(bk, S), S)
<1>1. PICK w : w = Sers(bk, S)
  OBVIOUS
<1>2. \A j \in S : w[j] \in Int /\ w[j] = bk[j].ser
  BY <1>1 DEF Sers
<1>3. PICK f : Sums(f, w, S)
  BY <1>2, SumsExist
<1>4. Adds(f, w, S)
  BY <1>2, <1>3, SumsAdd
<1>5. \A s \in SUBSET S : s # {} => w[CHOOSE x \in s : TRUE] = bk[CHOOSE x \in s : TRUE].ser
  BY <1>2
<1>6. AddsSer(f, bk, S)
  BY <1>4, <1>5 DEF Adds, AddsSer
<1>7. PICK g : g = CHOOSE it : AddsSer(it, bk, S)
  OBVIOUS
<1>8. SerSum(bk, S) = g[S]
  BY <1>7 DEF SerSum, MapThenSumSet, MapThenFoldSet, AddsSer
<1>9. AddsSer(g, bk, S)
  BY <1>6, <1>7
<1>10. Adds(g, w, S)
  <2>1. g = [s \in SUBSET S |-> g[s]] /\ g[{}] = 0
    BY <1>9 DEF AddsSer
  <2>2. \A s \in SUBSET S : s # {} => g[s] = w[CHOOSE x \in s : TRUE] + g[s \ {CHOOSE x \in s : TRUE}]
    BY <1>5, <1>9 DEF AddsSer
  <2>3. QED BY <2>1, <2>2, AddsFrom
<1>11. g[S] = f[S]
  BY <1>2, <1>3, <1>10, SumIsUnique
<1>12. SumOver(w, S) = f[S]
  BY <1>2, <1>3, SumIs
<1>13. QED BY <1>1, <1>8, <1>11, <1>12

-----------------------------------------------------------------------------
(* The order blocks of two scans in a row. *)

(* The history g is a stretch of the history a, d buckets into it.         *)
Stretch(g, a, d) == Len(g) + d <= Len(a) /\ \A k \in 1..Len(g) : g[k] = a[k + d]

LEMMA SumsOfAStretch ==
  ASSUME NEW a, WellFormed(a), NEW g, WellFormed(g), NEW d \in Nat, Stretch(g, a, d),
         NEW lo \in Nat, NEW hi \in Nat, 1 <= lo, hi <= Len(g)
  PROVE  /\ BerSum(a, (lo + d)..(hi + d)) = BerSum(g, lo..hi)
         /\ SerSum(a, (lo + d)..(hi + d)) = SerSum(g, lo..hi)
<1>1. PICK S, M, m, n : S = lo..hi /\ M = (lo + d)..(hi + d) /\ m = Len(g) /\ n = Len(a)
  OBVIOUS
<1>2. DOMAIN g = 1..m /\ DOMAIN a = 1..n /\ m \in Nat /\ n \in Nat /\ m + d <= n
  BY <1>1, BucketTimes DEF Stretch
<1>3. S \subseteq 1..m /\ M \subseteq 1..n /\ IsFiniteSet(S) /\ IsFiniteSet(M)
  <2>1. S \subseteq 1..m /\ M \subseteq 1..n
    BY <1>1, <1>2
  <2>2. IsFiniteSet(S) /\ IsFiniteSet(M)
    BY <1>1, FS_Interval
  <2>3. QED BY <2>1, <2>2
<1>4. M = Shifted(S, d)
  <2>1. \A y \in M : y - d \in S /\ y = (y - d) + d
    BY <1>1
  <2>2. \A x \in S : x + d \in M
    BY <1>1
  <2>3. QED BY <2>1, <2>2 DEF Shifted
<1>5. \A j \in S : g[j].ber \in Int /\ g[j].ser \in Int
  <2>1. \A j \in S : IsBucket(g[j])
    BY <1>2, <1>3 DEF WellFormed
  <2>2. \A j \in S : g[j].ber \in Nat /\ g[j].ser \in Nat
    BY <2>1, BucketFields
  <2>3. QED BY <2>2
<1>6. \A j \in M : a[j].ber \in Int /\ a[j].ser \in Int
  <2>1. \A j \in M : IsBucket(a[j])
    BY <1>2, <1>3 DEF WellFormed
  <2>2. \A j \in M : a[j].ber \in Nat /\ a[j].ser \in Nat
    BY <2>1, BucketFields
  <2>3. QED BY <2>2
<1>7. \A x \in S : x + d \in M /\ a[x + d] = g[x]
  <2>1. \A x \in S : x + d \in M
    BY <1>1
  <2>2. QED BY <1>1, <1>3, <2>1 DEF Stretch
<1>8. BerSum(a, M) = BerSum(g, S)
  <2>1. PICK v, w : v = Bers(g, S) /\ w = Bers(a, M)
    OBVIOUS
  <2>2. \A x \in S : v[x] \in Int /\ w[x + d] = v[x]
    BY <1>5, <1>7, <2>1 DEF Bers
  <2>3. SumOver(w, Shifted(S, d)) = SumOver(v, S)
    <3>1. S \subseteq Int /\ d \in Int
      BY <1>1
    <3>2. QED BY <1>3, <2>2, <3>1, SumMoves
  <2>4. BerSum(a, M) = SumOver(w, M) /\ BerSum(g, S) = SumOver(v, S)
    BY <1>3, <1>5, <1>6, <2>1, BerSumIs
  <2>5. QED BY <1>4, <2>3, <2>4
<1>9. SerSum(a, M) = SerSum(g, S)
  <2>1. PICK v, w : v = Sers(g, S) /\ w = Sers(a, M)
    OBVIOUS
  <2>2. \A x \in S : v[x] \in Int /\ w[x + d] = v[x]
    BY <1>5, <1>7, <2>1 DEF Sers
  <2>3. SumOver(w, Shifted(S, d)) = SumOver(v, S)
    <3>1. S \subseteq Int /\ d \in Int
      BY <1>1
    <3>2. QED BY <1>3, <2>2, <3>1, SumMoves
  <2>4. SerSum(a, M) = SumOver(w, M) /\ SerSum(g, S) = SumOver(v, S)
    BY <1>3, <1>5, <1>6, <2>1, SerSumIs
  <2>5. QED BY <1>4, <2>3, <2>4
<1>10. QED BY <1>1, <1>8, <1>9

(* What two buckets confirm, given the sums of the effort before.          *)
ObsOf(b0, b1, sumB, sumS) ==
    CASE Anomalous(b0.ser, sumS) ->
            IF BuyVol(b1) > SellVol(b1) /\ b1.opL > b1.opS /\ b1.vel > VelHighlight
            THEN {NewOb("bullish", b0, b1, b0.ser, sumS)} ELSE {}
      [] ~Anomalous(b0.ser, sumS) /\ Anomalous(b0.ber, sumB) ->
            IF SellVol(b1) > BuyVol(b1) /\ b1.opS > b1.opL /\ b1.vel > VelHighlight
            THEN {NewOb("bearish", b0, b1, b0.ber, sumB)} ELSE {}
      [] OTHER -> {}

LEMMA ObsAtIs ==
  ASSUME NEW bk, NEW i
  PROVE  ObsAt(bk, i) = ObsOf(bk[i - 1], bk[i], BerSum(bk, (i - Lookback)..(i - 1)),
                              SerSum(bk, (i - Lookback)..(i - 1)))
BY DEF ObsAt, ObsOf, BerSum, SerSum

(* So a stretch that reaches back far enough confirms the same blocks.     *)
LEMMA ObsOfAStretch ==
  ASSUME NEW a, WellFormed(a), NEW g, WellFormed(g), NEW d \in Nat, Stretch(g, a, d),
         NEW i \in (Lookback + 1)..Len(g)
  PROVE  ObsAt(a, i + d) = ObsAt(g, i)
<1>1. PICK L, lo, hi : L = Lookback /\ lo = i - L /\ hi = i - 1
  OBVIOUS
<1>2. L \in Nat /\ L > 0 /\ Len(g) \in Nat
  BY <1>1, OrderBlockConstants, BucketTimes
<1>3. lo \in Nat /\ hi \in Nat /\ 1 <= lo /\ hi <= Len(g) /\ i \in Nat /\ i \in 1..Len(g) /\ hi \in 1..Len(g)
  BY <1>1, <1>2
<1>4. /\ BerSum(a, (lo + d)..(hi + d)) = BerSum(g, lo..hi)
      /\ SerSum(a, (lo + d)..(hi + d)) = SerSum(g, lo..hi)
  <2>1. lo \in Nat /\ hi \in Nat /\ 1 <= lo /\ hi <= Len(g)
    BY <1>3
  <2>2. QED BY <2>1, SumsOfAStretch
<1>5. (i + d) - L = lo + d /\ (i + d) - 1 = hi + d
  BY <1>1, <1>2, <1>3
<1>6. a[i + d] = g[i] /\ a[hi + d] = g[hi]
  BY <1>3 DEF Stretch
<1>7. ObsAt(a, i + d) = ObsOf(a[hi + d], a[i + d], BerSum(a, (lo + d)..(hi + d)),
                              SerSum(a, (lo + d)..(hi + d)))
  BY <1>1, <1>5, ObsAtIs
<1>8. ObsAt(g, i) = ObsOf(g[hi], g[i], BerSum(g, lo..hi), SerSum(g, lo..hi))
  BY <1>1, ObsAtIs
<1>9. QED BY <1>4, <1>6, <1>7, <1>8

(* The mitigation goes on where the scan before it ended.                  *)
LEMMA MitigationContinues ==
  ASSUME NEW h, WellFormed(h), NEW a, WellFormed(a), Len(a) = Len(h) + 1,
         \A k \in 1..Len(h) : a[k] = h[k], NEW ob, IsBlock(ob)
  PROVE  FoldLeft(Mitigated, ob, a) = Mitigated(FoldLeft(Mitigated, ob, h), a[Len(h) + 1])
<1>1. PICK n, D : n = Len(h) /\ D = Versions(ob)
  OBVIOUS
<1>2. n \in Nat /\ Len(a) = n + 1
  BY <1>1, BucketTimes
<1>3. PICK v : Mitigation(v, ob, h) /\ FoldLeft(Mitigated, ob, h) = v[n]
  BY <1>1, MitigationWalks
<1>4. PICK w : Mitigation(w, ob, a) /\ FoldLeft(Mitigated, ob, a) = w[n + 1]
  BY <1>2, MitigationWalks
<1>5. v[0] = ob /\ \A k \in 1..n : v[k] = Mitigated(v[k - 1], h[k])
  BY <1>1, <1>3 DEF Mitigation
<1>6. w[0] = ob /\ \A k \in 1..(n + 1) : w[k] = Mitigated(w[k - 1], a[k])
  BY <1>2, <1>4 DEF Mitigation
<1>7. \A k \in 1..n : a[k] = h[k]
  BY <1>1
<1>8. PICK R : R = {k \in Nat : k <= n => w[k] = v[k]}
  OBVIOUS
<1>9. 0 \in R
  BY <1>5, <1>6, <1>8
<1>10. ASSUME NEW k \in Nat, k \in R PROVE k + 1 \in R
  <2>1. SUFFICES ASSUME k + 1 <= n PROVE w[k + 1] = v[k + 1]
    BY <1>8
  <2>2. k + 1 \in 1..n /\ k + 1 \in 1..(n + 1) /\ (k + 1) - 1 = k /\ k <= n
    BY <1>2, <2>1
  <2>3. w[k] = v[k]
    BY <1>8, <1>10, <2>2
  <2>4. w[k + 1] = Mitigated(w[k], a[k + 1])
    BY <1>6, <2>2
  <2>5. v[k + 1] = Mitigated(v[k], h[k + 1])
    BY <1>5, <2>2
  <2>6. QED BY <1>7, <2>2, <2>3, <2>4, <2>5
<1>11. Nat \subseteq R
  BY <1>9, <1>10, EveryNatural
<1>12. w[n] = v[n]
  BY <1>2, <1>8, <1>11
<1>13. n + 1 \in 1..(n + 1) /\ (n + 1) - 1 = n
  BY <1>2
<1>14. w[n + 1] = Mitigated(w[n], a[n + 1])
  BY <1>6, <1>13
<1>15. QED BY <1>1, <1>3, <1>4, <1>12, <1>14

(* The oldest bucket has no say in a block that was confirmed after it.    *)
LEMMA MitigationTrims ==
  ASSUME NEW a, WellFormed(a), a # <<>>, NEW ob, IsBlock(ob), a[1].t <= ob.confirm
  PROVE  FoldLeft(Mitigated, ob, Tail(a)) = FoldLeft(Mitigated, ob, a)
<1>1. PICK g, n : g = Tail(a) /\ n = Len(a)
  OBVIOUS
<1>2. WellFormed(g) /\ Len(g) = n - 1 /\ \A k \in 1..(n - 1) : g[k] = a[k + 1]
  BY <1>1, TailWellFormed
<1>3. n \in Nat /\ n > 0
  BY <1>1 DEF WellFormed
<1>4. PICK v : Mitigation(v, ob, g) /\ FoldLeft(Mitigated, ob, g) = v[n - 1]
  BY <1>2, MitigationWalks
<1>5. PICK w : Mitigation(w, ob, a) /\ FoldLeft(Mitigated, ob, a) = w[n]
  BY <1>1, MitigationWalks
<1>6. v[0] = ob /\ \A k \in 1..(n - 1) : v[k] = Mitigated(v[k - 1], g[k])
  BY <1>2, <1>4 DEF Mitigation
<1>7. w[0] = ob /\ \A k \in 1..n : w[k] = Mitigated(w[k - 1], a[k])
  BY <1>1, <1>5 DEF Mitigation
<1>8. PICK R : R = {k \in Nat : k <= n - 1 => w[k + 1] = v[k]}
  OBVIOUS
<1>9. 0 \in R
  <2>1. 1 \in 1..n /\ 1 - 1 = 0
    BY <1>3
  <2>2. w[1] = Mitigated(ob, a[1])
    BY <1>7, <2>1
  <2>3. Mitigated(ob, a[1]) = ob
    BY DEF Mitigated
  <2>4. w[0 + 1] = v[0]
    BY <1>6, <2>2, <2>3
  <2>5. QED BY <1>8, <2>4
<1>10. ASSUME NEW k \in Nat, k \in R PROVE k + 1 \in R
  <2>1. SUFFICES ASSUME k + 1 <= n - 1 PROVE w[(k + 1) + 1] = v[k + 1]
    BY <1>8
  <2>2. k + 1 \in 1..(n - 1) /\ (k + 1) + 1 \in 1..n /\ (k + 1) - 1 = k /\ ((k + 1) + 1) - 1 = k + 1 /\ k <= n - 1
    BY <1>3, <2>1
  <2>3. w[k + 1] = v[k]
    BY <1>8, <1>10, <2>2
  <2>4. w[(k + 1) + 1] = Mitigated(w[k + 1], a[(k + 1) + 1])
    BY <1>7, <2>2
  <2>5. v[k + 1] = Mitigated(v[k], g[k + 1])
    BY <1>6, <2>2
  <2>6. g[k + 1] = a[(k + 1) + 1]
    BY <1>2, <2>2
  <2>7. QED BY <2>3, <2>4, <2>5, <2>6
<1>11. Nat \subseteq R
  BY <1>9, <1>10, EveryNatural
<1>12. n - 1 \in R /\ (n - 1) + 1 = n
  BY <1>3, <1>11
<1>13. w[n] = v[n - 1]
  BY <1>8, <1>12
<1>14. QED BY <1>1, <1>4, <1>5, <1>13

(* What became of a block in the next scan.                                *)
Erodes(new, ob) ==
    /\ new.n = ob.n /\ new.type = ob.type
    /\ new.top <= ob.top /\ new.bottom >= ob.bottom
    /\ IF ob.type = "bullish" THEN new.bottom = ob.bottom ELSE new.top = ob.top
    /\ ~ob.active => new = ob

LEMMA MitigationErodes ==
  ASSUME NEW ob, IsBlock(ob), NEW y \in Versions(ob), y.bottom <= y.top,
         NEW b, BodyFields(b), NEW z, z = Mitigated(y, b)
  PROVE  Erodes(z, y)
<1>1. StepsTo(ob, y, b, z)
  BY MitigationStep
<1>2. z \in Versions(ob) /\ z.bottom <= z.top /\ z.top <= y.top /\ y.bottom <= z.bottom
  BY <1>1 DEF StepsTo
<1>3. z.n = y.n /\ z.type = y.type /\ y.type = ob.type
  BY <1>2 DEF Versions
<1>4. z.bottom \in Int /\ y.bottom \in Int
  BY <1>2 DEF Versions
<1>5. z.bottom >= y.bottom
  BY <1>2, <1>4
<1>6. IF y.type = "bullish" THEN z.bottom = y.bottom ELSE z.top = y.top
  BY <1>1, <1>3 DEF StepsTo
<1>7. ~y.active => z = y
  BY <1>1 DEF StepsTo
<1>8. QED BY <1>2, <1>3, <1>5, <1>6, <1>7 DEF Erodes

(* The scan of one more bucket, with or without the trim.                  *)
LEMMA BlockErodes ==
  ASSUME NEW h, WellFormed(h), NEW a, WellFormed(a), Len(a) = Len(h) + 1,
         \A k \in 1..Len(h) : a[k] = h[k],
         NEW m \in Nat, \A k \in 1..Len(h) : h[k].n = m + k,
         NEW g, g = a \/ g = Tail(a),
         NEW ob \in CalcQuantObs(h), Covered(ob, g)
  PROVE  \E new \in CalcQuantObs(g) : Erodes(new, ob)
<1>1. PICK n, L : n = Len(h) /\ L = Lookback
  OBVIOUS
<1>2. n \in Nat /\ Len(a) = n + 1 /\ L \in Nat /\ L > 0
  BY <1>1, BucketTimes, OrderBlockConstants
<1>3. PICK i \in (L + 1)..n : \E fresh \in ObsAt(h, i) :
           /\ Fresh(fresh) /\ fresh.n = h[i - 1].n /\ fresh.confirm = h[i].t
           /\ ob = FoldLeft(Mitigated, fresh, h)
  BY <1>1, ObsAreWalked
<1>4. PICK fresh \in ObsAt(h, i) :
           /\ Fresh(fresh) /\ fresh.n = h[i - 1].n /\ fresh.confirm = h[i].t
           /\ ob = FoldLeft(Mitigated, fresh, h)
  BY <1>3
<1>5. i \in Nat /\ i \in 1..n /\ i - 1 \in 1..n /\ i \in (Lookback + 1)..Len(h)
  BY <1>1, <1>2, <1>3
<1>6. IsBlock(fresh)
  BY <1>4 DEF Fresh
<1>7. PICK v : Mitigation(v, fresh, h) /\ FoldLeft(Mitigated, fresh, h) = v[n]
  BY <1>1, <1>6, MitigationWalks
<1>8. ob \in Versions(fresh) /\ ob.bottom <= ob.top
  <2>1. \A k \in 0..Len(h) : v[k] \in Versions(fresh) /\ Eroding(fresh, v[k], h, k)
    BY <1>4, <1>7, ErodedBlock
  <2>2. v[n] \in Versions(fresh) /\ Eroding(fresh, v[n], h, n)
    BY <1>1, <1>2, <2>1
  <2>3. QED BY <1>4, <1>7, <2>2 DEF Eroding
<1>9. ob.n = m + (i - 1)
  <2>1. ob.n = fresh.n
    BY <1>8 DEF Versions
  <2>2. QED BY <1>1, <1>4, <1>5, <2>1
<1>10. PICK new : new = FoldLeft(Mitigated, fresh, a)
  OBVIOUS
<1>11. Erodes(new, ob)
  <2>1. PICK b : b = a[n + 1]
    OBVIOUS
  <2>2. new = Mitigated(ob, b)
    BY <1>1, <1>4, <1>6, <1>10, <2>1, MitigationContinues
  <2>3. IsBucket(b)
    <3>1. DOMAIN a = 1..(n + 1) /\ n + 1 \in 1..(n + 1)
      BY <1>2, BucketTimes
    <3>2. QED BY <2>1, <3>1 DEF WellFormed
  <2>4. BodyFields(b)
    BY <2>3, BodiesAreIntegers
  <2>5. QED BY <1>6, <1>8, <2>2, <2>4, MitigationErodes
<1>12. ObsAt(a, i) = ObsAt(h, i)
  <2>1. Stretch(h, a, 0)
    BY <1>1, <1>2 DEF Stretch
  <2>2. ObsAt(a, i + 0) = ObsAt(h, i)
    BY <1>5, <2>1, ObsOfAStretch
  <2>3. QED BY <1>5, <2>2
<1>13. CASE g = a
  <2>1. i \in (Lookback + 1)..Len(a) /\ fresh \in ObsAt(a, i)
    BY <1>1, <1>2, <1>4, <1>5, <1>12
  <2>2. new \in CalcQuantObs(a)
    BY <1>10, <2>1 DEF CalcQuantObs
  <2>3. QED BY <1>11, <1>13, <2>2
<1>14. CASE g = Tail(a)
  <2>1. a # <<>>
    <3>1. Len(<<>>) = 0
      OBVIOUS
    <3>2. QED BY <1>2, <3>1
  <2>2. WellFormed(g) /\ Len(g) = n /\ \A k \in 1..n : g[k] = a[k + 1]
    <3>1. WellFormed(g) /\ Len(g) = Len(a) - 1 /\ \A k \in 1..(Len(a) - 1) : g[k] = a[k + 1]
      BY <1>14, <2>1, TailWellFormed
    <3>2. Len(a) - 1 = n
      BY <1>2
    <3>3. QED BY <3>1, <3>2
  <2>3. PICK k \in (L + 1)..n : g[k - 1].n = ob.n
    BY <1>1, <2>2 DEF Covered
  <2>4. k \in Nat /\ k - 1 \in 1..n /\ k \in 1..n /\ (k - 1) + 1 = k
    BY <1>2, <2>3
  <2>5. g[k - 1].n = m + k
    <3>1. g[k - 1] = a[k] /\ a[k] = h[k] /\ h[k].n = m + k
      BY <1>1, <2>2, <2>4
    <3>2. QED BY <3>1
  <2>6. k = i - 1
    BY <1>5, <1>9, <2>3, <2>4, <2>5
  <2>7. Stretch(g, a, 1)
    BY <1>2, <2>2 DEF Stretch
  <2>8. k \in (Lookback + 1)..Len(g)
    BY <1>1, <2>2, <2>3
  <2>9. ObsAt(a, k + 1) = ObsAt(g, k)
    BY <2>2, <2>7, <2>8, ObsOfAStretch
  <2>10. fresh \in ObsAt(g, k)
    BY <1>4, <1>5, <1>12, <2>4, <2>6, <2>9
  <2>11. a[1].t <= fresh.confirm
    <3>1. 1 \in 1..n /\ 1 <= i
      BY <1>2, <1>5
    <3>2. h[1].t <= h[i].t
      BY <1>1, <1>5, <3>1, BucketTimes
    <3>3. a[1] = h[1]
      BY <1>1, <3>1
    <3>4. QED BY <1>4, <3>2, <3>3
  <2>12. FoldLeft(Mitigated, fresh, g) = new
    BY <1>6, <1>10, <1>14, <2>1, <2>11, MitigationTrims
  <2>13. new \in CalcQuantObs(g)
    BY <2>8, <2>10, <2>12 DEF CalcQuantObs
  <2>14. QED BY <1>11, <2>13
<1>15. QED BY <1>13, <1>14

LEMMA NextBlocksErode ==
  ASSUME ScanIInv, ScanIInv', AnalyticsNext, NEW ob \in Obs, Covered(ob, history')
  PROVE  \E new \in CalcQuantObs(history') : Erodes(new, ob)
<1>1. PICK h, g, m : h = history /\ g = history' /\ m = total - Len(history)
  OBVIOUS
<1>2. PICK a : Appended(h, a, g)
  BY <1>1, StepAppends
<1>3. /\ WellFormed(h) /\ WellFormed(a) /\ Len(a) = Len(h) + 1
      /\ \A k \in 1..Len(h) : a[k] = h[k]
      /\ g = a \/ g = Tail(a)
  BY <1>2 DEF Appended
<1>4. m \in Nat
  BY <1>1, CapIs DEF ScanIInv
<1>5. \A k \in 1..Len(h) : h[k].n = m + k
  <2>1. DOMAIN h = 1..Len(h)
    BY <1>3, BucketTimes
  <2>2. QED BY <1>1, <2>1 DEF ScanIInv
<1>6. ob \in CalcQuantObs(h) /\ Covered(ob, g)
  BY <1>1 DEF Obs
<1>7. \E new \in CalcQuantObs(g) : Erodes(new, ob)
  BY <1>3, <1>4, <1>5, <1>6, BlockErodes
<1>8. QED BY <1>1, <1>7

(* From one scan to the next, and across the trim at the cap, a block that *)
(* the history still covers is there again, eroded at most; and until the  *)
(* trim a mark is there again, wider at most or dead by the last close     *)
(* (calc_quant_obs and calc_absorption, which keep nothing between scans). *)
THEOREM ScansHold == AnalyticsSpec => ScansAgree
<1>1. ScanIInv /\ ScanIInv' /\ [AnalyticsNext]_analyticsVars =>
        [ \A ob \in Obs : Covered(ob, history') =>
            \E new \in CalcQuantObs(history') :
                /\ new.n = ob.n /\ new.type = ob.type
                /\ new.top <= ob.top /\ new.bottom >= ob.bottom
                /\ IF ob.type = "bullish" THEN new.bottom = ob.bottom ELSE new.top = ob.top
                /\ ~ob.active => new = ob ]_analyticsVars
  <2>1. SUFFICES ASSUME ScanIInv, ScanIInv', AnalyticsNext, NEW ob \in Obs, Covered(ob, history')
                 PROVE  \E new \in CalcQuantObs(history') :
                          /\ new.n = ob.n /\ new.type = ob.type
                          /\ new.top <= ob.top /\ new.bottom >= ob.bottom
                          /\ IF ob.type = "bullish" THEN new.bottom = ob.bottom ELSE new.top = ob.top
                          /\ ~ob.active => new = ob
    OBVIOUS
  <2>2. \E new \in CalcQuantObs(history') : Erodes(new, ob)
    BY <2>1, NextBlocksErode
  <2>3. QED BY <2>2 DEF Erodes
<1>2. ScanIInv /\ ScanIInv' /\ [AnalyticsNext]_analyticsVars =>
        [ Len(history') > Len(history) =>
            \A m \in Marks :
              \E new \in CalcAbsorption(history') :
                /\ new.id = m.id
                /\ IF m.active
                   THEN /\ new.plo <= m.plo /\ m.phi <= new.phi
                        /\ new.usd >= m.usd /\ new.tier >= m.tier
                        /\ new.active \/ BrokenBy(m, history'[Len(history')])
                   ELSE new = m ]_analyticsVars
  <2>1. SUFFICES ASSUME ScanIInv, ScanIInv', AnalyticsNext, Len(history') > Len(history), NEW m \in Marks
                 PROVE  \E new \in CalcAbsorption(history') :
                          /\ new.id = m.id
                          /\ IF m.active
                             THEN /\ new.plo <= m.plo /\ m.phi <= new.phi
                                  /\ new.usd >= m.usd /\ new.tier >= m.tier
                                  /\ new.active \/ BrokenBy(m, history'[Len(history')])
                             ELSE new = m
    OBVIOUS
  <2>2. \E new \in CalcAbsorption(history') : Continues(new, m, history'[Len(history')])
    BY <2>1, NextMarksGrow
  <2>3. QED BY <2>2 DEF Continues
<1>3. AnalyticsSpec => []ScanIInv
  BY ScansKeepTheirBuckets
<1>4. AnalyticsSpec => BlocksOnlyErode
  BY <1>1, <1>3, PTL DEF AnalyticsSpec, BlocksOnlyErode
<1>5. AnalyticsSpec => MarksOnlyGrow
  BY <1>2, <1>3, PTL DEF AnalyticsSpec, MarksOnlyGrow
<1>6. QED BY <1>4, <1>5 DEF ScansAgree

-----------------------------------------------------------------------------
(* What a bucket traded. *)

AddsBought(g, f, S) ==
    g = [s \in SUBSET S |-> IF s = {} THEN 0
            ELSE f[CHOOSE x \in s : TRUE].b + g[s \ {CHOOSE x \in s : TRUE}]]
AddsSold(g, f, S) ==
    g = [s \in SUBSET S |-> IF s = {} THEN 0
            ELSE f[CHOOSE x \in s : TRUE].s + g[s \ {CHOOSE x \in s : TRUE}]]
BoughtSum(f, S) == MapThenSumSet(LAMBDA p : f[p].b, S)
SoldSum(f, S) == MapThenSumSet(LAMBDA p : f[p].s, S)
Bought(f) == [p \in DOMAIN f |-> f[p].b]
Sold(f) == [p \in DOMAIN f |-> f[p].s]

LEMMA BoughtSumIs ==
  ASSUME NEW f, IsFiniteSet(DOMAIN f), \A p \in DOMAIN f : f[p].b \in Int
  PROVE  BoughtSum(f, DOMAIN f) = SumOver(Bought(f), DOMAIN f)
<1>1. PICK S, w : S = DOMAIN f /\ w = Bought(f)
  OBVIOUS
<1>2. IsFiniteSet(S) /\ \A p \in S : w[p] \in Int /\ w[p] = f[p].b
  BY <1>1 DEF Bought
<1>3. PICK h : Sums(h, w, S)
  BY <1>2, SumsExist
<1>4. Adds(h, w, S)
  BY <1>2, <1>3, SumsAdd
<1>5. \A s \in SUBSET S : s # {} => w[CHOOSE x \in s : TRUE] = f[CHOOSE x \in s : TRUE].b
  BY <1>2
<1>6. AddsBought(h, f, S)
  BY <1>4, <1>5 DEF Adds, AddsBought
<1>7. PICK g : g = CHOOSE it : AddsBought(it, f, S)
  OBVIOUS
<1>8. BoughtSum(f, S) = g[S]
  BY <1>7 DEF BoughtSum, MapThenSumSet, MapThenFoldSet, AddsBought
<1>9. AddsBought(g, f, S)
  BY <1>6, <1>7
<1>10. Adds(g, w, S)
  <2>1. g = [s \in SUBSET S |-> g[s]] /\ g[{}] = 0
    BY <1>9 DEF AddsBought
  <2>2. \A s \in SUBSET S : s # {} => g[s] = w[CHOOSE x \in s : TRUE] + g[s \ {CHOOSE x \in s : TRUE}]
    BY <1>5, <1>9 DEF AddsBought
  <2>3. QED BY <2>1, <2>2, AddsFrom
<1>11. g[S] = h[S] /\ SumOver(w, S) = h[S]
  BY <1>2, <1>3, <1>10, SumIsUnique, SumIs
<1>12. QED BY <1>1, <1>8, <1>11

LEMMA SoldSumIs ==
  ASSUME NEW f, IsFiniteSet(DOMAIN f), \A p \in DOMAIN f : f[p].s \in Int
  PROVE  SoldSum(f, DOMAIN f) = SumOver(Sold(f), DOMAIN f)
<1>1. PICK S, w : S = DOMAIN f /\ w = Sold(f)
  OBVIOUS
<1>2. IsFiniteSet(S) /\ \A p \in S : w[p] \in Int /\ w[p] = f[p].s
  BY <1>1 DEF Sold
<1>3. PICK h : Sums(h, w, S)
  BY <1>2, SumsExist
<1>4. Adds(h, w, S)
  BY <1>2, <1>3, SumsAdd
<1>5. \A s \in SUBSET S : s # {} => w[CHOOSE x \in s : TRUE] = f[CHOOSE x \in s : TRUE].s
  BY <1>2
<1>6. AddsSold(h, f, S)
  BY <1>4, <1>5 DEF Adds, AddsSold
<1>7. PICK g : g = CHOOSE it : AddsSold(it, f, S)
  OBVIOUS
<1>8. SoldSum(f, S) = g[S]
  BY <1>7 DEF SoldSum, MapThenSumSet, MapThenFoldSet, AddsSold
<1>9. AddsSold(g, f, S)
  BY <1>6, <1>7
<1>10. Adds(g, w, S)
  <2>1. g = [s \in SUBSET S |-> g[s]] /\ g[{}] = 0
    BY <1>9 DEF AddsSold
  <2>2. \A s \in SUBSET S : s # {} => g[s] = w[CHOOSE x \in s : TRUE] + g[s \ {CHOOSE x \in s : TRUE}]
    BY <1>5, <1>9 DEF AddsSold
  <2>3. QED BY <2>1, <2>2, AddsFrom
<1>11. g[S] = h[S] /\ SumOver(w, S) = h[S]
  BY <1>2, <1>3, <1>10, SumIsUnique, SumIs
<1>12. QED BY <1>1, <1>8, <1>11

LEMMA BucketLevels ==
  ASSUME NEW b, IsBucket(b)
  PROVE  /\ IsFiniteSet(DOMAIN b.levels) /\ DOMAIN b.levels \subseteq Int /\ DOMAIN b.levels # {}
         /\ \A p \in DOMAIN b.levels : b.levels[p].b \in Nat /\ b.levels[p].s \in Nat
<1>1. \A p \in DOMAIN b.levels : b.levels[p] \in [b : Nat, s : Nat]
  BY DEF IsBucket
<1>2. \A p \in DOMAIN b.levels : b.levels[p].b \in Nat /\ b.levels[p].s \in Nat
  BY <1>1
<1>3. QED BY <1>2 DEF IsBucket

LEMMA VolumesAre ==
  ASSUME NEW b, IsBucket(b)
  PROVE  /\ BuyVol(b) = SumOver(Bought(b.levels), DOMAIN b.levels) /\ BuyVol(b) \in Nat
         /\ SellVol(b) = SumOver(Sold(b.levels), DOMAIN b.levels) /\ SellVol(b) \in Nat
         /\ Vol(b) \in Nat
<1>1. PICK f, S : f = b.levels /\ S = DOMAIN f
  OBVIOUS
<1>2. IsFiniteSet(S) /\ \A p \in S : f[p].b \in Nat /\ f[p].s \in Nat
  BY <1>1, BucketLevels
<1>3. BuyVol(b) = BoughtSum(f, S) /\ SellVol(b) = SoldSum(f, S)
  BY <1>1 DEF BuyVol, SellVol, BoughtSum, SoldSum
<1>4. BoughtSum(f, S) = SumOver(Bought(f), S) /\ SoldSum(f, S) = SumOver(Sold(f), S)
  BY <1>1, <1>2, BoughtSumIs, SoldSumIs
<1>5. SumOver(Bought(f), S) \in Nat /\ SumOver(Sold(f), S) \in Nat
  <2>1. PICK v, w : v = Bought(f) /\ w = Sold(f)
    OBVIOUS
  <2>2. \A p \in S : v[p] \in Nat /\ w[p] \in Nat
    BY <1>1, <1>2, <2>1 DEF Bought, Sold
  <2>3. SumOver(v, S) \in Nat /\ SumOver(w, S) \in Nat
    BY <1>2, <2>2, SumOfNaturals
  <2>4. QED BY <2>1, <2>3
<1>6. QED BY <1>1, <1>3, <1>4, <1>5 DEF Vol

-----------------------------------------------------------------------------
(* The mirror image. *)

LEMMA MirrorFields ==
  ASSUME NEW b, IsBucket(b)
  PROVE  LET m == Mirror(b) IN
         /\ m.open = -b.open /\ m.close = -b.close /\ m.high = -b.low /\ m.low = -b.high
         /\ m.poc = -b.poc /\ m.levels = MirrorLevels(b.levels)
         /\ m.opL = b.opS /\ m.opS = b.opL /\ m.clL = b.clS /\ m.clS = b.clL
         /\ m.liqS = b.liqL /\ m.liqL = b.liqS /\ m.churn = b.churn /\ m.vel = b.vel
<1>1. b \in [n : Nat, t : Nat, dt : Nat, open : Int, high : Int, low : Int, close : Int,
              poc : Int, levels : {b.levels}, opL : Nat, opS : Nat, clL : Nat, clS : Nat,
              churn : Nat, liqS : Nat, liqL : Nat, ber : Nat, ser : Nat, vel : Nat]
  BY DEF IsBucket
<1>2. QED BY <1>1 DEF Mirror

LEMMA MirrorVolumes ==
  ASSUME NEW b, IsBucket(b)
  PROVE  BuyVol(Mirror(b)) = SellVol(b) /\ SellVol(Mirror(b)) = BuyVol(b)
<1>1. PICK f, S, g, M, ren : /\ f = b.levels /\ S = DOMAIN f /\ g = MirrorLevels(f)
                             /\ ren = [p \in S |-> -p] /\ M = Renamed(S, ren)
  OBVIOUS
<1>2. /\ IsFiniteSet(S) /\ S \subseteq Int
      /\ \A p \in S : f[p].b \in Nat /\ f[p].s \in Nat
  BY <1>1, BucketLevels
<1>3. M = {-p : p \in S} /\ OneToOne(ren, S) /\ \A p \in S : ren[p] = -p
  BY <1>1, <1>2 DEF Renamed, OneToOne
<1>4. DOMAIN g = M /\ \A p \in S : -p \in M /\ g[-p].b = f[p].s /\ g[-p].s = f[p].b
  <2>1. DOMAIN g = M
    BY <1>1, <1>3 DEF MirrorLevels
  <2>2. ASSUME NEW p \in S PROVE -p \in M /\ g[-p].b = f[p].s /\ g[-p].s = f[p].b
    <3>1. -p \in M /\ -(-p) = p
      BY <1>2, <1>3
    <3>2. g[-p] = [b |-> f[-(-p)].s, s |-> f[-(-p)].b]
      BY <1>1, <1>3, <3>1 DEF MirrorLevels
    <3>3. QED BY <3>1, <3>2
  <2>3. QED BY <2>1, <2>2
<1>5. IsFiniteSet(M)
  <2>1. PICK m : m = [x \in S |-> ren[x]]
    OBVIOUS
  <2>2. m \in Surjection(S, M)
    BY <1>1, <2>1 DEF Surjection, Renamed
  <2>3. QED BY <1>2, <2>2, FS_Surjection
<1>6. \A q \in M : g[q].b \in Nat /\ g[q].s \in Nat
  BY <1>2, <1>3, <1>4
<1>7. SumOver(Bought(g), M) = SumOver(Sold(f), S) /\ SumOver(Sold(g), M) = SumOver(Bought(f), S)
  <2>1. PICK v, w, x, y : v = Sold(f) /\ w = Bought(g) /\ x = Bought(f) /\ y = Sold(g)
    OBVIOUS
  <2>2. \A p \in S : v[p] = f[p].s /\ w[-p] = g[-p].b /\ x[p] = f[p].b /\ y[-p] = g[-p].s
    BY <1>1, <1>4, <2>1 DEF Bought, Sold
  <2>3. \A p \in S : v[p] \in Int /\ w[ren[p]] = v[p] /\ x[p] \in Int /\ y[ren[p]] = x[p]
    BY <1>2, <1>3, <1>4, <2>2
  <2>4. SumOver(w, Renamed(S, ren)) = SumOver(v, S) /\ SumOver(y, Renamed(S, ren)) = SumOver(x, S)
    BY <1>2, <1>3, <2>3, SumRenames
  <2>5. QED BY <1>1, <2>1, <2>4
<1>8. BoughtSum(g, M) = SumOver(Bought(g), M) /\ SoldSum(g, M) = SumOver(Sold(g), M)
  BY <1>4, <1>5, <1>6, BoughtSumIs, SoldSumIs
<1>9. Mirror(b).levels = g
  BY <1>1, MirrorFields
<1>10. BuyVol(Mirror(b)) = BoughtSum(g, M) /\ SellVol(Mirror(b)) = SoldSum(g, M)
  BY <1>4, <1>9 DEF BuyVol, SellVol, BoughtSum, SoldSum
<1>11. BuyVol(b) = SumOver(Bought(f), S) /\ SellVol(b) = SumOver(Sold(f), S)
  BY <1>1, VolumesAre
<1>12. QED BY <1>7, <1>8, <1>10, <1>11

LEMMA NegatedExtremes ==
  ASSUME NEW E, IsFiniteSet(E), E \subseteq Int, E # {}, NEW M, M = {-x : x \in E}
  PROVE  /\ Min(M) = -Max(E) /\ Max(M) = -Min(E)
         /\ Min(E) \in Int /\ Max(E) \in Int
<1>1. PICK lo \in E, hi \in E : /\ lo = Min(E) /\ hi = Max(E) /\ lo \in Int /\ hi \in Int
                                /\ \A y \in E : lo <= y /\ y <= hi
  BY ExtremesOf
<1>2. -hi \in M /\ -lo \in M /\ M \subseteq Int
  BY <1>1
<1>3. \A y \in M : -hi <= y /\ y <= -lo
  BY <1>1
<1>4. Min(M) \in M /\ \A y \in M : Min(M) <= y
  BY <1>2, <1>3 DEF Min
<1>5. Max(M) \in M /\ \A y \in M : Max(M) >= y
  <2>1. \A y \in M : -lo >= y
    BY <1>1, <1>3
  <2>2. QED BY <1>2, <2>1 DEF Max
<1>6. Min(M) = -hi
  <2>1. PICK a \in Int : a = Min(M) /\ a <= -hi /\ -hi <= a
    BY <1>2, <1>3, <1>4
  <2>2. QED BY <1>1, <2>1
<1>7. Max(M) = -lo
  <2>1. PICK a \in Int : a = Max(M) /\ a >= -lo /\ a <= -lo
    BY <1>2, <1>3, <1>5
  <2>2. QED BY <1>1, <2>1
<1>8. QED BY <1>1, <1>6, <1>7

(* The buckets before the one at i, at most w of them.                     *)
First(i, w) == Max({1, i - w})
Precede(s, bk, n, i, w) ==
    LET lo == First(i, w) IN
    /\ lo \in 1..i /\ s \in Seq({bk[k] : k \in 1..n}) /\ Len(s) = i - lo /\ DOMAIN s = 1..(i - lo)
    /\ \A k \in 1..(i - lo) : lo + k - 1 \in 1..n /\ s[k] = bk[lo + k - 1]

LEMMA BucketsBefore ==
  ASSUME NEW n \in Nat, NEW bk, DOMAIN bk = 1..n, NEW i \in 1..n, NEW w \in Nat
  PROVE  Precede(SubSeq(bk, First(i, w), i - 1), bk, n, i, w)
<1>1. PICK lo : lo = First(i, w) /\ lo = Max({1, i - w})
  BY DEF First
<1>2. lo \in 1..i
  <2>1. PICK d : d = i - w /\ d \in Int /\ d <= i
    OBVIOUS
  <2>2. Max({1, d}) = IF 1 >= d THEN 1 ELSE d
    <3>1. d \in Int /\ 1 \in Int
      BY <2>1
    <3>2. QED BY <3>1, OfTwo
  <2>3. QED BY <1>1, <2>1, <2>2
<1>3. PICK S : S = {bk[k] : k \in 1..n}
  OBVIOUS
<1>4. PICK j, s : j = i - 1 /\ s = SubSeq(bk, lo, j)
  OBVIOUS
<1>5. j \in Int /\ lo \in Int /\ j - lo + 1 = i - lo /\ i - lo \in Nat
  BY <1>2, <1>4
<1>6. \A k \in lo..j : bk[k] \in S
  BY <1>2, <1>3, <1>4
<1>7. /\ s \in Seq(S) /\ Len(s) = (IF lo <= j THEN j - lo + 1 ELSE 0)
      /\ \A k \in 1..(j - lo + 1) : s[k] = bk[lo + k - 1]
  BY <1>4, <1>5, <1>6, SubSeqProperties
<1>8. Len(s) = i - lo
  BY <1>2, <1>4, <1>5, <1>7
<1>9. DOMAIN s = 1..(i - lo)
  BY <1>7, <1>8
<1>10. \A k \in 1..(i - lo) : lo + k - 1 \in 1..n
  BY <1>2
<1>11. \A k \in 1..(i - lo) : s[k] = bk[lo + k - 1]
  BY <1>5, <1>7
<1>12. s \in Seq({bk[k] : k \in 1..n})
  BY <1>3, <1>7
<1>13. QED BY <1>1, <1>2, <1>4, <1>8, <1>9, <1>10, <1>11, <1>12 DEF Precede

Mirrored(bk) == [k \in DOMAIN bk |-> Mirror(bk[k])]
Buckets(win, n) == n \in Nat /\ Len(win) = n /\ DOMAIN win = 1..n /\ \A k \in 1..n : IsBucket(win[k])
Images(win, wn) == Len(wn) = Len(win) /\ DOMAIN wn = DOMAIN win /\ \A k \in DOMAIN win : wn[k] = Mirror(win[k])

LEMMA MirroredContext ==
  ASSUME NEW bk, WellFormed(bk), NEW i \in DOMAIN bk
  PROVE  /\ \E n \in Nat : Buckets(Context(bk, i), n)
         /\ Images(Context(bk, i), Context(Mirrored(bk), i))
<1>1. PICK n, mk : n = Len(bk) /\ mk = Mirrored(bk)
  OBVIOUS
<1>2. n \in Nat /\ DOMAIN bk = 1..n /\ \A k \in 1..n : IsBucket(bk[k])
  BY <1>1, BucketTimes DEF WellFormed
<1>3. DOMAIN mk = 1..n /\ \A k \in 1..n : mk[k] = Mirror(bk[k])
  BY <1>1, <1>2 DEF Mirrored
<1>4. SweepWindow \in Nat /\ i \in 1..n
  BY <1>2, StateEngineAssumption
<1>5. PICK lo, win, wn : /\ lo = First(i, SweepWindow) /\ lo = Max({1, i - SweepWindow})
                         /\ win = SubSeq(bk, lo, i - 1) /\ wn = SubSeq(mk, lo, i - 1)
  BY DEF First
<1>6. Precede(win, bk, n, i, SweepWindow) /\ Precede(wn, mk, n, i, SweepWindow)
  BY <1>2, <1>3, <1>4, <1>5, BucketsBefore
<1>7. lo \in 1..i
  BY <1>5, <1>6 DEF Precede
<1>8. /\ Len(win) = i - lo /\ DOMAIN win = 1..(i - lo)
      /\ \A k \in 1..(i - lo) : lo + k - 1 \in 1..n /\ win[k] = bk[lo + k - 1]
  BY <1>5, <1>6 DEF Precede
<1>9. /\ Len(wn) = i - lo /\ DOMAIN wn = 1..(i - lo)
      /\ \A k \in 1..(i - lo) : wn[k] = mk[lo + k - 1]
  BY <1>5, <1>6 DEF Precede
<1>10. PICK p : p = i - lo /\ p \in Nat
  BY <1>4, <1>7
<1>11. \A k \in 1..p : IsBucket(win[k]) /\ wn[k] = Mirror(win[k])
  BY <1>2, <1>3, <1>8, <1>9, <1>10
<1>12. Buckets(win, p) /\ Images(win, wn)
  BY <1>8, <1>9, <1>10, <1>11 DEF Buckets, Images
<1>13. win = Context(bk, i) /\ wn = Context(mk, i)
  BY <1>5 DEF Context
<1>14. QED BY <1>1, <1>10, <1>12, <1>13

AddsRanges(g, win, S) ==
    g = [s \in SUBSET S |-> IF s = {} THEN 0
            ELSE win[CHOOSE x \in s : TRUE].high - win[CHOOSE x \in s : TRUE].low
                 + g[s \ {CHOOSE x \in s : TRUE}]]
RangeSum(win, S) == MapThenSumSet(LAMBDA k : win[k].high - win[k].low, S)
Ranges(win, S) == [k \in S |-> win[k].high - win[k].low]

LEMMA RangeSumIs ==
  ASSUME NEW win, NEW S, IsFiniteSet(S), \A k \in S : win[k].high - win[k].low \in Int
  PROVE  RangeSum(win, S) = SumOver(Ranges(win, S), S)
<1>1. PICK w : w = Ranges(win, S)
  OBVIOUS
<1>2. \A k \in S : w[k] \in Int /\ w[k] = win[k].high - win[k].low
  BY <1>1 DEF Ranges
<1>3. PICK h : Sums(h, w, S)
  BY <1>2, SumsExist
<1>4. Adds(h, w, S)
  BY <1>2, <1>3, SumsAdd
<1>5. \A s \in SUBSET S : s # {} => w[CHOOSE x \in s : TRUE]
                                      = win[CHOOSE x \in s : TRUE].high - win[CHOOSE x \in s : TRUE].low
  BY <1>2
<1>6. AddsRanges(h, win, S)
  BY <1>4, <1>5 DEF Adds, AddsRanges
<1>7. PICK g : g = CHOOSE it : AddsRanges(it, win, S)
  OBVIOUS
<1>8. RangeSum(win, S) = g[S]
  BY <1>7 DEF RangeSum, MapThenSumSet, MapThenFoldSet, AddsRanges
<1>9. AddsRanges(g, win, S)
  BY <1>6, <1>7
<1>10. Adds(g, w, S)
  <2>1. g = [s \in SUBSET S |-> g[s]] /\ g[{}] = 0
    BY <1>9 DEF AddsRanges
  <2>2. \A s \in SUBSET S : s # {} => g[s] = w[CHOOSE x \in s : TRUE] + g[s \ {CHOOSE x \in s : TRUE}]
    BY <1>5, <1>9 DEF AddsRanges
  <2>3. QED BY <2>1, <2>2, AddsFrom
<1>11. g[S] = h[S] /\ SumOver(w, S) = h[S]
  BY <1>2, <1>3, <1>10, SumIsUnique, SumIs
<1>12. QED BY <1>1, <1>8, <1>11

Highs(win) == {win[k].high : k \in DOMAIN win}
Lows(win) == {win[k].low : k \in DOMAIN win}

(* The window of the mirror image has the same ranges, and the swept       *)
(* levels of the other side.                                               *)
LEMMA MirroredWindow ==
  ASSUME NEW win, NEW n, Buckets(win, n), NEW wn, Images(win, wn), n # 0
  PROVE  /\ Max(Highs(wn)) = -Min(Lows(win)) /\ Min(Lows(wn)) = -Max(Highs(win))
         /\ Max(Highs(win)) \in Int /\ Min(Lows(win)) \in Int
         /\ RangeSum(wn, DOMAIN wn) = RangeSum(win, DOMAIN win)
<1>1. PICK S : S = 1..n
  OBVIOUS
<1>2. DOMAIN win = S /\ DOMAIN wn = S /\ IsFiniteSet(S) /\ S # {} /\ 1 \in S
  BY <1>1, FS_Interval DEF Buckets, Images
<1>3. \A k \in S : /\ win[k].high \in Int /\ win[k].low \in Int
                   /\ wn[k].high = -win[k].low /\ wn[k].low = -win[k].high
  <2>1. \A k \in S : IsBucket(win[k]) /\ wn[k] = Mirror(win[k])
    BY <1>1, <1>2 DEF Buckets, Images
  <2>2. QED BY <2>1, BucketFields, MirrorFields
<1>4. PICK H, L, G, K : H = Highs(win) /\ L = Lows(win) /\ G = Highs(wn) /\ K = Lows(wn)
  OBVIOUS
<1>5. /\ H = {win[k].high : k \in S} /\ L = {win[k].low : k \in S}
      /\ G = {wn[k].high : k \in S} /\ K = {wn[k].low : k \in S}
  BY <1>2, <1>4 DEF Highs, Lows
<1>6. H \subseteq Int /\ L \subseteq Int /\ H # {} /\ L # {}
  BY <1>2, <1>3, <1>5
<1>7. IsFiniteSet(H) /\ IsFiniteSet(L)
  <2>1. PICK f, g : f = [k \in S |-> win[k].high] /\ g = [k \in S |-> win[k].low]
    OBVIOUS
  <2>2. f \in Surjection(S, H) /\ g \in Surjection(S, L)
    BY <1>5, <2>1 DEF Surjection
  <2>3. QED BY <1>2, <2>2, FS_Surjection
<1>8. G = {-x : x \in L} /\ K = {-x : x \in H}
  BY <1>3, <1>5
<1>9. /\ Max(G) = -Min(L) /\ Min(K) = -Max(H)
      /\ Max(H) \in Int /\ Min(L) \in Int
  BY <1>6, <1>7, <1>8, NegatedExtremes
<1>10. RangeSum(wn, S) = RangeSum(win, S)
  <2>1. \A k \in S : win[k].high - win[k].low \in Int /\ wn[k].high - wn[k].low = win[k].high - win[k].low
    BY <1>3
  <2>2. \A k \in S : wn[k].high - wn[k].low \in Int
    BY <2>1
  <2>3. RangeSum(win, S) = SumOver(Ranges(win, S), S) /\ RangeSum(wn, S) = SumOver(Ranges(wn, S), S)
    BY <1>2, <2>1, <2>2, RangeSumIs
  <2>4. PICK v, w : v = Ranges(win, S) /\ w = Ranges(wn, S)
    OBVIOUS
  <2>5. \A k \in S : v[k] \in Int /\ w[k] = v[k]
    BY <2>1, <2>4 DEF Ranges
  <2>6. SumOver(w, S) = SumOver(v, S)
    BY <1>2, <2>5, SumSame
  <2>7. QED BY <2>3, <2>4, <2>6
<1>11. QED BY <1>2, <1>4, <1>9, <1>10

(* What the scores read of the mirror image.                               *)
Opposite(w, m) ==
    /\ m.vol \in Nat /\ w.vol = m.vol
    /\ m.delta \in Int /\ w.delta = -m.delta
    /\ w.doi = m.doi /\ w.liqs = m.liqs
    /\ m.rng \in Nat /\ m.rng > 0 /\ w.rng = m.rng
    /\ m.move \in Int /\ w.move = -m.move
    /\ m.pocPos \in Int /\ (m.move # 0 => w.pocPos = m.rng - m.pocPos)
    /\ m.prevHigh \in Int /\ m.prevLow \in Int
    /\ w.prevHigh = -m.prevLow /\ w.prevLow = -m.prevHigh
    /\ w.ranges = m.ranges

LEMMA MirroredMeasures ==
  ASSUME NEW b, IsBucket(b), NEW win, NEW n, Buckets(win, n), NEW wn, Images(win, wn)
  PROVE  Opposite(Measured(Mirror(b), wn), Measured(b, win))
<1>1. PICK c, m, w : c = Mirror(b) /\ m = Measured(b, win) /\ w = Measured(c, wn)
  OBVIOUS
<1>2. /\ c.open = -b.open /\ c.close = -b.close /\ c.high = -b.low /\ c.low = -b.high
      /\ c.poc = -b.poc /\ c.opL = b.opS /\ c.opS = b.opL /\ c.clL = b.clS /\ c.clS = b.clL
      /\ c.liqS = b.liqL /\ c.liqL = b.liqS
  BY <1>1, MirrorFields
<1>3. BuyVol(c) = SellVol(b) /\ SellVol(c) = BuyVol(b) /\ BuyVol(b) \in Nat /\ SellVol(b) \in Nat
  BY <1>1, MirrorVolumes, VolumesAre
<1>4. /\ b.open \in Int /\ b.close \in Int /\ b.high \in Int /\ b.low \in Int /\ b.poc \in Int
      /\ b.open \in b.low..b.high /\ b.close \in b.low..b.high
      /\ b.opL \in Nat /\ b.opS \in Nat /\ b.clL \in Nat /\ b.clS \in Nat /\ b.liqS \in Nat /\ b.liqL \in Nat
  BY DEF IsBucket
<1>5. m.vol \in Nat /\ w.vol = m.vol /\ m.delta \in Int /\ w.delta = -m.delta
  <2>1. /\ m.vol = BuyVol(b) + SellVol(b) /\ w.vol = BuyVol(c) + SellVol(c)
        /\ m.delta = BuyVol(b) - SellVol(b) /\ w.delta = BuyVol(c) - SellVol(c)
    BY <1>1 DEF Measured, Vol
  <2>2. QED BY <1>3, <2>1
<1>6. w.doi = m.doi /\ w.liqs = m.liqs
  <2>1. /\ m.doi = (b.opL + b.opS) - (b.clL + b.clS) /\ w.doi = (c.opL + c.opS) - (c.clL + c.clS)
        /\ m.liqs = b.liqS + b.liqL /\ w.liqs = c.liqS + c.liqL
    BY <1>1 DEF Measured
  <2>2. QED BY <1>2, <1>4, <2>1
<1>7. PICK d : d = b.high - b.low /\ d \in Nat /\ c.high - c.low = d
  BY <1>2, <1>4
<1>8. PICK r : r = (IF d >= 1 THEN d ELSE 1) /\ r \in Nat /\ r > 0 /\ Max({d, 1}) = r
  <2>1. Max({d, 1}) = IF d >= 1 THEN d ELSE 1
    <3>1. d \in Int /\ 1 \in Int
      BY <1>7
    <3>2. QED BY <3>1, OfTwo
  <2>2. QED BY <1>7, <2>1
<1>9. m.rng = r /\ w.rng = r
  <2>1. m.rng = Max({b.high - b.low, 1}) /\ w.rng = Max({c.high - c.low, 1})
    BY <1>1 DEF Measured
  <2>2. QED BY <1>7, <1>8, <2>1
<1>10. /\ m.move \in Int /\ w.move = -m.move
       /\ m.pocPos \in Int /\ (m.move # 0 => w.pocPos = r - m.pocPos)
  <2>1. /\ m.move = b.close - b.open /\ w.move = c.close - c.open
        /\ m.pocPos = b.poc - b.low /\ w.pocPos = c.poc - c.low
    BY <1>1 DEF Measured
  <2>2. m.move \in Int /\ w.move = -m.move /\ m.pocPos \in Int /\ w.pocPos = b.high - b.poc
    BY <1>2, <1>4, <2>1
  <2>3. m.move # 0 => r = b.high - b.low
    BY <1>4, <1>7, <1>8, <2>1
  <2>4. QED BY <1>4, <2>1, <2>2, <2>3
<1>11. win = <<>> <=> n = 0
  BY DEF Buckets
<1>12. wn = <<>> <=> n = 0
  BY DEF Buckets, Images
<1>13. /\ m.prevHigh \in Int /\ m.prevLow \in Int /\ w.prevHigh = -m.prevLow /\ w.prevLow = -m.prevHigh
       /\ w.ranges = m.ranges
  <2>1. CASE n = 0
    <3>1. /\ m.prevHigh = b.high /\ m.prevLow = b.low /\ w.prevHigh = c.high /\ w.prevLow = c.low
          /\ m.ranges = Max({b.high - b.low, 1}) /\ w.ranges = Max({c.high - c.low, 1})
      BY <1>1, <1>11, <1>12, <2>1 DEF Measured
    <3>2. QED BY <1>2, <1>4, <1>7, <3>1
  <2>2. CASE n # 0
    <3>1. /\ m.prevHigh = Max(Highs(win)) /\ m.prevLow = Min(Lows(win))
          /\ w.prevHigh = Max(Highs(wn)) /\ w.prevLow = Min(Lows(wn))
          /\ m.ranges = RangeSum(win, DOMAIN win) /\ w.ranges = RangeSum(wn, DOMAIN wn)
      BY <1>1, <1>11, <1>12, <2>2 DEF Measured, Highs, Lows, RangeSum
    <3>2. /\ Max(Highs(wn)) = -Min(Lows(win)) /\ Min(Lows(wn)) = -Max(Highs(win))
          /\ Max(Highs(win)) \in Int /\ Min(Lows(win)) \in Int
          /\ RangeSum(wn, DOMAIN wn) = RangeSum(win, DOMAIN win)
      BY <2>2, MirroredWindow
    <3>3. QED BY <3>1, <3>2
  <2>3. QED BY <2>1, <2>2
<1>14. QED BY <1>1, <1>5, <1>6, <1>8, <1>9, <1>10, <1>13 DEF Opposite

-----------------------------------------------------------------------------
(* The states and their scores. *)

StateNames ==
    {"STRONG BULL", "STRONG BEAR", "BULL EXHAUSTION", "BEAR EXHAUSTION", "BULL TRAP", "BEAR TRAP",
     "SHORT SQUEEZE", "LONG SQUEEZE", "LIQUIDITY COIL", "ROTATION", "CHOP", "NEUTRAL"}
Decided == StateNames \ {"LIQUIDITY COIL", "ROTATION", "CHOP", "NEUTRAL"}
Verdicts == [name : StateNames, score : Nat]

LEMMA GeoIsScore ==
  ASSUME NEW core, NEW soft, NEW l \in Nat, DOMAIN soft = 1..l, NEW n \in {3, 4, 6}
  PROVE  Geo(core, soft, n) \in Nat
<1>1. PICK z : z = {k \in DOMAIN soft : ~soft[k]}
  OBVIOUS
<1>2. IsFiniteSet(z)
  <2>1. IsFiniteSet(1..l)
    BY FS_Interval
  <2>2. QED BY <1>1, <2>1, FS_Subset
<1>3. PICK c \in Nat : c = Cardinality(z)
  BY <1>2, FS_CardinalityType
<1>4. (12 * c) \div n \in Nat
  <2>1. PICK x \in Nat : x = 12 * c
    BY <1>3
  <2>2. x \div 3 \in Nat /\ x \div 4 \in Nat /\ x \div 6 \in Nat
    BY <2>1
  <2>3. QED BY <2>1, <2>2
<1>5. Geo(core, soft, n) = IF core THEN (12 * c) \div n ELSE Never
  BY <1>1, <1>3 DEF Geo
<1>6. CASE core
  BY <1>4, <1>5, <1>6
<1>7. CASE ~core
  BY <1>5, <1>7 DEF Never
<1>8. QED BY <1>6, <1>7

LEMMA StateIsVerdict ==
  ASSUME NEW x \in StateNames, NEW y \in Nat
  PROVE  State(x, y) \in Verdicts /\ State(x, y).name = x /\ State(x, y).score = y
BY DEF State, Verdicts

AllDecided(s) == s \in Seq(Verdicts) /\ \A k \in 1..Len(s) : s[k].name \in Decided

LEMMA OneDecided ==
  ASSUME NEW x \in Decided, NEW y \in Nat
  PROVE  /\ State(x, y) \in Verdicts /\ State(x, y).name \in Decided
         /\ AllDecided(<<State(x, y)>>)
<1>1. PICK v : v = State(x, y)
  OBVIOUS
<1>2. v \in Verdicts /\ v.name \in Decided
  <2>1. x \in StateNames
    BY DEF Decided
  <2>2. QED BY <1>1, <2>1, StateIsVerdict
<1>3. <<v>> \in Seq(Verdicts) /\ Len(<<v>>) = 1 /\ \A k \in 1..1 : <<v>>[k] = v
  BY <1>2
<1>4. QED BY <1>1, <1>2, <1>3 DEF AllDecided

LEMMA NoneDecided == AllDecided(<<>>)
BY DEF AllDecided

LEMMA OneSoft ==
  ASSUME NEW x
  PROVE  DOMAIN <<x>> = 1..1
OBVIOUS

LEMMA DecidedNames ==
  \A x \in {"STRONG BULL", "STRONG BEAR", "BULL EXHAUSTION", "BEAR EXHAUSTION", "BULL TRAP", "BEAR TRAP",
            "SHORT SQUEEZE", "LONG SQUEEZE"} : x \in Decided
BY DEF StateNames, Decided

LEMMA FirstStatesAre ==
  ASSUME NEW b, NEW m, NEW bm, NEW sm
  PROVE  /\ Strong(b, m, bm, sm) \in Verdicts /\ Strong(b, m, bm, sm).name \in Decided
         /\ Exhausted(b, m, bm, sm) \in Verdicts /\ Exhausted(b, m, bm, sm).name \in Decided
<1>1. "STRONG BULL" \in Decided /\ "STRONG BEAR" \in Decided
      /\ "BULL EXHAUSTION" \in Decided /\ "BEAR EXHAUSTION" \in Decided
  BY DecidedNames
<1>2. Strong(b, m, bm, sm) \in Verdicts /\ Strong(b, m, bm, sm).name \in Decided
  <2>1. PICK x, y : /\ x = Geo(Buys(m) /\ Ramp(b.opL, m.vol, 10, 50) /\ ~Spent(bm), <<Fast(b)>>, 4)
                    /\ y = Geo(Sells(m) /\ Ramp(b.opS, m.vol, 10, 50) /\ ~Spent(sm), <<Fast(b)>>, 4)
    OBVIOUS
  <2>2. x \in Nat /\ y \in Nat
    BY <2>1, OneSoft, GeoIsScore
  <2>3. \/ Strong(b, m, bm, sm) = State("STRONG BULL", x)
        \/ Strong(b, m, bm, sm) = State("STRONG BEAR", y)
    BY <2>1 DEF Strong
  <2>4. /\ State("STRONG BULL", x) \in Verdicts /\ State("STRONG BULL", x).name \in Decided
        /\ State("STRONG BEAR", y) \in Verdicts /\ State("STRONG BEAR", y).name \in Decided
    BY <1>1, <2>2, OneDecided
  <2>5. QED BY <2>3, <2>4
<1>3. Exhausted(b, m, bm, sm) \in Verdicts /\ Exhausted(b, m, bm, sm).name \in Decided
  <2>1. PICK x, y : /\ x = Geo(Hot(bm) /\ (Drain(m) \/ Ramp(b.clS, m.vol, 15, 50)), <<Buys(m)>>, 3)
                    /\ y = Geo(Hot(sm) /\ (Drain(m) \/ Ramp(b.clL, m.vol, 15, 50)), <<Sells(m)>>, 3)
    OBVIOUS
  <2>2. x \in Nat /\ y \in Nat
    BY <2>1, OneSoft, GeoIsScore
  <2>3. \/ Exhausted(b, m, bm, sm) = State("BULL EXHAUSTION", x)
        \/ Exhausted(b, m, bm, sm) = State("BEAR EXHAUSTION", y)
    BY <2>1 DEF Exhausted
  <2>4. /\ State("BULL EXHAUSTION", x) \in Verdicts /\ State("BULL EXHAUSTION", x).name \in Decided
        /\ State("BEAR EXHAUSTION", y) \in Verdicts /\ State("BEAR EXHAUSTION", y).name \in Decided
    BY <1>1, <2>2, OneDecided
  <2>5. QED BY <2>3, <2>4
<1>4. QED BY <1>2, <1>3

LEMMA TrapIs ==
  ASSUME NEW b, NEW m, NEW bm, NEW sm
  PROVE  AllDecided(Trap(b, m, bm, sm))
<1>1. "BULL TRAP" \in Decided /\ "BEAR TRAP" \in Decided
  BY DecidedNames
<1>2. PICK s, t : /\ s = <<Ramp(b.high - m.prevHigh, m.rng, 3, 50), Ramp(m.pocPos, m.rng, 50, 85), Hot(bm)>>
                  /\ t = <<Ramp(m.prevLow - b.low, m.rng, 3, 50), Ramp(m.rng - m.pocPos, m.rng, 50, 85), Hot(sm)>>
  OBVIOUS
<1>3. DOMAIN s = 1..3 /\ DOMAIN t = 1..3
  BY <1>2
<1>4. PICK x, y :
        /\ x = Geo(Buys(m) /\ Ramp(Trapped(b, m.move), m.vol, 5, 30) /\ Ramp(-m.move, m.rng, 5, 50), s, 6)
        /\ y = Geo(Sells(m) /\ Ramp(Trapped(b, m.move), m.vol, 5, 30) /\ Ramp(m.move, m.rng, 5, 50), t, 6)
  OBVIOUS
<1>5. x \in Nat /\ y \in Nat
  BY <1>3, <1>4, GeoIsScore
<1>6. \/ Trap(b, m, bm, sm) = <<State("BULL TRAP", x)>>
      \/ Trap(b, m, bm, sm) = <<State("BEAR TRAP", y)>>
      \/ Trap(b, m, bm, sm) = <<>>
  BY <1>2, <1>4 DEF Trap
<1>7. AllDecided(<<State("BULL TRAP", x)>>) /\ AllDecided(<<State("BEAR TRAP", y)>>)
  BY <1>1, <1>5, OneDecided
<1>8. QED BY <1>6, <1>7, NoneDecided

LEMMA SqueezedIsScore ==
  ASSUME NEW b, NEW m, NEW liq, NEW reclaim
  PROVE  Squeezed(b, m, liq, reclaim) \in Nat
<1>1. PICK x : x = Geo(Ramp(liq, m.vol, 3, 20) /\ Drain(m) /\ Ramp(b.vel, 10, 130, 300), <<reclaim>>, 4)
  OBVIOUS
<1>2. x \in Nat
  BY <1>1, OneSoft, GeoIsScore
<1>3. Squeezed(b, m, liq, reclaim) = SqueezeFloor(liq, m.vol, x)
  BY <1>1 DEF Squeezed
<1>4. SqueezeFloor(liq, m.vol, x) = 0 \/ SqueezeFloor(liq, m.vol, x) = x
  BY DEF SqueezeFloor
<1>5. QED BY <1>2, <1>3, <1>4

LEMMA SqueezeIs ==
  ASSUME NEW b, NEW m
  PROVE  AllDecided(Squeeze(b, m))
<1>1. "SHORT SQUEEZE" \in Decided /\ "LONG SQUEEZE" \in Decided
  BY DecidedNames
<1>2. PICK x, y : /\ x = Squeezed(b, m, b.liqS, ReclaimUp(b, m))
                  /\ y = Squeezed(b, m, b.liqL, ReclaimDown(b, m))
  OBVIOUS
<1>3. x \in Nat /\ y \in Nat
  BY <1>2, SqueezedIsScore
<1>4. \/ Squeeze(b, m) = <<State("SHORT SQUEEZE", x)>>
      \/ Squeeze(b, m) = <<State("LONG SQUEEZE", y)>>
      \/ Squeeze(b, m) = <<>>
  BY <1>2 DEF Squeeze
<1>5. AllDecided(<<State("SHORT SQUEEZE", x)>>) /\ AllDecided(<<State("LONG SQUEEZE", y)>>)
  BY <1>1, <1>3, OneDecided
<1>6. QED BY <1>4, <1>5, NoneDecided

LEMMA LastStatesAre ==
  ASSUME NEW b, NEW m, NEW n, NEW bm, NEW sm
  PROVE  /\ Coil(b, m, n) \in Seq(Verdicts) /\ Rotation(b, m) \in Verdicts
         /\ Chop(b, m, bm, sm) \in Seq(Verdicts) /\ State("NEUTRAL", Neutral) \in Verdicts
<1>1. /\ "LIQUIDITY COIL" \in StateNames /\ "ROTATION" \in StateNames /\ "CHOP" \in StateNames
      /\ "NEUTRAL" \in StateNames /\ Neutral \in Nat
  BY DEF StateNames, Neutral
<1>2. PICK x, y, z :
        /\ x = Geo(~Ramp(m.rng * Max({1, n}), Max({1, m.ranges}), 60, 120)
                     /\ Ramp(m.liqs, m.vol, 3, 15) /\ Calm(m), <<>>, 3)
        /\ y = Geo(Ramp(b.churn, m.vol, 55, 90) /\ ~Ramp(AbsOf(m.doi), m.vol, 5, 22)
                     /\ Calm(m) /\ ~Moved(m), <<>>, 3)
        /\ z = Geo(~Fast(b) /\ Calm(m) /\ ~Ramp(m.liqs, m.vol, 3, 15) /\ ~Hot(Max({bm, sm}))
                     /\ ~Ramp(m.doi, m.vol, 8, 18) /\ ~Moved(m), <<>>, 4)
  OBVIOUS
<1>3. x \in Nat /\ y \in Nat /\ z \in Nat
  <2>1. DOMAIN <<>> = 1..0 /\ 0 \in Nat
    OBVIOUS
  <2>2. QED BY <1>2, <2>1, GeoIsScore
<1>4. /\ Coil(b, m, n) = <<State("LIQUIDITY COIL", x)>> \/ Coil(b, m, n) = <<>>
      /\ Rotation(b, m) = State("ROTATION", y)
      /\ Chop(b, m, bm, sm) = <<State("CHOP", z)>> \/ Chop(b, m, bm, sm) = <<>>
  BY <1>2 DEF Coil, Rotation, Chop
<1>5. PICK c, r, h, e : /\ c = State("LIQUIDITY COIL", x) /\ r = State("ROTATION", y) /\ h = State("CHOP", z)
                        /\ e = State("NEUTRAL", Neutral)
  OBVIOUS
<1>6. c \in Verdicts /\ r \in Verdicts /\ h \in Verdicts /\ e \in Verdicts
  BY <1>1, <1>3, <1>5, StateIsVerdict
<1>7. <<c>> \in Seq(Verdicts) /\ <<h>> \in Seq(Verdicts) /\ <<>> \in Seq(Verdicts)
  BY <1>6
<1>8. QED BY <1>4, <1>5, <1>6, <1>7

-----------------------------------------------------------------------------
(* The highest score wins, the first of several. *)

LEMMA WinnerIs ==
  ASSUME NEW s \in Seq(Verdicts), s # <<>>
  PROVE  \E x \in 1..Len(s) :
            /\ Winner(s) = s[x]
            /\ \A j \in 1..Len(s) : s[x].score <= s[j].score
            /\ \A y \in 1..Len(s) : (\A j \in 1..Len(s) : s[y].score <= s[j].score) => x <= y
            /\ x = Min({k \in DOMAIN s : \A j \in DOMAIN s : s[k].score <= s[j].score})
<1>1. PICK n : n = Len(s) /\ n \in Nat /\ n # 0 /\ DOMAIN s = 1..n
  OBVIOUS
<1>2. \A k \in 1..n : s[k].score \in Nat
  <2>1. \A k \in 1..n : s[k] \in Verdicts
    BY <1>1
  <2>2. QED BY <2>1 DEF Verdicts
<1>3. PICK E : E = {s[k].score : k \in 1..n}
  OBVIOUS
<1>4. IsFiniteSet(1..n) /\ IsFiniteSet(E)
  <2>1. IsFiniteSet(1..n)
    BY <1>1, FS_Interval
  <2>2. PICK f : f = [k \in 1..n |-> s[k].score]
    OBVIOUS
  <2>3. f \in Surjection(1..n, E)
    BY <1>3, <2>2 DEF Surjection
  <2>4. QED BY <2>1, <2>3, FS_Surjection
<1>5. E \subseteq Int /\ E # {}
  <2>1. 1 \in 1..n
    BY <1>1
  <2>2. QED BY <1>2, <1>3, <2>1
<1>6. PICK z \in E : \A y \in E : z <= y
  BY <1>4, <1>5, ExtremesOf
<1>7. PICK K : K = {k \in 1..n : \A j \in 1..n : s[k].score <= s[j].score}
  OBVIOUS
<1>8. K # {}
  <2>1. PICK k \in 1..n : z = s[k].score
    BY <1>3, <1>6
  <2>2. \A j \in 1..n : s[k].score <= s[j].score
    BY <1>3, <1>6, <2>1
  <2>3. QED BY <1>7, <2>2
<1>9. IsFiniteSet(K) /\ K \subseteq Int
  <2>1. K \subseteq 1..n /\ 1..n \subseteq Int
    BY <1>1, <1>7
  <2>2. QED BY <1>4, <2>1, FS_Subset
<1>10. Min(K) \in K /\ \A y \in K : Min(K) <= y
  BY <1>8, <1>9, ExtremesOf
<1>11. K = {k \in DOMAIN s : \A j \in DOMAIN s : s[k].score <= s[j].score}
  BY <1>1, <1>7
<1>12. PICK x : x = Min(K) /\ x \in 1..n
  BY <1>7, <1>10
<1>13. Winner(s) = s[x]
  BY <1>11, <1>12 DEF Winner
<1>14. \A j \in 1..n : s[x].score <= s[j].score
  BY <1>7, <1>10, <1>12
<1>15. \A y \in 1..n : (\A j \in 1..n : s[y].score <= s[j].score) => x <= y
  BY <1>7, <1>10, <1>12
<1>16. QED BY <1>1, <1>11, <1>12, <1>13, <1>14, <1>15

(* Two lists of verdicts that are each other's mirror image.               *)
Match(x, y) == y.name = MirrorState(x.name) /\ y.score = x.score
Matches(s, t) ==
    /\ s \in Seq(Verdicts) /\ t \in Seq(Verdicts) /\ Len(t) = Len(s)
    /\ \A k \in 1..Len(s) : Match(s[k], t[k])

LEMMA MirrorStateTwice ==
  ASSUME NEW x \in StateNames
  PROVE  MirrorState(x) \in StateNames /\ MirrorState(MirrorState(x)) = x
BY DEF StateNames, MirrorState

LEMMA MatchesBack ==
  ASSUME NEW s, NEW t, Matches(s, t)
  PROVE  Matches(t, s)
<1>1. s \in Seq(Verdicts) /\ t \in Seq(Verdicts) /\ Len(t) = Len(s)
  BY DEF Matches
<1>2. ASSUME NEW k \in 1..Len(t) PROVE Match(t[k], s[k])
  <2>1. s[k] \in Verdicts /\ Match(s[k], t[k])
    BY <1>1, <1>2 DEF Matches
  <2>2. s[k].name \in StateNames
    BY <2>1 DEF Verdicts
  <2>3. QED BY <2>1, <2>2, MirrorStateTwice DEF Match
<1>3. QED BY <1>1, <1>2 DEF Matches

LEMMA MatchesOne ==
  ASSUME NEW x \in Verdicts, NEW y \in Verdicts, Match(x, y)
  PROVE  Matches(<<x>>, <<y>>)
BY DEF Matches

LEMMA MatchesNone == Matches(<<>>, <<>>)
BY DEF Matches

LEMMA MatchesOn ==
  ASSUME NEW s, NEW t, Matches(s, t), NEW p, NEW q, Matches(p, q)
  PROVE  Matches(s \o p, t \o q)
<1>1. /\ s \in Seq(Verdicts) /\ t \in Seq(Verdicts) /\ Len(t) = Len(s)
      /\ p \in Seq(Verdicts) /\ q \in Seq(Verdicts) /\ Len(q) = Len(p)
  BY DEF Matches
<1>2. PICK n : n = Len(s) /\ n \in Nat
  BY <1>1
<1>3. PICK l : l = Len(p) /\ l \in Nat
  BY <1>1
<1>4. PICK u : u = s \o p /\ u \in Seq(Verdicts) /\ Len(u) = n + l
              /\ \A k \in 1..(n + l) : u[k] = IF k <= n THEN s[k] ELSE p[k - n]
  <2>1. s \o p \in Seq(Verdicts) /\ Len(s \o p) = n + l
    BY <1>1, <1>2, <1>3
  <2>2. \A k \in 1..(n + l) : (s \o p)[k] = IF k <= n THEN s[k] ELSE p[k - n]
    BY <1>1, <1>2, <1>3
  <2>3. QED BY <2>1, <2>2
<1>5. PICK v : v = t \o q /\ v \in Seq(Verdicts) /\ Len(v) = n + l
              /\ \A k \in 1..(n + l) : v[k] = IF k <= n THEN t[k] ELSE q[k - n]
  <2>1. t \in Seq(Verdicts) /\ q \in Seq(Verdicts) /\ n = Len(t) /\ l = Len(q) /\ n \in Nat /\ l \in Nat
    BY <1>1, <1>2, <1>3
  <2>2. t \o q \in Seq(Verdicts) /\ Len(t \o q) = n + l
    BY <2>1
  <2>3. \A k \in 1..(n + l) : (t \o q)[k] = IF k <= n THEN t[k] ELSE q[k - n]
    BY <2>1
  <2>4. QED BY <2>2, <2>3
<1>6. ASSUME NEW k \in 1..(n + l) PROVE Match(u[k], v[k])
  <2>1. CASE k <= n
    <3>1. k \in 1..n
      BY <1>2, <2>1
    <3>2. u[k] = s[k] /\ v[k] = t[k]
      BY <1>4, <1>5, <2>1
    <3>3. Match(s[k], t[k])
      BY <1>2, <3>1 DEF Matches
    <3>4. QED BY <3>2, <3>3
  <2>2. CASE ~(k <= n)
    <3>1. PICK j \in 1..l : j = k - n
      <4>1. k - n \in 1..l
        BY <1>2, <1>3, <2>2
      <4>2. QED BY <4>1
    <3>2. u[k] = p[j] /\ v[k] = q[j]
      BY <1>4, <1>5, <2>2, <3>1
    <3>3. Match(p[j], q[j])
      BY <1>3, <3>1 DEF Matches
    <3>4. QED BY <3>2, <3>3
  <2>3. QED BY <2>1, <2>2
<1>7. QED BY <1>4, <1>5, <1>6 DEF Matches

LEMMA WinnersMatch ==
  ASSUME NEW s, NEW t, Matches(s, t), s # <<>>
  PROVE  Match(Winner(s), Winner(t))
<1>1. PICK n : /\ s \in Seq(Verdicts) /\ t \in Seq(Verdicts) /\ Len(s) = n /\ Len(t) = n
               /\ n \in Nat /\ n # 0 /\ DOMAIN s = 1..n /\ DOMAIN t = 1..n
  BY DEF Matches
<1>2. \A k \in 1..n : t[k].score = s[k].score /\ Match(s[k], t[k])
  BY <1>1 DEF Matches, Match
<1>3. t # <<>>
  BY <1>1
<1>4. PICK x \in 1..n : /\ Winner(s) = s[x]
                       /\ x = Min({k \in DOMAIN s : \A j \in DOMAIN s : s[k].score <= s[j].score})
  BY <1>1, WinnerIs
<1>5. PICK y \in 1..n : /\ Winner(t) = t[y]
                       /\ y = Min({k \in DOMAIN t : \A j \in DOMAIN t : t[k].score <= t[j].score})
  BY <1>1, <1>3, WinnerIs
<1>6. {k \in DOMAIN s : \A j \in DOMAIN s : s[k].score <= s[j].score}
        = {k \in DOMAIN t : \A j \in DOMAIN t : t[k].score <= t[j].score}
  BY <1>1, <1>2
<1>7. x = y
  BY <1>4, <1>5, <1>6
<1>8. QED BY <1>2, <1>4, <1>5, <1>7

-----------------------------------------------------------------------------
(* A bucket and its mirror image have the same factors, side for side.     *)

Facing(b, m, c, w) ==
    /\ Opposite(w, m) /\ m.move # 0
    /\ b.high \in Int /\ b.low \in Int /\ b.close \in Int
    /\ c.high = -b.low /\ c.low = -b.high /\ c.close = -b.close
    /\ c.opL = b.opS /\ c.opS = b.opL /\ c.clL = b.clS /\ c.clS = b.clL
    /\ c.liqS = b.liqL /\ c.liqL = b.liqS /\ c.churn = b.churn /\ c.vel = b.vel

LEMMA FacingBack ==
  ASSUME NEW b, NEW m, NEW c, NEW w, Facing(b, m, c, w)
  PROVE  Facing(c, w, b, m)
<1>1. Opposite(m, w) /\ w.move # 0
  <2>1. Opposite(w, m) /\ m.move # 0
    BY DEF Facing
  <2>2. /\ m.vol \in Nat /\ w.vol = m.vol /\ w.doi = m.doi /\ w.liqs = m.liqs
        /\ m.rng \in Nat /\ m.rng > 0 /\ w.rng = m.rng /\ w.ranges = m.ranges
    BY <2>1 DEF Opposite
  <2>3. w.delta \in Int /\ m.delta = -w.delta /\ w.move \in Int /\ m.move = -w.move /\ w.move # 0
    <3>1. m.delta \in Int /\ w.delta = -m.delta /\ m.move \in Int /\ w.move = -m.move
      BY <2>1 DEF Opposite
    <3>2. QED BY <2>1, <3>1
  <2>4. w.pocPos \in Int /\ m.pocPos = m.rng - w.pocPos
    <3>1. m.pocPos \in Int /\ w.pocPos = m.rng - m.pocPos
      BY <2>1 DEF Opposite
    <3>2. QED BY <2>2, <3>1
  <2>5. w.prevHigh \in Int /\ w.prevLow \in Int /\ m.prevHigh = -w.prevLow /\ m.prevLow = -w.prevHigh
    <3>1. m.prevHigh \in Int /\ m.prevLow \in Int /\ w.prevHigh = -m.prevLow /\ w.prevLow = -m.prevHigh
      BY <2>1 DEF Opposite
    <3>2. QED BY <3>1
  <2>6. QED BY <2>2, <2>3, <2>4, <2>5 DEF Opposite
<1>2. c.high \in Int /\ c.low \in Int /\ c.close \in Int /\ b.high = -c.low /\ b.low = -c.high /\ b.close = -c.close
  <2>1. /\ b.high \in Int /\ b.low \in Int /\ b.close \in Int
        /\ c.high = -b.low /\ c.low = -b.high /\ c.close = -b.close
    BY DEF Facing
  <2>2. QED BY <2>1
<1>3. /\ b.opL = c.opS /\ b.opS = c.opL /\ b.clL = c.clS /\ b.clS = c.clL
      /\ b.liqS = c.liqL /\ b.liqL = c.liqS /\ b.churn = c.churn /\ b.vel = c.vel
  BY DEF Facing
<1>4. QED BY <1>1, <1>2, <1>3 DEF Facing

LEMMA AbsOfNegated ==
  ASSUME NEW x \in Int
  PROVE  AbsOf(-x) = AbsOf(x)
BY DEF AbsOf

LEMMA SameFactors ==
  ASSUME NEW b, NEW m, NEW c, NEW w, Facing(b, m, c, w)
  PROVE  /\ Sells(w) = Buys(m) /\ Buys(w) = Sells(m) /\ Calm(w) = Calm(m) /\ Moved(w) = Moved(m)
         /\ Drain(w) = Drain(m) /\ Fast(c) = Fast(b)
         /\ (Inside(c, w) <=> Inside(b, m)) /\ ReclaimDown(c, w) = ReclaimUp(b, m)
<1>1. /\ m.delta \in Int /\ w.delta = -m.delta /\ w.vol = m.vol /\ w.doi = m.doi
      /\ m.move \in Int /\ w.move = -m.move /\ w.rng = m.rng
      /\ m.prevHigh \in Int /\ m.prevLow \in Int /\ w.prevHigh = -m.prevLow /\ w.prevLow = -m.prevHigh
  BY DEF Facing, Opposite
<1>2. /\ b.high \in Int /\ b.low \in Int /\ b.close \in Int
      /\ c.high = -b.low /\ c.low = -b.high /\ c.close = -b.close /\ c.vel = b.vel
  BY DEF Facing
<1>3. -w.delta = m.delta /\ -m.delta = w.delta
  BY <1>1
<1>4. Sells(w) = Buys(m) /\ Buys(w) = Sells(m)
  BY <1>1, <1>3 DEF Buys, Sells
<1>5. AbsOf(w.delta) = AbsOf(m.delta) /\ AbsOf(w.move) = AbsOf(m.move)
  BY <1>1, AbsOfNegated
<1>6. Calm(w) = Calm(m) /\ Moved(w) = Moved(m)
  BY <1>1, <1>5 DEF Calm, Moved
<1>7. Drain(w) = Drain(m) /\ Fast(c) = Fast(b)
  BY <1>1, <1>2 DEF Drain, Fast
<1>8. Inside(c, w) <=> Inside(b, m)
  BY <1>1, <1>2 DEF Inside
<1>9. ReclaimDown(c, w) = ReclaimUp(b, m)
  <2>1. c.high > w.prevHigh <=> b.low < m.prevLow
    BY <1>1, <1>2
  <2>2. w.prevHigh - c.close = b.close - m.prevLow
    BY <1>1, <1>2
  <2>3. Ramp(w.prevHigh - c.close, w.rng, 0, 30) = Ramp(b.close - m.prevLow, m.rng, 0, 30)
    BY <1>1, <2>2
  <2>4. QED BY <2>1, <2>3 DEF ReclaimDown, ReclaimUp
<1>10. QED BY <1>4, <1>6, <1>7, <1>8, <1>9

LEMMA MirrorNames ==
  /\ MirrorState("STRONG BULL") = "STRONG BEAR" /\ MirrorState("BULL EXHAUSTION") = "BEAR EXHAUSTION"
  /\ MirrorState("BEAR TRAP") = "BULL TRAP" /\ MirrorState("SHORT SQUEEZE") = "LONG SQUEEZE"
  /\ MirrorState("LIQUIDITY COIL") = "LIQUIDITY COIL" /\ MirrorState("ROTATION") = "ROTATION"
  /\ MirrorState("CHOP") = "CHOP" /\ MirrorState("NEUTRAL") = "NEUTRAL"
BY DEF MirrorState

LEMMA MatchStates ==
  ASSUME NEW x \in StateNames, NEW y \in StateNames, y = MirrorState(x), NEW n \in Nat
  PROVE  Match(State(x, n), State(y, n)) /\ Matches(<<State(x, n)>>, <<State(y, n)>>)
<1>1. PICK u, v : u = State(x, n) /\ v = State(y, n)
  OBVIOUS
<1>2. u \in Verdicts /\ v \in Verdicts /\ Match(u, v)
  BY <1>1, StateIsVerdict DEF Match
<1>3. Matches(<<u>>, <<v>>)
  BY <1>2, MatchesOne
<1>4. QED BY <1>1, <1>2, <1>3

LEMMA StrongMatches ==
  ASSUME NEW b, NEW m, NEW c, NEW w, Facing(b, m, c, w), m.move > 0, NEW bm, NEW sm
  PROVE  Match(Strong(b, m, bm, sm), Strong(c, w, sm, bm))
<1>1. PICK x : x = Geo(Buys(m) /\ Ramp(b.opL, m.vol, 10, 50) /\ ~Spent(bm), <<Fast(b)>>, 4)
  OBVIOUS
<1>2. x \in Nat
  BY <1>1, OneSoft, GeoIsScore
<1>3. m.move >= 0 /\ ~(w.move >= 0) /\ w.vol = m.vol /\ c.opS = b.opL
  <2>1. m.move \in Int /\ w.move = -m.move /\ w.vol = m.vol /\ c.opS = b.opL
    BY DEF Facing, Opposite
  <2>2. QED BY <2>1
<1>4. Sells(w) = Buys(m) /\ Fast(c) = Fast(b)
  BY SameFactors
<1>5. x = Geo(Sells(w) /\ Ramp(c.opS, w.vol, 10, 50) /\ ~Spent(bm), <<Fast(c)>>, 4)
  BY <1>1, <1>3, <1>4
<1>6. Strong(b, m, bm, sm) = State("STRONG BULL", x)
  BY <1>1, <1>3 DEF Strong
<1>7. Strong(c, w, sm, bm) = State("STRONG BEAR", x)
  BY <1>3, <1>5 DEF Strong
<1>8. "STRONG BULL" \in StateNames /\ "STRONG BEAR" \in StateNames
  BY DEF StateNames
<1>9. QED BY <1>2, <1>6, <1>7, <1>8, MirrorNames, MatchStates

LEMMA ExhaustedMatches ==
  ASSUME NEW b, NEW m, NEW c, NEW w, Facing(b, m, c, w), m.move > 0, NEW bm, NEW sm
  PROVE  Match(Exhausted(b, m, bm, sm), Exhausted(c, w, sm, bm))
<1>1. PICK x : x = Geo(Hot(bm) /\ (Drain(m) \/ Ramp(b.clS, m.vol, 15, 50)), <<Buys(m)>>, 3)
  OBVIOUS
<1>2. x \in Nat
  BY <1>1, OneSoft, GeoIsScore
<1>3. m.move >= 0 /\ ~(w.move >= 0) /\ w.vol = m.vol /\ c.clL = b.clS
  <2>1. m.move \in Int /\ w.move = -m.move /\ w.vol = m.vol /\ c.clL = b.clS
    BY DEF Facing, Opposite
  <2>2. QED BY <2>1
<1>4. Sells(w) = Buys(m) /\ Drain(w) = Drain(m)
  BY SameFactors
<1>5. x = Geo(Hot(bm) /\ (Drain(w) \/ Ramp(c.clL, w.vol, 15, 50)), <<Sells(w)>>, 3)
  BY <1>1, <1>3, <1>4
<1>6. Exhausted(b, m, bm, sm) = State("BULL EXHAUSTION", x)
  BY <1>1, <1>3 DEF Exhausted
<1>7. Exhausted(c, w, sm, bm) = State("BEAR EXHAUSTION", x)
  BY <1>3, <1>5 DEF Exhausted
<1>8. "BULL EXHAUSTION" \in StateNames /\ "BEAR EXHAUSTION" \in StateNames
  BY DEF StateNames
<1>9. QED BY <1>2, <1>6, <1>7, <1>8, MirrorNames, MatchStates

LEMMA TrapMatches ==
  ASSUME NEW b, NEW m, NEW c, NEW w, Facing(b, m, c, w), m.move > 0, NEW bm, NEW sm
  PROVE  Matches(Trap(b, m, bm, sm), Trap(c, w, sm, bm))
<1>1. PICK s : s = <<Ramp(m.prevLow - b.low, m.rng, 3, 50), Ramp(m.rng - m.pocPos, m.rng, 50, 85), Hot(sm)>>
  OBVIOUS
<1>2. PICK x : x = Geo(Sells(m) /\ Ramp(Trapped(b, m.move), m.vol, 5, 30) /\ Ramp(m.move, m.rng, 5, 50), s, 6)
  OBVIOUS
<1>3. x \in Nat
  <2>1. DOMAIN s = 1..3
    BY <1>1
  <2>2. QED BY <1>2, <2>1, GeoIsScore
<1>4. /\ m.move > 0 /\ ~(m.move < 0) /\ w.move < 0 /\ -w.move = m.move /\ w.vol = m.vol /\ w.rng = m.rng
      /\ w.pocPos = m.rng - m.pocPos
  <2>1. /\ m.move \in Int /\ w.move = -m.move /\ w.vol = m.vol /\ w.rng = m.rng
        /\ w.pocPos = m.rng - m.pocPos
    BY DEF Facing, Opposite
  <2>2. QED BY <2>1
<1>5. c.high - w.prevHigh = m.prevLow - b.low
  <2>1. c.high = -b.low /\ w.prevHigh = -m.prevLow /\ b.low \in Int /\ m.prevLow \in Int
    BY DEF Facing, Opposite
  <2>2. QED BY <2>1
<1>6. Trapped(c, w.move) = Trapped(b, m.move)
  <2>1. c.opL = b.opS
    BY DEF Facing
  <2>2. QED BY <1>4, <2>1 DEF Trapped
<1>7. Buys(w) = Sells(m)
  BY SameFactors
<1>8. s = <<Ramp(c.high - w.prevHigh, w.rng, 3, 50), Ramp(w.pocPos, w.rng, 50, 85), Hot(sm)>>
  BY <1>1, <1>4, <1>5
<1>9. x = Geo(Buys(w) /\ Ramp(Trapped(c, w.move), w.vol, 5, 30) /\ Ramp(-w.move, w.rng, 5, 50), s, 6)
  BY <1>2, <1>4, <1>6, <1>7
<1>10. Trap(b, m, bm, sm) = <<State("BEAR TRAP", x)>>
  BY <1>1, <1>2, <1>4 DEF Trap
<1>11. Trap(c, w, sm, bm) = <<State("BULL TRAP", x)>>
  BY <1>4, <1>8, <1>9 DEF Trap
<1>12. "BEAR TRAP" \in StateNames /\ "BULL TRAP" \in StateNames
  BY DEF StateNames
<1>13. QED BY <1>3, <1>10, <1>11, <1>12, MirrorNames, MatchStates

LEMMA SqueezeMatches ==
  ASSUME NEW b, NEW m, NEW c, NEW w, Facing(b, m, c, w), m.move > 0
  PROVE  Matches(Squeeze(b, m), Squeeze(c, w))
<1>1. m.move >= 0 /\ ~(m.move < 0) /\ ~(w.move >= 0) /\ w.move < 0 /\ w.vol = m.vol /\ c.liqL = b.liqS
      /\ c.vel = b.vel
  <2>1. m.move \in Int /\ w.move = -m.move /\ w.vol = m.vol /\ c.liqL = b.liqS /\ c.vel = b.vel
    BY DEF Facing, Opposite
  <2>2. QED BY <2>1
<1>2. PICK x : x = Squeezed(b, m, b.liqS, ReclaimUp(b, m))
  OBVIOUS
<1>3. x \in Nat
  BY <1>2, SqueezedIsScore
<1>4. Drain(w) = Drain(m) /\ ReclaimDown(c, w) = ReclaimUp(b, m)
  BY SameFactors
<1>5. x = Squeezed(c, w, c.liqL, ReclaimDown(c, w))
  BY <1>1, <1>2, <1>4 DEF Squeezed
<1>6. CASE b.liqS > 0
  <2>1. Squeeze(b, m) = <<State("SHORT SQUEEZE", x)>>
    BY <1>1, <1>2, <1>6 DEF Squeeze
  <2>2. Squeeze(c, w) = <<State("LONG SQUEEZE", x)>>
    BY <1>1, <1>5, <1>6 DEF Squeeze
  <2>3. "SHORT SQUEEZE" \in StateNames /\ "LONG SQUEEZE" \in StateNames
    BY DEF StateNames
  <2>4. QED BY <1>3, <2>1, <2>2, <2>3, MirrorNames, MatchStates
<1>7. CASE ~(b.liqS > 0)
  <2>1. Squeeze(b, m) = <<>> /\ Squeeze(c, w) = <<>>
    BY <1>1, <1>7 DEF Squeeze
  <2>2. QED BY <2>1, MatchesNone
<1>8. QED BY <1>6, <1>7

LEMMA CoilMatches ==
  ASSUME NEW b, NEW m, NEW c, NEW w, Facing(b, m, c, w), NEW n
  PROVE  Matches(Coil(b, m, n), Coil(c, w, n))
<1>1. PICK x : x = Geo(~Ramp(m.rng * Max({1, n}), Max({1, m.ranges}), 60, 120)
                         /\ Ramp(m.liqs, m.vol, 3, 15) /\ Calm(m), <<>>, 3)
  OBVIOUS
<1>2. x \in Nat
  <2>1. DOMAIN <<>> = 1..0 /\ 0 \in Nat
    OBVIOUS
  <2>2. QED BY <1>1, <2>1, GeoIsScore
<1>3. w.rng = m.rng /\ w.ranges = m.ranges /\ w.liqs = m.liqs /\ w.vol = m.vol
  BY DEF Facing, Opposite
<1>4. Calm(w) = Calm(m) /\ (Inside(c, w) <=> Inside(b, m))
  BY SameFactors
<1>5. x = Geo(~Ramp(w.rng * Max({1, n}), Max({1, w.ranges}), 60, 120)
                /\ Ramp(w.liqs, w.vol, 3, 15) /\ Calm(w), <<>>, 3)
  BY <1>1, <1>3, <1>4
<1>6. CASE Inside(b, m) /\ m.liqs > 0
  <2>1. Coil(b, m, n) = <<State("LIQUIDITY COIL", x)>>
    BY <1>1, <1>6 DEF Coil
  <2>2. Coil(c, w, n) = <<State("LIQUIDITY COIL", x)>>
    BY <1>3, <1>4, <1>5, <1>6 DEF Coil
  <2>3. "LIQUIDITY COIL" \in StateNames
    BY DEF StateNames
  <2>4. QED BY <1>2, <2>1, <2>2, <2>3, MirrorNames, MatchStates
<1>7. CASE ~(Inside(b, m) /\ m.liqs > 0)
  <2>1. Coil(b, m, n) = <<>> /\ Coil(c, w, n) = <<>>
    BY <1>3, <1>4, <1>7 DEF Coil
  <2>2. QED BY <2>1, MatchesNone
<1>8. QED BY <1>6, <1>7

LEMMA RotationMatches ==
  ASSUME NEW b, NEW m, NEW c, NEW w, Facing(b, m, c, w)
  PROVE  Match(Rotation(b, m), Rotation(c, w)) /\ Matches(<<Rotation(b, m)>>, <<Rotation(c, w)>>)
<1>1. PICK x : x = Geo(Ramp(b.churn, m.vol, 55, 90) /\ ~Ramp(AbsOf(m.doi), m.vol, 5, 22)
                         /\ Calm(m) /\ ~Moved(m), <<>>, 3)
  OBVIOUS
<1>2. x \in Nat
  <2>1. DOMAIN <<>> = 1..0 /\ 0 \in Nat
    OBVIOUS
  <2>2. QED BY <1>1, <2>1, GeoIsScore
<1>3. w.vol = m.vol /\ w.doi = m.doi /\ c.churn = b.churn
  BY DEF Facing, Opposite
<1>4. Calm(w) = Calm(m) /\ Moved(w) = Moved(m)
  BY SameFactors
<1>5. x = Geo(Ramp(c.churn, w.vol, 55, 90) /\ ~Ramp(AbsOf(w.doi), w.vol, 5, 22)
                /\ Calm(w) /\ ~Moved(w), <<>>, 3)
  BY <1>1, <1>3, <1>4
<1>6. Rotation(b, m) = State("ROTATION", x) /\ Rotation(c, w) = State("ROTATION", x)
  BY <1>1, <1>5 DEF Rotation
<1>7. "ROTATION" \in StateNames
  BY DEF StateNames
<1>8. QED BY <1>2, <1>6, <1>7, MirrorNames, MatchStates

LEMMA ChopMatches ==
  ASSUME NEW b, NEW m, NEW c, NEW w, Facing(b, m, c, w), NEW bm, NEW sm
  PROVE  Matches(Chop(b, m, bm, sm), Chop(c, w, sm, bm))
<1>1. PICK x : x = Geo(~Fast(b) /\ Calm(m) /\ ~Ramp(m.liqs, m.vol, 3, 15) /\ ~Hot(Max({bm, sm}))
                         /\ ~Ramp(m.doi, m.vol, 8, 18) /\ ~Moved(m), <<>>, 4)
  OBVIOUS
<1>2. x \in Nat
  <2>1. DOMAIN <<>> = 1..0 /\ 0 \in Nat
    OBVIOUS
  <2>2. QED BY <1>1, <2>1, GeoIsScore
<1>3. w.liqs = m.liqs /\ w.vol = m.vol /\ w.doi = m.doi /\ {bm, sm} = {sm, bm}
  BY DEF Facing, Opposite
<1>4. Calm(w) = Calm(m) /\ Fast(c) = Fast(b) /\ Moved(w) = Moved(m) /\ (Inside(c, w) <=> Inside(b, m))
  BY SameFactors
<1>5. x = Geo(~Fast(c) /\ Calm(w) /\ ~Ramp(w.liqs, w.vol, 3, 15) /\ ~Hot(Max({sm, bm}))
                /\ ~Ramp(w.doi, w.vol, 8, 18) /\ ~Moved(w), <<>>, 4)
  BY <1>1, <1>3, <1>4
<1>6. CASE Inside(b, m)
  <2>1. Chop(b, m, bm, sm) = <<State("CHOP", x)>> /\ Chop(c, w, sm, bm) = <<State("CHOP", x)>>
    BY <1>1, <1>4, <1>5, <1>6 DEF Chop
  <2>2. "CHOP" \in StateNames
    BY DEF StateNames
  <2>3. QED BY <1>2, <2>1, <2>2, MirrorNames, MatchStates
<1>7. CASE ~Inside(b, m)
  <2>1. Chop(b, m, bm, sm) = <<>> /\ Chop(c, w, sm, bm) = <<>>
    BY <1>4, <1>7 DEF Chop
  <2>2. QED BY <2>1, MatchesNone
<1>8. QED BY <1>6, <1>7

LEMMA MatchesTwo ==
  ASSUME NEW x \in Verdicts, NEW y \in Verdicts, NEW p \in Verdicts, NEW q \in Verdicts,
         Match(x, p), Match(y, q)
  PROVE  Matches(<<x, y>>, <<p, q>>)
<1>1. <<x, y>> \in Seq(Verdicts) /\ <<p, q>> \in Seq(Verdicts) /\ Len(<<x, y>>) = 2 /\ Len(<<p, q>>) = 2
  OBVIOUS
<1>2. \A k \in 1..2 : Match(<<x, y>>[k], <<p, q>>[k])
  OBVIOUS
<1>3. QED BY <1>1, <1>2 DEF Matches

LEMMA NeutralIs ==
  State("NEUTRAL", Neutral) \in Verdicts /\ Matches(<<State("NEUTRAL", Neutral)>>, <<State("NEUTRAL", Neutral)>>)
<1>1. "NEUTRAL" \in StateNames /\ Neutral \in Nat
  BY DEF StateNames, Neutral
<1>2. QED BY <1>1, MirrorNames, MatchStates, StateIsVerdict

LEMMA UpwardMatches ==
  ASSUME NEW b, NEW m, NEW c, NEW w, Facing(b, m, c, w), m.move > 0, NEW n, NEW bm, NEW sm
  PROVE  Matches(Scored(b, m, n, bm, sm), Scored(c, w, n, sm, bm))
<1>1. w.vol = m.vol
  BY DEF Facing, Opposite
<1>2. CASE m.vol = 0
  <2>1. /\ Scored(b, m, n, bm, sm) = <<State("NEUTRAL", Neutral)>>
        /\ Scored(c, w, n, sm, bm) = <<State("NEUTRAL", Neutral)>>
    BY <1>1, <1>2 DEF Scored
  <2>2. QED BY <2>1, NeutralIs
<1>3. CASE m.vol # 0
  <2>1. PICK s1, t1 : s1 = <<Strong(b, m, bm, sm), Exhausted(b, m, bm, sm)>>
                      /\ t1 = <<Strong(c, w, sm, bm), Exhausted(c, w, sm, bm)>>
    OBVIOUS
  <2>2. Matches(s1, t1)
    <3>1. /\ Strong(b, m, bm, sm) \in Verdicts /\ Exhausted(b, m, bm, sm) \in Verdicts
          /\ Strong(c, w, sm, bm) \in Verdicts /\ Exhausted(c, w, sm, bm) \in Verdicts
      BY FirstStatesAre
    <3>2. /\ Match(Strong(b, m, bm, sm), Strong(c, w, sm, bm))
          /\ Match(Exhausted(b, m, bm, sm), Exhausted(c, w, sm, bm))
      BY StrongMatches, ExhaustedMatches
    <3>3. QED BY <2>1, <3>1, <3>2, MatchesTwo
  <2>3. PICK s2, t2 : s2 = s1 \o Trap(b, m, bm, sm) /\ t2 = t1 \o Trap(c, w, sm, bm)
    OBVIOUS
  <2>4. Matches(s2, t2)
    BY <2>2, <2>3, TrapMatches, MatchesOn
  <2>5. PICK s3, t3 : s3 = s2 \o Squeeze(b, m) /\ t3 = t2 \o Squeeze(c, w)
    OBVIOUS
  <2>6. Matches(s3, t3)
    BY <2>4, <2>5, SqueezeMatches, MatchesOn
  <2>7. PICK s4, t4 : s4 = s3 \o Coil(b, m, n) /\ t4 = t3 \o Coil(c, w, n)
    OBVIOUS
  <2>8. Matches(s4, t4)
    BY <2>6, <2>7, CoilMatches, MatchesOn
  <2>9. PICK s5, t5 : s5 = s4 \o <<Rotation(b, m)>> /\ t5 = t4 \o <<Rotation(c, w)>>
    OBVIOUS
  <2>10. Matches(s5, t5)
    BY <2>8, <2>9, RotationMatches, MatchesOn
  <2>11. PICK s6, t6 : s6 = s5 \o Chop(b, m, bm, sm) /\ t6 = t5 \o Chop(c, w, sm, bm)
    OBVIOUS
  <2>12. Matches(s6, t6)
    BY <2>10, <2>11, ChopMatches, MatchesOn
  <2>13. PICK e : e = <<State("NEUTRAL", Neutral)>>
    OBVIOUS
  <2>14. Matches(s6 \o e, t6 \o e)
    BY <2>12, <2>13, NeutralIs, MatchesOn
  <2>15. Scored(b, m, n, bm, sm) = s6 \o e
    BY <1>3, <2>1, <2>3, <2>5, <2>7, <2>9, <2>11, <2>13 DEF Scored
  <2>16. Scored(c, w, n, sm, bm) = t6 \o e
    BY <1>1, <1>3, <2>1, <2>3, <2>5, <2>7, <2>9, <2>11, <2>13 DEF Scored
  <2>17. QED BY <2>14, <2>15, <2>16
<1>4. QED BY <1>2, <1>3

(* Down as up.                                                             *)
LEMMA ScoredMatches ==
  ASSUME NEW b, NEW m, NEW c, NEW w, Facing(b, m, c, w), NEW n, NEW bm, NEW sm
  PROVE  Matches(Scored(b, m, n, bm, sm), Scored(c, w, n, sm, bm))
<1>1. m.move \in Int /\ m.move # 0 /\ w.move = -m.move
  BY DEF Facing, Opposite
<1>2. CASE m.move > 0
  BY <1>2, UpwardMatches
<1>3. CASE ~(m.move > 0)
  <2>1. w.move > 0
    BY <1>1, <1>3
  <2>2. Matches(Scored(c, w, n, sm, bm), Scored(b, m, n, bm, sm))
    BY <2>1, FacingBack, UpwardMatches
  <2>3. QED BY <2>2, MatchesBack
<1>4. QED BY <1>2, <1>3

(* The list is never empty.                                                *)
LEMMA ScoredIs ==
  ASSUME NEW b, NEW m, NEW n, NEW bm, NEW sm
  PROVE  Scored(b, m, n, bm, sm) \in Seq(Verdicts) /\ Scored(b, m, n, bm, sm) # <<>>
<1>1. PICK s, e : s = Scored(b, m, n, bm, sm) /\ e = <<State("NEUTRAL", Neutral)>>
  OBVIOUS
<1>2. e \in Seq(Verdicts) /\ Len(e) = 1
  BY <1>1, NeutralIs
<1>3. CASE m.vol = 0
  <2>1. s = e
    BY <1>1, <1>3 DEF Scored
  <2>2. QED BY <1>1, <1>2, <2>1
<1>4. CASE m.vol # 0
  <2>1. PICK p, t, q, l, r, h : /\ p = <<Strong(b, m, bm, sm), Exhausted(b, m, bm, sm)>> /\ t = Trap(b, m, bm, sm)
                               /\ q = Squeeze(b, m) /\ l = Coil(b, m, n) /\ r = <<Rotation(b, m)>>
                               /\ h = Chop(b, m, bm, sm)
    OBVIOUS
  <2>2. p \in Seq(Verdicts) /\ r \in Seq(Verdicts)
    <3>1. Strong(b, m, bm, sm) \in Verdicts /\ Exhausted(b, m, bm, sm) \in Verdicts /\ Rotation(b, m) \in Verdicts
      BY FirstStatesAre, LastStatesAre
    <3>2. QED BY <2>1, <3>1
  <2>3. t \in Seq(Verdicts) /\ q \in Seq(Verdicts) /\ l \in Seq(Verdicts) /\ h \in Seq(Verdicts)
    BY <2>1, TrapIs, SqueezeIs, LastStatesAre DEF AllDecided
  <2>4. PICK u : u = p \o t \o q \o l \o r \o h
    OBVIOUS
  <2>5. u \in Seq(Verdicts)
    <3>1. p \o t \in Seq(Verdicts)
      BY <2>2, <2>3
    <3>2. p \o t \o q \in Seq(Verdicts)
      BY <2>3, <3>1
    <3>3. p \o t \o q \o l \in Seq(Verdicts)
      BY <2>3, <3>2
    <3>4. p \o t \o q \o l \o r \in Seq(Verdicts)
      BY <2>2, <3>3
    <3>5. p \o t \o q \o l \o r \o h \in Seq(Verdicts)
      BY <2>3, <3>4
    <3>6. QED BY <2>4, <3>5
  <2>6. s = u \o e
    BY <1>1, <1>4, <2>1, <2>4 DEF Scored
  <2>7. PICK x \in Verdicts : e = <<x>>
    BY <1>1, NeutralIs
  <2>8. u \o e \in Seq(Verdicts) /\ u \o e # <<>>
    <3>1. u \o <<x>> \in Seq(Verdicts)
      BY <2>5
    <3>2. u \o <<x>> # <<>>
      BY <2>5
    <3>3. QED BY <2>7, <3>1, <3>2
  <2>9. QED BY <1>1, <2>6, <2>8
<1>5. QED BY <1>3, <1>4

(* Where the sides of the market are exchanged.                            *)
LEMMA MirrorsFace ==
  ASSUME NEW bk, WellFormed(bk), NEW i \in DOMAIN bk, bk[i].open # bk[i].close
  PROVE  LET b == bk[i]
             c == Mirrored(bk)[i]
         IN  /\ Facing(b, Measured(b, Context(bk, i)), c, Measured(c, Context(Mirrored(bk), i)))
             /\ Len(Context(Mirrored(bk), i)) = Len(Context(bk, i))
<1>1. PICK b, c, win, wn : b = bk[i] /\ c = Mirrored(bk)[i] /\ win = Context(bk, i) /\ wn = Context(Mirrored(bk), i)
  OBVIOUS
<1>2. PICK n \in Nat : Buckets(win, n) /\ Images(win, wn)
  BY <1>1, MirroredContext
<1>3. IsBucket(b) /\ c = Mirror(b)
  BY <1>1 DEF WellFormed, Mirrored
<1>4. PICK m, w : m = Measured(b, win) /\ w = Measured(c, wn)
  OBVIOUS
<1>5. Opposite(w, m)
  BY <1>2, <1>3, <1>4, MirroredMeasures
<1>6. b.open \in Int /\ b.close \in Int /\ b.high \in Int /\ b.low \in Int
  BY <1>3 DEF IsBucket
<1>7. m.move # 0
  <2>1. m.move = b.close - b.open
    BY <1>4 DEF Measured
  <2>2. b.open # b.close
    BY <1>1
  <2>3. QED BY <1>6, <2>1, <2>2
<1>8. /\ c.high = -b.low /\ c.low = -b.high /\ c.close = -b.close
      /\ c.opL = b.opS /\ c.opS = b.opL /\ c.clL = b.clS /\ c.clS = b.clL
      /\ c.liqS = b.liqL /\ c.liqL = b.liqS /\ c.churn = b.churn /\ c.vel = b.vel
  BY <1>3, MirrorFields
<1>9. Facing(b, m, c, w)
  BY <1>5, <1>6, <1>7, <1>8 DEF Facing
<1>10. Len(wn) = Len(win)
  BY <1>2 DEF Images
<1>11. QED BY <1>1, <1>4, <1>9, <1>10

LEMMA MirroredVerdict ==
  ASSUME NEW bk, WellFormed(bk), NEW i \in DOMAIN bk, bk[i].open # bk[i].close, NEW bm, NEW sm
  PROVE  Match(Classify(bk, i, bm, sm), Classify(Mirrored(bk), i, sm, bm))
<1>1. PICK b, c, win, wn : b = bk[i] /\ c = Mirrored(bk)[i] /\ win = Context(bk, i) /\ wn = Context(Mirrored(bk), i)
  OBVIOUS
<1>2. PICK m, w : m = Measured(b, win) /\ w = Measured(c, wn)
  OBVIOUS
<1>3. Facing(b, m, c, w) /\ Len(wn) = Len(win)
  BY <1>1, <1>2, MirrorsFace
<1>4. PICK s, t : s = Scored(b, m, Len(win), bm, sm) /\ t = Scored(c, w, Len(wn), sm, bm)
  OBVIOUS
<1>5. Matches(s, t)
  BY <1>3, <1>4, ScoredMatches
<1>6. s # <<>>
  BY <1>4, ScoredIs
<1>7. Match(Winner(s), Winner(t))
  BY <1>5, <1>6, WinnersMatch
<1>8. s = Scores(bk, i, bm, sm) /\ t = Scores(Mirrored(bk), i, sm, bm)
  BY <1>1, <1>2, <1>4 DEF Scores
<1>9. QED BY <1>7, <1>8 DEF Classify

-----------------------------------------------------------------------------
(* A violent squeeze. *)

LEMMA PrefixKept ==
  ASSUME NEW s \in Seq(Verdicts), NEW t \in Seq(Verdicts)
  PROVE  /\ s \o t \in Seq(Verdicts) /\ Len(s) <= Len(s \o t)
         /\ \A k \in 1..Len(s) : (s \o t)[k] = s[k]
<1>1. s \o t \in Seq(Verdicts) /\ Len(s) <= Len(s \o t)
  OBVIOUS
<1>2. \A k \in 1..Len(s) : (s \o t)[k] = s[k]
  OBVIOUS
<1>3. QED BY <1>1, <1>2

LEMMA DecidedOn ==
  ASSUME NEW s, NEW t, AllDecided(s), AllDecided(t)
  PROVE  AllDecided(s \o t)
<1>1. s \in Seq(Verdicts) /\ t \in Seq(Verdicts)
  BY DEF AllDecided
<1>2. PICK n, l : n = Len(s) /\ l = Len(t) /\ n \in Nat /\ l \in Nat
  BY <1>1
<1>3. PICK u : u = s \o t /\ u \in Seq(Verdicts) /\ Len(u) = n + l
              /\ \A k \in 1..(n + l) : u[k] = IF k <= n THEN s[k] ELSE t[k - n]
  <2>1. s \o t \in Seq(Verdicts) /\ Len(s \o t) = n + l
    BY <1>1, <1>2
  <2>2. \A k \in 1..(n + l) : (s \o t)[k] = IF k <= n THEN s[k] ELSE t[k - n]
    BY <1>1, <1>2
  <2>3. QED BY <2>1, <2>2
<1>4. ASSUME NEW k \in 1..(n + l) PROVE u[k].name \in Decided
  <2>1. CASE k <= n
    <3>1. k \in 1..n /\ u[k] = s[k]
      BY <1>2, <1>3, <2>1
    <3>2. QED BY <1>2, <3>1 DEF AllDecided
  <2>2. CASE ~(k <= n)
    <3>1. k - n \in 1..l
      BY <1>2, <2>2
    <3>2. u[k] = t[k - n]
      BY <1>3, <2>2
    <3>3. QED BY <1>2, <3>1, <3>2 DEF AllDecided
  <2>3. QED BY <2>1, <2>2
<1>5. QED BY <1>3, <1>4 DEF AllDecided

LEMMA ViolentSqueeze ==
  ASSUME NEW b, NEW m, NEW liq \in Nat, m.vol \in Nat, m.vol > 0, m.move \in Int,
         liq = (IF m.move >= 0 THEN b.liqS ELSE b.liqL), 100 * liq >= 30 * m.vol
  PROVE  \E x \in Decided : Squeeze(b, m) = <<State(x, 0)>>
<1>1. PICK v \in Nat : v = m.vol /\ v > 0 /\ 100 * liq >= 30 * v
  OBVIOUS
<1>2. liq > 0 /\ 100 * liq >= 10 * v
  BY <1>1
<1>3. Ramp(liq, m.vol, 10, 30) = TRUE
  <2>1. 100 * liq >= 30 * m.vol /\ ~(100 * liq <= 10 * m.vol)
    BY <1>1
  <2>2. QED BY <2>1 DEF Ramp
<1>4. \A y : SqueezeFloor(liq, m.vol, y) = 0
  BY <1>1, <1>2, <1>3 DEF SqueezeFloor
<1>5. \A reclaim : Squeezed(b, m, liq, reclaim) = 0
  BY <1>4 DEF Squeezed
<1>6. CASE m.move >= 0
  <2>1. Squeeze(b, m) = <<State("SHORT SQUEEZE", Squeezed(b, m, liq, ReclaimUp(b, m)))>>
    BY <1>2, <1>6 DEF Squeeze
  <2>2. Squeeze(b, m) = <<State("SHORT SQUEEZE", 0)>>
    BY <1>5, <2>1
  <2>3. QED BY <2>2, DecidedNames
<1>7. CASE ~(m.move >= 0)
  <2>1. m.move < 0
    BY <1>7
  <2>2. Squeeze(b, m) = <<State("LONG SQUEEZE", Squeezed(b, m, liq, ReclaimDown(b, m)))>>
    BY <1>2, <1>7, <2>1 DEF Squeeze
  <2>3. Squeeze(b, m) = <<State("LONG SQUEEZE", 0)>>
    BY <1>5, <2>2
  <2>4. QED BY <2>3, DecidedNames
<1>8. QED BY <1>6, <1>7

(* A zero among the decided states is met before the others.               *)
LEMMA DecidedFirst ==
  ASSUME NEW u, AllDecided(u), NEW y \in 1..Len(u), u[y].score = 0,
         NEW s \in Seq(Verdicts), Len(u) <= Len(s), \A k \in 1..Len(u) : s[k] = u[k]
  PROVE  Winner(s).score = 0 /\ Winner(s).name \in Decided
<1>1. PICK n, l : n = Len(s) /\ n \in Nat /\ l = Len(u) /\ l \in Nat /\ l <= n
  BY DEF AllDecided
<1>2. \A k \in 1..n : s[k].score \in Nat
  <2>1. \A k \in 1..n : s[k] \in Verdicts
    BY <1>1
  <2>2. QED BY <2>1 DEF Verdicts
<1>3. y \in 1..l /\ y \in 1..n /\ s[y].score = 0
  BY <1>1
<1>4. s # <<>>
  BY <1>1, <1>3
<1>5. PICK x \in 1..n : /\ Winner(s) = s[x]
                       /\ \A j \in 1..n : s[x].score <= s[j].score
                       /\ \A k \in 1..n : (\A o \in 1..n : s[k].score <= s[o].score) => x <= k
  BY <1>1, <1>4, WinnerIs
<1>6. x <= y
  <2>1. \A j \in 1..n : s[y].score <= s[j].score
    BY <1>2, <1>3
  <2>2. QED BY <1>3, <1>5, <2>1
<1>7. s[x].score = 0
  <2>1. s[x].score <= 0 /\ s[x].score \in Nat
    BY <1>2, <1>3, <1>5
  <2>2. QED BY <2>1
<1>8. s[x].name \in Decided
  <2>1. x \in 1..l
    BY <1>1, <1>3, <1>6
  <2>2. QED BY <1>1, <2>1 DEF AllDecided
<1>9. QED BY <1>5, <1>7, <1>8

LEMMA SqueezeWins ==
  ASSUME NEW b, NEW m, NEW liq \in Nat, m.vol \in Nat, m.vol > 0, m.move \in Int,
         liq = (IF m.move >= 0 THEN b.liqS ELSE b.liqL), 100 * liq >= 30 * m.vol,
         NEW n, NEW bm, NEW sm
  PROVE  Winner(Scored(b, m, n, bm, sm)).score = 0 /\ Winner(Scored(b, m, n, bm, sm)).name \in Decided
<1>1. PICK p, t, q, l, r, h, e :
         /\ p = <<Strong(b, m, bm, sm), Exhausted(b, m, bm, sm)>> /\ t = Trap(b, m, bm, sm)
         /\ q = Squeeze(b, m) /\ l = Coil(b, m, n) /\ r = <<Rotation(b, m)>>
         /\ h = Chop(b, m, bm, sm) /\ e = <<State("NEUTRAL", Neutral)>>
  OBVIOUS
<1>2. AllDecided(p)
  <2>1. PICK x, y : x = Strong(b, m, bm, sm) /\ y = Exhausted(b, m, bm, sm)
    OBVIOUS
  <2>2. x \in Verdicts /\ x.name \in Decided /\ y \in Verdicts /\ y.name \in Decided
    BY <2>1, FirstStatesAre
  <2>3. p \in Seq(Verdicts) /\ Len(p) = 2 /\ p[1] = x /\ p[2] = y
    BY <1>1, <2>1, <2>2
  <2>4. \A k \in 1..2 : p[k].name \in Decided
    BY <2>2, <2>3
  <2>5. QED BY <2>3, <2>4 DEF AllDecided
<1>3. AllDecided(t) /\ AllDecided(q)
  BY <1>1, TrapIs, SqueezeIs
<1>4. PICK o, u : o = p \o t /\ u = o \o q
  OBVIOUS
<1>5. AllDecided(o) /\ AllDecided(u)
  BY <1>2, <1>3, <1>4, DecidedOn
<1>6. PICK z \in Decided : q = <<State(z, 0)>>
  BY <1>1, ViolentSqueeze
<1>7. PICK y : y \in 1..Len(u) /\ u[y].score = 0
  <2>1. PICK d \in Nat : d = Len(o) /\ o \in Seq(Verdicts)
    BY <1>5 DEF AllDecided
  <2>2. PICK x \in Verdicts : x.score = 0 /\ q = <<x>>
    BY <1>6, OneDecided DEF State
  <2>3. Len(<<x>>) = 1 /\ <<x>> \in Seq(Verdicts) /\ <<x>>[1] = x
    BY <2>2
  <2>4. Len(o \o <<x>>) = d + 1 /\ (o \o <<x>>)[d + 1] = <<x>>[1]
    BY <2>1, <2>3
  <2>5. Len(u) = d + 1 /\ u[d + 1] = x
    BY <1>4, <2>2, <2>3, <2>4
  <2>6. d + 1 \in 1..(d + 1)
    OBVIOUS
  <2>7. QED BY <2>2, <2>5, <2>6
<1>8. l \in Seq(Verdicts) /\ r \in Seq(Verdicts) /\ h \in Seq(Verdicts) /\ e \in Seq(Verdicts)
  <2>1. l \in Seq(Verdicts) /\ h \in Seq(Verdicts) /\ Rotation(b, m) \in Verdicts
        /\ State("NEUTRAL", Neutral) \in Verdicts
    BY <1>1, LastStatesAre
  <2>2. QED BY <1>1, <2>1
<1>9. PICK s4, s5, s6, s : s4 = u \o l /\ s5 = s4 \o r /\ s6 = s5 \o h /\ s = s6 \o e
  OBVIOUS
<1>10. /\ u \in Seq(Verdicts) /\ s4 \in Seq(Verdicts) /\ s5 \in Seq(Verdicts)
       /\ s6 \in Seq(Verdicts) /\ s \in Seq(Verdicts)
  <2>1. u \in Seq(Verdicts)
    BY <1>5 DEF AllDecided
  <2>2. s4 \in Seq(Verdicts)
    BY <1>8, <1>9, <2>1, PrefixKept
  <2>3. s5 \in Seq(Verdicts)
    BY <1>8, <1>9, <2>2, PrefixKept
  <2>4. s6 \in Seq(Verdicts)
    BY <1>8, <1>9, <2>3, PrefixKept
  <2>5. QED BY <1>8, <1>9, <2>1, <2>2, <2>3, <2>4, PrefixKept
<1>11. Len(u) <= Len(s4) /\ Len(s4) <= Len(s5) /\ Len(s5) <= Len(s6) /\ Len(s6) <= Len(s)
  BY <1>8, <1>9, <1>10, PrefixKept
<1>12. Len(u) <= Len(s) /\ \A k \in 1..Len(u) : s[k] = u[k]
  <2>1. PICK a, c, d, g, f \in Nat : a = Len(u) /\ c = Len(s4) /\ d = Len(s5) /\ g = Len(s6) /\ f = Len(s)
    BY <1>10
  <2>2. a <= c /\ c <= d /\ d <= g /\ g <= f
    BY <1>11, <2>1
  <2>3. ASSUME NEW k \in 1..a PROVE s[k] = u[k]
    <3>1. k \in 1..a /\ k \in 1..c /\ k \in 1..d /\ k \in 1..g
      BY <2>2
    <3>2. s4[k] = u[k]
      BY <1>8, <1>9, <1>10, <2>1, <3>1, PrefixKept
    <3>3. s5[k] = s4[k]
      BY <1>8, <1>9, <1>10, <2>1, <3>1, PrefixKept
    <3>4. s6[k] = s5[k]
      BY <1>8, <1>9, <1>10, <2>1, <3>1, PrefixKept
    <3>5. s[k] = s6[k]
      BY <1>8, <1>9, <1>10, <2>1, <3>1, PrefixKept
    <3>6. QED BY <3>2, <3>3, <3>4, <3>5
  <2>4. QED BY <2>1, <2>2, <2>3
<1>13. Scored(b, m, n, bm, sm) = s
  <2>1. m.vol # 0
    OBVIOUS
  <2>2. QED BY <1>1, <1>4, <1>9, <2>1 DEF Scored
<1>14. Winner(s).score = 0 /\ Winner(s).name \in Decided
  BY <1>5, <1>7, <1>10, <1>12, DecidedFirst
<1>15. QED BY <1>13, <1>14

LEMMA SqueezeVerdict ==
  ASSUME NEW bk, NEW i, NEW b, b = bk[i], IsBucket(b), Vol(b) > 0,
         NEW liq, liq = (IF b.close >= b.open THEN b.liqS ELSE b.liqL), 100 * liq >= 30 * Vol(b),
         NEW bm, NEW sm
  PROVE  LET v == Classify(bk, i, bm, sm) IN
         v.score = 0 /\ v.name \notin {"LIQUIDITY COIL", "ROTATION", "CHOP", "NEUTRAL"}
<1>1. PICK win, m : win = Context(bk, i) /\ m = Measured(b, win)
  OBVIOUS
<1>2. m.vol = Vol(b) /\ m.move = b.close - b.open
  BY <1>1 DEF Measured
<1>3. b.open \in Int /\ b.close \in Int /\ b.liqS \in Nat /\ b.liqL \in Nat /\ Vol(b) \in Nat
  <2>1. Vol(b) \in Nat
    BY VolumesAre
  <2>2. QED BY <2>1 DEF IsBucket
<1>4. m.vol \in Nat /\ m.vol > 0 /\ m.move \in Int /\ liq \in Nat /\ 100 * liq >= 30 * m.vol
  BY <1>2, <1>3
<1>5. liq = (IF m.move >= 0 THEN b.liqS ELSE b.liqL)
  <2>1. m.move >= 0 <=> b.close >= b.open
    BY <1>2, <1>3
  <2>2. QED BY <2>1
<1>6. PICK v : v = Winner(Scored(b, m, Len(win), bm, sm))
  OBVIOUS
<1>7. v.score = 0 /\ v.name \in Decided
  BY <1>4, <1>5, <1>6, SqueezeWins
<1>8. v = Classify(bk, i, bm, sm)
  BY <1>1, <1>6 DEF Classify, Scores
<1>9. v.name \notin {"LIQUIDITY COIL", "ROTATION", "CHOP", "NEUTRAL"}
  BY <1>7 DEF Decided
<1>10. QED BY <1>7, <1>8, <1>9

-----------------------------------------------------------------------------
(* The sums over a selection. *)

AddsVolumes(g, sel, S) ==
    g = [s \in SUBSET S |-> IF s = {} THEN 0
            ELSE Vol(sel[CHOOSE x \in s : TRUE])
                 + g[s \ {CHOOSE x \in s : TRUE}]]
VolumeSum(sel, S) == MapThenSumSet(LAMBDA k : Vol(sel[k]), S)
Volumes(sel, S) == [k \in S |-> Vol(sel[k])]

LEMMA VolumeSumIs ==
  ASSUME NEW sel, NEW S, IsFiniteSet(S), \A k \in S : Vol(sel[k]) \in Int
  PROVE  VolumeSum(sel, S) = SumOver(Volumes(sel, S), S)
<1>1. PICK w : w = Volumes(sel, S)
  OBVIOUS
<1>2. \A k \in S : w[k] \in Int /\ w[k] = Vol(sel[k])
  BY <1>1 DEF Volumes
<1>3. PICK h : Sums(h, w, S)
  BY <1>2, SumsExist
<1>4. Adds(h, w, S)
  BY <1>2, <1>3, SumsAdd
<1>5. \A s \in SUBSET S : s # {} => w[CHOOSE x \in s : TRUE]
                                      = Vol(sel[CHOOSE x \in s : TRUE])
  BY <1>2
<1>6. AddsVolumes(h, sel, S)
  BY <1>4, <1>5 DEF Adds, AddsVolumes
<1>7. PICK g : g = CHOOSE it : AddsVolumes(it, sel, S)
  OBVIOUS
<1>8. VolumeSum(sel, S) = g[S]
  BY <1>7 DEF VolumeSum, MapThenSumSet, MapThenFoldSet, AddsVolumes
<1>9. AddsVolumes(g, sel, S)
  BY <1>6, <1>7
<1>10. Adds(g, w, S)
  <2>1. g = [s \in SUBSET S |-> g[s]] /\ g[{}] = 0
    BY <1>9 DEF AddsVolumes
  <2>2. \A s \in SUBSET S : s # {} => g[s] = w[CHOOSE x \in s : TRUE] + g[s \ {CHOOSE x \in s : TRUE}]
    BY <1>5, <1>9 DEF AddsVolumes
  <2>3. QED BY <2>1, <2>2, AddsFrom
<1>11. g[S] = h[S] /\ SumOver(w, S) = h[S]
  BY <1>2, <1>3, <1>10, SumIsUnique, SumIs
<1>12. QED BY <1>1, <1>8, <1>11

AddsBuys(g, sel, S) ==
    g = [s \in SUBSET S |-> IF s = {} THEN 0
            ELSE BuyVol(sel[CHOOSE x \in s : TRUE])
                 + g[s \ {CHOOSE x \in s : TRUE}]]
BuySum(sel, S) == MapThenSumSet(LAMBDA k : BuyVol(sel[k]), S)
BuysOf(sel, S) == [k \in S |-> BuyVol(sel[k])]

LEMMA BuySumIs ==
  ASSUME NEW sel, NEW S, IsFiniteSet(S), \A k \in S : BuyVol(sel[k]) \in Int
  PROVE  BuySum(sel, S) = SumOver(BuysOf(sel, S), S)
<1>1. PICK w : w = BuysOf(sel, S)
  OBVIOUS
<1>2. \A k \in S : w[k] \in Int /\ w[k] = BuyVol(sel[k])
  BY <1>1 DEF BuysOf
<1>3. PICK h : Sums(h, w, S)
  BY <1>2, SumsExist
<1>4. Adds(h, w, S)
  BY <1>2, <1>3, SumsAdd
<1>5. \A s \in SUBSET S : s # {} => w[CHOOSE x \in s : TRUE]
                                      = BuyVol(sel[CHOOSE x \in s : TRUE])
  BY <1>2
<1>6. AddsBuys(h, sel, S)
  BY <1>4, <1>5 DEF Adds, AddsBuys
<1>7. PICK g : g = CHOOSE it : AddsBuys(it, sel, S)
  OBVIOUS
<1>8. BuySum(sel, S) = g[S]
  BY <1>7 DEF BuySum, MapThenSumSet, MapThenFoldSet, AddsBuys
<1>9. AddsBuys(g, sel, S)
  BY <1>6, <1>7
<1>10. Adds(g, w, S)
  <2>1. g = [s \in SUBSET S |-> g[s]] /\ g[{}] = 0
    BY <1>9 DEF AddsBuys
  <2>2. \A s \in SUBSET S : s # {} => g[s] = w[CHOOSE x \in s : TRUE] + g[s \ {CHOOSE x \in s : TRUE}]
    BY <1>5, <1>9 DEF AddsBuys
  <2>3. QED BY <2>1, <2>2, AddsFrom
<1>11. g[S] = h[S] /\ SumOver(w, S) = h[S]
  BY <1>2, <1>3, <1>10, SumIsUnique, SumIs
<1>12. QED BY <1>1, <1>8, <1>11

AddsSells(g, sel, S) ==
    g = [s \in SUBSET S |-> IF s = {} THEN 0
            ELSE SellVol(sel[CHOOSE x \in s : TRUE])
                 + g[s \ {CHOOSE x \in s : TRUE}]]
SellSum(sel, S) == MapThenSumSet(LAMBDA k : SellVol(sel[k]), S)
SellsOf(sel, S) == [k \in S |-> SellVol(sel[k])]

LEMMA SellSumIs ==
  ASSUME NEW sel, NEW S, IsFiniteSet(S), \A k \in S : SellVol(sel[k]) \in Int
  PROVE  SellSum(sel, S) = SumOver(SellsOf(sel, S), S)
<1>1. PICK w : w = SellsOf(sel, S)
  OBVIOUS
<1>2. \A k \in S : w[k] \in Int /\ w[k] = SellVol(sel[k])
  BY <1>1 DEF SellsOf
<1>3. PICK h : Sums(h, w, S)
  BY <1>2, SumsExist
<1>4. Adds(h, w, S)
  BY <1>2, <1>3, SumsAdd
<1>5. \A s \in SUBSET S : s # {} => w[CHOOSE x \in s : TRUE]
                                      = SellVol(sel[CHOOSE x \in s : TRUE])
  BY <1>2
<1>6. AddsSells(h, sel, S)
  BY <1>4, <1>5 DEF Adds, AddsSells
<1>7. PICK g : g = CHOOSE it : AddsSells(it, sel, S)
  OBVIOUS
<1>8. SellSum(sel, S) = g[S]
  BY <1>7 DEF SellSum, MapThenSumSet, MapThenFoldSet, AddsSells
<1>9. AddsSells(g, sel, S)
  BY <1>6, <1>7
<1>10. Adds(g, w, S)
  <2>1. g = [s \in SUBSET S |-> g[s]] /\ g[{}] = 0
    BY <1>9 DEF AddsSells
  <2>2. \A s \in SUBSET S : s # {} => g[s] = w[CHOOSE x \in s : TRUE] + g[s \ {CHOOSE x \in s : TRUE}]
    BY <1>5, <1>9 DEF AddsSells
  <2>3. QED BY <2>1, <2>2, AddsFrom
<1>11. g[S] = h[S] /\ SumOver(w, S) = h[S]
  BY <1>2, <1>3, <1>10, SumIsUnique, SumIs
<1>12. QED BY <1>1, <1>8, <1>11

AddsField(g, sel, f, S) ==
    g = [s \in SUBSET S |-> IF s = {} THEN 0
            ELSE sel[CHOOSE x \in s : TRUE][f]
                 + g[s \ {CHOOSE x \in s : TRUE}]]
FieldSum(sel, f, S) == MapThenSumSet(LAMBDA k : sel[k][f], S)
FieldOf(sel, f, S) == [k \in S |-> sel[k][f]]

LEMMA FieldSumIs ==
  ASSUME NEW sel, NEW f, NEW S, IsFiniteSet(S), \A k \in S : sel[k][f] \in Int
  PROVE  FieldSum(sel, f, S) = SumOver(FieldOf(sel, f, S), S)
<1>1. PICK w : w = FieldOf(sel, f, S)
  OBVIOUS
<1>2. \A k \in S : w[k] \in Int /\ w[k] = sel[k][f]
  BY <1>1 DEF FieldOf
<1>3. PICK h : Sums(h, w, S)
  BY <1>2, SumsExist
<1>4. Adds(h, w, S)
  BY <1>2, <1>3, SumsAdd
<1>5. \A s \in SUBSET S : s # {} => w[CHOOSE x \in s : TRUE]
                                      = sel[CHOOSE x \in s : TRUE][f]
  BY <1>2
<1>6. AddsField(h, sel, f, S)
  BY <1>4, <1>5 DEF Adds, AddsField
<1>7. PICK g : g = CHOOSE it : AddsField(it, sel, f, S)
  OBVIOUS
<1>8. FieldSum(sel, f, S) = g[S]
  BY <1>7 DEF FieldSum, MapThenSumSet, MapThenFoldSet, AddsField
<1>9. AddsField(g, sel, f, S)
  BY <1>6, <1>7
<1>10. Adds(g, w, S)
  <2>1. g = [s \in SUBSET S |-> g[s]] /\ g[{}] = 0
    BY <1>9 DEF AddsField
  <2>2. \A s \in SUBSET S : s # {} => g[s] = w[CHOOSE x \in s : TRUE] + g[s \ {CHOOSE x \in s : TRUE}]
    BY <1>5, <1>9 DEF AddsField
  <2>3. QED BY <2>1, <2>2, AddsFrom
<1>11. g[S] = h[S] /\ SumOver(w, S) = h[S]
  BY <1>2, <1>3, <1>10, SumIsUnique, SumIs
<1>12. QED BY <1>1, <1>8, <1>11

AddsWeighed(g, sel, f, S) ==
    g = [s \in SUBSET S |-> IF s = {} THEN 0
            ELSE sel[CHOOSE x \in s : TRUE][f] * Vol(sel[CHOOSE x \in s : TRUE])
                 + g[s \ {CHOOSE x \in s : TRUE}]]
WeighedSum(sel, f, S) == MapThenSumSet(LAMBDA k : sel[k][f] * Vol(sel[k]), S)
WeighedOf(sel, f, S) == [k \in S |-> sel[k][f] * Vol(sel[k])]

LEMMA WeighedSumIs ==
  ASSUME NEW sel, NEW f, NEW S, IsFiniteSet(S), \A k \in S : sel[k][f] * Vol(sel[k]) \in Int
  PROVE  WeighedSum(sel, f, S) = SumOver(WeighedOf(sel, f, S), S)
<1>1. PICK w : w = WeighedOf(sel, f, S)
  OBVIOUS
<1>2. \A k \in S : w[k] \in Int /\ w[k] = sel[k][f] * Vol(sel[k])
  BY <1>1 DEF WeighedOf
<1>3. PICK h : Sums(h, w, S)
  BY <1>2, SumsExist
<1>4. Adds(h, w, S)
  BY <1>2, <1>3, SumsAdd
<1>5. \A s \in SUBSET S : s # {} => w[CHOOSE x \in s : TRUE]
                                      = sel[CHOOSE x \in s : TRUE][f] * Vol(sel[CHOOSE x \in s : TRUE])
  BY <1>2
<1>6. AddsWeighed(h, sel, f, S)
  BY <1>4, <1>5 DEF Adds, AddsWeighed
<1>7. PICK g : g = CHOOSE it : AddsWeighed(it, sel, f, S)
  OBVIOUS
<1>8. WeighedSum(sel, f, S) = g[S]
  BY <1>7 DEF WeighedSum, MapThenSumSet, MapThenFoldSet, AddsWeighed
<1>9. AddsWeighed(g, sel, f, S)
  BY <1>6, <1>7
<1>10. Adds(g, w, S)
  <2>1. g = [s \in SUBSET S |-> g[s]] /\ g[{}] = 0
    BY <1>9 DEF AddsWeighed
  <2>2. \A s \in SUBSET S : s # {} => g[s] = w[CHOOSE x \in s : TRUE] + g[s \ {CHOOSE x \in s : TRUE}]
    BY <1>5, <1>9 DEF AddsWeighed
  <2>3. QED BY <2>1, <2>2, AddsFrom
<1>11. g[S] = h[S] /\ SumOver(w, S) = h[S]
  BY <1>2, <1>3, <1>10, SumIsUnique, SumIs
<1>12. QED BY <1>1, <1>8, <1>11

AddsAtLevel(g, sel, p, S) ==
    g = [s \in SUBSET S |-> IF s = {} THEN 0
            ELSE LevelVol(sel[CHOOSE x \in s : TRUE].levels, p)
                 + g[s \ {CHOOSE x \in s : TRUE}]]
AtLevelSum(sel, p, S) == MapThenSumSet(LAMBDA k : LevelVol(sel[k].levels, p), S)
AtLevel(sel, p, S) == [k \in S |-> LevelVol(sel[k].levels, p)]

LEMMA AtLevelSumIs ==
  ASSUME NEW sel, NEW p, NEW S, IsFiniteSet(S), \A k \in S : LevelVol(sel[k].levels, p) \in Int
  PROVE  AtLevelSum(sel, p, S) = SumOver(AtLevel(sel, p, S), S)
<1>1. PICK w : w = AtLevel(sel, p, S)
  OBVIOUS
<1>2. \A k \in S : w[k] \in Int /\ w[k] = LevelVol(sel[k].levels, p)
  BY <1>1 DEF AtLevel
<1>3. PICK h : Sums(h, w, S)
  BY <1>2, SumsExist
<1>4. Adds(h, w, S)
  BY <1>2, <1>3, SumsAdd
<1>5. \A s \in SUBSET S : s # {} => w[CHOOSE x \in s : TRUE]
                                      = LevelVol(sel[CHOOSE x \in s : TRUE].levels, p)
  BY <1>2
<1>6. AddsAtLevel(h, sel, p, S)
  BY <1>4, <1>5 DEF Adds, AddsAtLevel
<1>7. PICK g : g = CHOOSE it : AddsAtLevel(it, sel, p, S)
  OBVIOUS
<1>8. AtLevelSum(sel, p, S) = g[S]
  BY <1>7 DEF AtLevelSum, MapThenSumSet, MapThenFoldSet, AddsAtLevel
<1>9. AddsAtLevel(g, sel, p, S)
  BY <1>6, <1>7
<1>10. Adds(g, w, S)
  <2>1. g = [s \in SUBSET S |-> g[s]] /\ g[{}] = 0
    BY <1>9 DEF AddsAtLevel
  <2>2. \A s \in SUBSET S : s # {} => g[s] = w[CHOOSE x \in s : TRUE] + g[s \ {CHOOSE x \in s : TRUE}]
    BY <1>5, <1>9 DEF AddsAtLevel
  <2>3. QED BY <2>1, <2>2, AddsFrom
<1>11. g[S] = h[S] /\ SumOver(w, S) = h[S]
  BY <1>2, <1>3, <1>10, SumIsUnique, SumIs
<1>12. QED BY <1>1, <1>8, <1>11

-----------------------------------------------------------------------------
(* A selection's rates stay on the scale of one bucket. *)

Rates == {"vel", "ber", "ser"}

LEMMA RateIs ==
  ASSUME NEW b, IsBucket(b), NEW f \in Rates
  PROVE  b[f] \in Nat
<1>1. b.vel \in Nat /\ b.ber \in Nat /\ b.ser \in Nat
  BY BucketFields
<1>2. QED BY <1>1 DEF Rates

(* Numbers x with the weights v, between lo and hi where they weigh.       *)
Weighs(S, v, x, z, W, lo, hi) ==
    /\ IsFiniteSet(S) /\ \A k \in S : v[k] \in Nat /\ x[k] \in Nat /\ z[k] = x[k] * v[k]
    /\ W = {k \in S : v[k] > 0}
    /\ lo \in Int /\ hi \in Int /\ \A k \in W : lo <= x[k] /\ x[k] <= hi
Balances(S, v, z, W, lo, hi) ==
    /\ lo * SumOver(v, S) <= SumOver(z, S) /\ SumOver(z, S) <= hi * SumOver(v, S)
    /\ SumOver(v, W) = SumOver(v, S) /\ SumOver(z, W) = SumOver(z, S)
    /\ (W = {} <=> SumOver(v, S) = 0)

LEMMA WeightedMean ==
  ASSUME NEW S, NEW v, NEW x, NEW z, NEW W, NEW lo, NEW hi, Weighs(S, v, x, z, W, lo, hi)
  PROVE  Balances(S, v, z, W, lo, hi)
<1>0. /\ IsFiniteSet(S) /\ \A k \in S : v[k] \in Nat /\ x[k] \in Nat
      /\ \A k \in S : z[k] = x[k] * v[k]
      /\ W = {k \in S : v[k] > 0}
      /\ lo \in Int /\ hi \in Int /\ \A k \in W : lo <= x[k] /\ x[k] <= hi
  BY DEF Weighs
<1>1. \A k \in S : v[k] \in Int /\ z[k] \in Int
  <2>1. ASSUME NEW k \in S PROVE v[k] \in Int /\ z[k] \in Int
    <3>1. PICK a, c \in Nat : a = v[k] /\ c = x[k]
      BY <1>0
    <3>2. c * a \in Int
      OBVIOUS
    <3>3. QED BY <1>0, <3>1, <3>2
  <2>2. QED BY <2>1
<1>2. \A k \in S \ W : v[k] = 0 /\ z[k] = 0
  <2>1. ASSUME NEW k \in S \ W PROVE v[k] = 0 /\ z[k] = 0
    <3>1. v[k] = 0
      BY <1>0
    <3>2. PICK c \in Nat : c = x[k]
      BY <1>0
    <3>3. z[k] = c * 0
      BY <1>0, <3>1, <3>2
    <3>4. c * 0 = 0
      OBVIOUS
    <3>5. QED BY <3>1, <3>3, <3>4
  <2>2. QED BY <2>1
<1>3. \A k \in S : lo * v[k] <= z[k] /\ z[k] <= hi * v[k]
  <2>1. ASSUME NEW k \in S PROVE lo * v[k] <= z[k] /\ z[k] <= hi * v[k]
    <3>1. CASE k \in W
      <4>1. PICK a, c \in Nat : a = v[k] /\ c = x[k] /\ lo <= c /\ c <= hi
        BY <1>0, <3>1
      <4>2. lo * a <= c * a /\ c * a <= hi * a
        <5>1. lo \in Int /\ hi \in Int
          BY <1>0
        <5>2. QED BY <4>1, <5>1
      <4>3. QED BY <1>0, <4>1, <4>2
    <3>2. CASE k \notin W
      <4>1. v[k] = 0 /\ z[k] = 0
        BY <1>2, <3>2
      <4>2. lo * 0 = 0 /\ hi * 0 = 0
        BY <1>0
      <4>3. QED BY <4>1, <4>2
    <3>3. QED BY <3>1, <3>2
  <2>2. QED BY <2>1
<1>4. lo * SumOver(v, S) <= SumOver(z, S) /\ SumOver(z, S) <= hi * SumOver(v, S)
  <2>1. lo * SumOver(v, S) <= SumOver(z, S)
    BY <1>0, <1>1, <1>3, SumAtLeast
  <2>2. SumOver(z, S) <= hi * SumOver(v, S)
    BY <1>0, <1>1, <1>3, SumAtMost
  <2>3. QED BY <2>1, <2>2
<1>5. SumOver(v, W) = SumOver(v, S) /\ SumOver(z, W) = SumOver(z, S)
  <2>1. W \in SUBSET S
    BY <1>0
  <2>2. QED BY <1>0, <1>1, <1>2, <2>1, SumOfSupport
<1>6. W = {} <=> SumOver(v, S) = 0
  <2>1. CASE W = {}
    <3>1. SumOver(v, {}) = 0
      BY <1>0, <1>1, SumGrows
    <3>2. QED BY <1>5, <2>1, <3>1
  <2>2. CASE W # {}
    <3>1. PICK k \in S : v[k] > 0
      BY <1>0, <2>2
    <3>2. PICK a, c : a = v[k] /\ c = SumOver(v, S)
      OBVIOUS
    <3>3. a \in Nat /\ c \in Nat /\ a > 0 /\ a <= c
      BY <1>0, <3>1, <3>2, SumOfNaturals
    <3>4. c # 0
      BY <3>3
    <3>5. QED BY <2>2, <3>2, <3>4
  <2>3. QED BY <2>1, <2>2
<1>7. QED BY <1>4, <1>5, <1>6 DEF Balances

LEMMA PlainMean ==
  ASSUME NEW S, IsFiniteSet(S), NEW x, \A k \in S : x[k] \in Nat,
         NEW lo \in Int, NEW hi \in Int, \A k \in S : lo <= x[k] /\ x[k] <= hi
  PROVE  lo * Cardinality(S) <= SumOver(x, S) /\ SumOver(x, S) <= hi * Cardinality(S)
<1>1. PICK v : v = [k \in S |-> 1]
  OBVIOUS
<1>2. \A k \in S : v[k] = 1 /\ v[k] \in Int /\ x[k] \in Int /\ lo * v[k] = lo /\ hi * v[k] = hi
  BY <1>1
<1>3. SumOver(v, S) = Cardinality(S)
  BY <1>2, SumOfOnes
<1>4. lo * SumOver(v, S) <= SumOver(x, S)
  BY <1>2, SumAtLeast
<1>5. SumOver(x, S) <= hi * SumOver(v, S)
  BY <1>2, SumAtMost
<1>6. QED BY <1>3, <1>4, <1>5

ValuesIn(sel, f, use) == {sel[k][f] : k \in use}

LEMMA ValuesBound ==
  ASSUME NEW use, IsFiniteSet(use), use # {}, NEW sel, NEW f, \A k \in use : sel[k][f] \in Nat
  PROVE  /\ Min(ValuesIn(sel, f, use)) \in Int /\ Max(ValuesIn(sel, f, use)) \in Int
         /\ \A k \in use : Min(ValuesIn(sel, f, use)) <= sel[k][f] /\ sel[k][f] <= Max(ValuesIn(sel, f, use))
<1>1. PICK E : E = {sel[k][f] : k \in use} /\ E = ValuesIn(sel, f, use)
  BY DEF ValuesIn
<1>2. PICK g : g = [k \in use |-> sel[k][f]]
  OBVIOUS
<1>3. g \in Surjection(use, E)
  BY <1>1, <1>2 DEF Surjection
<1>4. IsFiniteSet(E)
  BY <1>3, FS_Surjection
<1>5. E \subseteq Int /\ E # {}
  BY <1>1
<1>6. Min(E) \in E /\ Max(E) \in E /\ \A y \in E : Min(E) <= y /\ y <= Max(E)
  BY <1>4, <1>5, ExtremesOf
<1>7. \A k \in use : sel[k][f] \in E
  BY <1>1
<1>8. QED BY <1>1, <1>5, <1>6, <1>7

(* The mean of a rate over a selection.                                    *)
OnScale(sel, f) ==
    LET w == Weighted(sel, f)
        weight == {k \in DOMAIN sel : Vol(sel[k]) > 0}
        use == IF weight = {} THEN DOMAIN sel ELSE weight
    IN  /\ Min(ValuesIn(sel, f, use)) * w.den <= w.num
        /\ w.num <= Max(ValuesIn(sel, f, use)) * w.den
        /\ w.num * VolumeSum(sel, weight) = w.den * WeighedSum(sel, f, weight)

LEMMA MeanOnScale ==
  ASSUME NEW sel, NEW n \in Nat \ {0}, Buckets(sel, n), NEW f \in Rates
  PROVE  OnScale(sel, f)
<1>1. PICK S : S = 1..n
  OBVIOUS
<1>2. DOMAIN sel = S /\ Len(sel) = n /\ S # {} /\ 1 \in S /\ \A k \in S : IsBucket(sel[k])
  BY <1>1 DEF Buckets
<1>3. IsFiniteSet(S) /\ Cardinality(S) = n
  BY <1>1, FS_Interval
<1>4. \A k \in S : Vol(sel[k]) \in Nat /\ sel[k][f] \in Nat
  BY <1>2, VolumesAre, RateIs
<1>5. PICK v, x, z, W : /\ v = Volumes(sel, S) /\ x = FieldOf(sel, f, S) /\ z = WeighedOf(sel, f, S)
                        /\ W = {k \in S : v[k] > 0}
  OBVIOUS
<1>6. \A k \in S : v[k] = Vol(sel[k]) /\ x[k] = sel[k][f] /\ z[k] = sel[k][f] * Vol(sel[k])
  BY <1>5 DEF Volumes, FieldOf, WeighedOf
<1>7. \A k \in S : v[k] \in Nat /\ x[k] \in Nat /\ z[k] = x[k] * v[k]
  BY <1>4, <1>6
<1>8. W = {k \in DOMAIN sel : Vol(sel[k]) > 0} /\ W \in SUBSET S
  BY <1>2, <1>5, <1>6
<1>9. \A k \in S : Vol(sel[k]) \in Int /\ sel[k][f] \in Int /\ sel[k][f] * Vol(sel[k]) \in Int
  BY <1>4
<1>10. VolumeSum(sel, S) = SumOver(v, S) /\ WeighedSum(sel, f, S) = SumOver(z, S)
       /\ FieldSum(sel, f, S) = SumOver(x, S)
  BY <1>3, <1>5, <1>9, VolumeSumIs, WeighedSumIs, FieldSumIs
<1>11. VolumeSum(sel, W) = SumOver(v, W) /\ WeighedSum(sel, f, W) = SumOver(z, W)
  <2>1. PICK p, q : p = Volumes(sel, W) /\ q = WeighedOf(sel, f, W)
    OBVIOUS
  <2>2. IsFiniteSet(W)
    BY <1>3, <1>8, FS_Subset
  <2>3. VolumeSum(sel, W) = SumOver(p, W) /\ WeighedSum(sel, f, W) = SumOver(q, W)
    <3>1. \A k \in W : Vol(sel[k]) \in Int /\ sel[k][f] * Vol(sel[k]) \in Int
      BY <1>8, <1>9
    <3>2. QED BY <2>1, <2>2, <3>1, VolumeSumIs, WeighedSumIs
  <2>4. \A k \in W : p[k] = v[k] /\ q[k] = z[k]
    BY <1>6, <1>8, <2>1 DEF Volumes, WeighedOf
  <2>5. \A k \in W : v[k] \in Int /\ z[k] \in Int
    BY <1>6, <1>8, <1>9
  <2>6. SumOver(p, W) = SumOver(v, W)
    BY <2>2, <2>4, <2>5, SumSame
  <2>7. SumOver(q, W) = SumOver(z, W)
    BY <2>2, <2>4, <2>5, SumSame
  <2>8. QED BY <2>3, <2>6, <2>7
<1>12. PICK vol, sum : vol = SumOver(v, S) /\ sum = SumOver(z, S)
  OBVIOUS
<1>13. vol \in Nat /\ sum \in Int
  <2>1. \A k \in S : v[k] \in Nat /\ z[k] \in Int
    BY <1>6, <1>7, <1>9
  <2>2. vol \in Nat
    BY <1>3, <1>12, <2>1, SumOfNaturals
  <2>3. sum \in Int
    BY <1>3, <1>12, <2>1, SumOfFunction
  <2>4. QED BY <2>2, <2>3
<1>14. Weighted(sel, f) = IF vol > 0 THEN Q(sum, vol) ELSE Q(FieldSum(sel, f, S), n)
  <2>1. VolumeSum(sel, S) = MapThenSumSet(LAMBDA k : Vol(sel[k]), DOMAIN sel)
    BY <1>2 DEF VolumeSum
  <2>2. WeighedSum(sel, f, S) = MapThenSumSet(LAMBDA k : sel[k][f] * Vol(sel[k]), DOMAIN sel)
    BY <1>2 DEF WeighedSum
  <2>3. FieldSum(sel, f, S) = SumField(sel, f)
    BY <1>2 DEF FieldSum, SumField
  <2>4. QED BY <1>2, <1>10, <1>12, <2>1, <2>2, <2>3 DEF Weighted
<1>15. PICK w, use, lo, hi : /\ w = Weighted(sel, f) /\ use = IF W = {} THEN S ELSE W
                            /\ lo = Min(ValuesIn(sel, f, use)) /\ hi = Max(ValuesIn(sel, f, use))
  OBVIOUS
<1>16. use # {} /\ use \in SUBSET S /\ W \in SUBSET use
  BY <1>2, <1>8, <1>15
<1>17. /\ lo \in Int /\ hi \in Int
       /\ \A k \in use : lo <= x[k] /\ x[k] <= hi
  <2>1. IsFiniteSet(use)
    BY <1>3, <1>16, FS_Subset
  <2>2. \A k \in use : sel[k][f] \in Nat /\ x[k] = sel[k][f]
    BY <1>4, <1>6, <1>16
  <2>3. lo \in Int /\ hi \in Int /\ \A k \in use : lo <= sel[k][f] /\ sel[k][f] <= hi
    BY <1>15, <1>16, <2>1, <2>2, ValuesBound
  <2>4. QED BY <2>2, <2>3
<1>18. /\ lo * vol <= sum /\ sum <= hi * vol
       /\ SumOver(v, W) = vol /\ SumOver(z, W) = sum /\ (W = {} <=> vol = 0)
  <2>1. \A k \in W : lo <= x[k] /\ x[k] <= hi
    BY <1>16, <1>17
  <2>2. lo \in Int /\ hi \in Int
    BY <1>17
  <2>3. Weighs(S, v, x, z, W, lo, hi)
    BY <1>3, <1>5, <1>7, <2>1, <2>2 DEF Weighs
  <2>4. Balances(S, v, z, W, lo, hi)
    BY <2>3, WeightedMean
  <2>5. QED BY <1>12, <2>4 DEF Balances
<1>19. lo * w.den <= w.num /\ w.num <= hi * w.den /\ w.num * vol = w.den * sum
  <2>1. CASE vol > 0
    <3>1. w.num = sum /\ w.den = vol
      BY <1>14, <1>15, <2>1 DEF Q
    <3>2. sum * vol = vol * sum
      BY <1>13
    <3>3. QED BY <1>18, <3>1, <3>2
  <2>2. CASE ~(vol > 0)
    <3>1. vol = 0
      BY <1>13, <2>2
    <3>2. W = {} /\ use = S
      BY <1>15, <1>18, <3>1
    <3>3. w.num = SumOver(x, S) /\ w.den = n
      BY <1>10, <1>14, <1>15, <2>2 DEF Q
    <3>4. lo * n <= SumOver(x, S) /\ SumOver(x, S) <= hi * n
      <4>1. \A k \in S : x[k] \in Nat
        BY <1>7
      <4>2. QED BY <1>3, <1>17, <3>2, <4>1, PlainMean
    <3>5. sum = 0
      <4>1. SumOver(z, {}) = 0
        <5>1. \A k \in S : z[k] \in Int
          BY <1>6, <1>9
        <5>2. QED BY <1>3, <5>1, SumGrows
      <4>2. QED BY <1>18, <3>2, <4>1
    <3>6. SumOver(x, S) \in Int
      <4>1. \A k \in S : x[k] \in Int
        BY <1>7
      <4>2. QED BY <1>3, <4>1, SumOfFunction
    <3>7. w.num * 0 = 0 /\ w.den * 0 = 0
      BY <3>3, <3>6
    <3>8. QED BY <3>1, <3>3, <3>4, <3>5, <3>7
  <2>3. QED BY <2>1, <2>2
<1>20. w.num * VolumeSum(sel, W) = w.den * WeighedSum(sel, f, W)
  BY <1>11, <1>18, <1>19
<1>21. QED BY <1>2, <1>8, <1>15, <1>19, <1>20 DEF OnScale

LEMMA SelectionIs ==
  ASSUME NEW bk, WellFormed(bk), NEW lo \in DOMAIN bk, NEW hi \in DOMAIN bk, lo <= hi
  PROVE  /\ Buckets(SubSeq(bk, lo, hi), hi - lo + 1) /\ hi - lo + 1 \in Nat \ {0}
         /\ \A k \in 1..(hi - lo + 1) : SubSeq(bk, lo, hi)[k] = bk[lo + k - 1]
<1>1. PICK n, S, s : n = Len(bk) /\ S = {bk[k] : k \in 1..n} /\ s = SubSeq(bk, lo, hi)
  OBVIOUS
<1>2. n \in Nat /\ DOMAIN bk = 1..n /\ \A k \in 1..n : IsBucket(bk[k])
  BY <1>1, BucketTimes DEF WellFormed
<1>3. lo \in 1..n /\ hi \in 1..n /\ hi - lo + 1 \in Nat \ {0} /\ lo \in Int /\ hi \in Int /\ n \in Nat
  BY <1>2
<1>4. \A k \in lo..hi : bk[k] \in S
  <2>1. \A k \in lo..hi : k \in 1..n
    BY <1>3
  <2>2. QED BY <1>1, <2>1
<1>5. /\ s \in Seq(S) /\ Len(s) = (IF lo <= hi THEN hi - lo + 1 ELSE 0)
      /\ \A k \in 1..(hi - lo + 1) : s[k] = bk[lo + k - 1]
  BY <1>1, <1>3, <1>4, SubSeqProperties
<1>6. Len(s) = hi - lo + 1 /\ DOMAIN s = 1..(hi - lo + 1)
  BY <1>5
<1>7. \A k \in 1..(hi - lo + 1) : IsBucket(s[k])
  <2>1. \A k \in 1..(hi - lo + 1) : lo + k - 1 \in 1..n
    BY <1>3
  <2>2. QED BY <1>2, <1>5, <2>1
<1>8. Buckets(s, hi - lo + 1)
  BY <1>3, <1>6, <1>7 DEF Buckets
<1>9. QED BY <1>1, <1>3, <1>5, <1>8

-----------------------------------------------------------------------------
(* The selection of one bucket. *)

(* The window before a bucket, out of a longer one q that ends with it.    *)
EndsAt(q, bk, n, i, p, d) ==
    /\ n \in Nat /\ DOMAIN bk = 1..n /\ i \in 1..n /\ p \in Nat /\ d = i - First(i, p)
    /\ DOMAIN q = 1..(d + 1) /\ \A k \in 1..(d + 1) : q[k] = bk[First(i, p) + k - 1]

SameWindow(q, bk, i, d, w) == SubSeq(q, First(d + 1, w), d) = SubSeq(bk, First(i, w), i - 1)

LEMMA WindowOf ==
  ASSUME NEW n, NEW bk, NEW i, NEW p, NEW q, NEW d, EndsAt(q, bk, n, i, p, d), NEW w \in Nat, w <= p
  PROVE  SameWindow(q, bk, i, d, w)
<1>0. PICK lo : /\ lo = First(i, p) /\ d = i - lo /\ n \in Nat /\ DOMAIN bk = 1..n /\ i \in 1..n /\ p \in Nat
               /\ DOMAIN q = 1..(d + 1) /\ \A k \in 1..(d + 1) : q[k] = bk[lo + k - 1]
  BY DEF EndsAt
<1>1. \A k \in Int : First(k, w) = (IF 1 >= k - w THEN 1 ELSE k - w) /\ First(k, p) = (IF 1 >= k - p THEN 1 ELSE k - p)
  <2>1. ASSUME NEW k \in Int
        PROVE  First(k, w) = (IF 1 >= k - w THEN 1 ELSE k - w) /\ First(k, p) = (IF 1 >= k - p THEN 1 ELSE k - p)
    <3>1. PICK x, y : x = k - w /\ y = k - p /\ x \in Int /\ y \in Int /\ 1 \in Int
      BY <1>0
    <3>2. Max({1, x}) = (IF 1 >= x THEN 1 ELSE x) /\ Max({1, y}) = (IF 1 >= y THEN 1 ELSE y)
      BY <3>1, OfTwo
    <3>3. QED BY <3>1, <3>2 DEF First
  <2>2. QED BY <2>1
<1>2. lo \in 1..i /\ d \in Nat /\ d + 1 \in Int /\ i \in Int
  <2>1. i \in Int /\ i \in Nat /\ i >= 1
    BY <1>0
  <2>2. lo = (IF 1 >= i - p THEN 1 ELSE i - p)
    BY <1>0, <1>1, <2>1
  <2>3. QED BY <1>0, <2>1, <2>2
<1>3. PICK a, b, e : a = First(i, w) /\ b = First(d + 1, w) /\ e = d + 1
  OBVIOUS
<1>4. a = (IF 1 >= i - w THEN 1 ELSE i - w) /\ b = (IF 1 >= (d + 1) - w THEN 1 ELSE (d + 1) - w)
      /\ lo = (IF 1 >= i - p THEN 1 ELSE i - p)
  BY <1>0, <1>1, <1>2, <1>3
<1>5. a = lo + b - 1 /\ a \in Int /\ b \in Int
  BY <1>0, <1>2, <1>4
<1>6. PICK s, t : s = SubSeq(q, b, d) /\ t = SubSeq(bk, a, i - 1)
  OBVIOUS
<1>7. Precede(t, bk, n, i, w)
  BY <1>0, <1>3, <1>6, BucketsBefore
<1>8. Precede(s, q, e, e, w)
  <2>1. e \in Nat /\ e \in 1..e /\ DOMAIN q = 1..e /\ e - 1 = d
    <3>1. e = d + 1 /\ d \in Nat
      BY <1>2, <1>3
    <3>2. DOMAIN q = 1..(d + 1)
      BY <1>0
    <3>3. DOMAIN q = 1..e
      BY <3>1, <3>2
    <3>4. e \in Nat /\ e \in 1..e /\ e - 1 = d
      BY <3>1
    <3>5. QED BY <3>3, <3>4
  <2>2. Precede(SubSeq(q, First(e, w), e - 1), q, e, e, w)
    BY <2>1, BucketsBefore
  <2>3. QED BY <1>3, <1>6, <2>1, <2>2
<1>9. PICK m : m = i - a /\ m \in Nat /\ e - b = m
  <2>1. a \in 1..i
    BY <1>3, <1>7 DEF Precede
  <2>2. i - a \in Nat
    BY <1>2, <2>1
  <2>3. e - b = i - a
    <3>1. /\ i \in Int /\ lo \in Int /\ a \in Int /\ b \in Int /\ a = lo + b - 1
      BY <1>2, <1>5
    <3>2. e = (i - lo) + 1
      BY <1>0, <1>3
    <3>3. QED BY <3>1, <3>2
  <2>4. QED BY <2>2, <2>3
<1>10. t \in Seq({bk[k] : k \in 1..n}) /\ Len(t) = m /\ \A k \in 1..m : t[k] = bk[a + k - 1]
  BY <1>3, <1>7, <1>9 DEF Precede
<1>11. s \in Seq({q[k] : k \in 1..e}) /\ Len(s) = m /\ \A k \in 1..m : s[k] = q[b + k - 1] /\ b + k - 1 \in 1..e
  BY <1>3, <1>8, <1>9 DEF Precede
<1>12. \A k \in 1..m : s[k] = t[k]
  <2>1. ASSUME NEW k \in 1..m PROVE s[k] = t[k]
    <3>1. PICK j : j = b + k - 1 /\ j \in 1..e /\ s[k] = q[j]
      BY <1>11
    <3>2. q[j] = bk[lo + j - 1]
      BY <1>0, <1>3, <3>1
    <3>3. lo + j - 1 = a + k - 1
      BY <1>2, <1>5, <3>1
    <3>4. QED BY <1>10, <3>1, <3>2, <3>3
  <2>2. QED BY <2>1
<1>13. s = [k \in 1..m |-> s[k]]
  BY <1>11
<1>14. t = [k \in 1..m |-> t[k]]
  BY <1>10
<1>15. s = t
  BY <1>12, <1>13, <1>14
<1>16. QED BY <1>3, <1>6, <1>15 DEF SameWindow

LEMMA WindowsOfOne ==
  ASSUME NEW bk, WellFormed(bk), NEW i \in DOMAIN bk
  PROVE  SelectionInput(bk, i, i).win = Windows(bk, i)
<1>1. PICK n : n = Len(bk) /\ n \in Nat /\ DOMAIN bk = 1..n
  BY BucketTimes
<1>2. SweepWindow \in Nat /\ ExhWindow \in Nat /\ i \in 1..n
  BY <1>1, StateEngineAssumption, RegionStateAssumption
<1>3. PICK p \in Nat : p = Max({SweepWindow, ExhWindow}) /\ SweepWindow <= p /\ ExhWindow <= p
  <2>1. SweepWindow \in Int /\ ExhWindow \in Int
    BY <1>2
  <2>2. Max({SweepWindow, ExhWindow}) = IF SweepWindow >= ExhWindow THEN SweepWindow ELSE ExhWindow
    BY <2>1, OfTwo
  <2>3. QED BY <1>2, <2>2
<1>4. PICK lo, s, d, q : /\ lo = First(i, p) /\ lo = Max({1, i - p}) /\ s = SubSeq(bk, lo, i - 1)
                         /\ d = i - lo /\ q = Append(s, bk[i])
  BY DEF First
<1>5. Precede(s, bk, n, i, p)
  BY <1>1, <1>2, <1>4, BucketsBefore
<1>6. /\ lo \in 1..i /\ s \in Seq({bk[k] : k \in 1..n}) /\ Len(s) = d
      /\ \A k \in 1..d : s[k] = bk[lo + k - 1]
  BY <1>4, <1>5 DEF Precede
<1>7. d \in Nat /\ lo + (d + 1) - 1 = i
  <2>1. i \in Nat /\ lo \in Nat /\ lo <= i
    BY <1>1, <1>2, <1>6
  <2>2. d = i - lo
    BY <1>4
  <2>3. QED BY <2>1, <2>2
<1>8. DOMAIN q = 1..(d + 1) /\ q[d + 1] = bk[i] /\ \A k \in 1..d : q[k] = s[k]
  <2>1. PICK b : b = bk[i] /\ b \in {bk[k] : k \in 1..n}
    BY <1>2
  <2>2. Append(s, b) \in Seq({bk[k] : k \in 1..n}) /\ Len(Append(s, b)) = d + 1
    BY <1>6, <2>1
  <2>3. Append(s, b)[d + 1] = b /\ \A k \in 1..d : Append(s, b)[k] = s[k]
    BY <1>6, <1>7, <2>1
  <2>4. DOMAIN Append(s, b) = 1..(d + 1)
    BY <2>2
  <2>5. QED BY <1>4, <2>1, <2>3, <2>4
<1>9. \A k \in 1..(d + 1) : q[k] = bk[lo + k - 1]
  <2>1. ASSUME NEW k \in 1..(d + 1) PROVE q[k] = bk[lo + k - 1]
    <3>1. CASE k = d + 1
      BY <1>7, <1>8, <3>1
    <3>2. CASE k # d + 1
      <4>1. k \in 1..d
        BY <1>7, <3>2
      <4>2. QED BY <1>6, <1>8, <4>1
    <3>3. QED BY <3>1, <3>2
  <2>2. QED BY <2>1
<1>10. /\ SubSeq(q, First(d + 1, SweepWindow), d) = SubSeq(bk, First(i, SweepWindow), i - 1)
       /\ SubSeq(q, First(d + 1, ExhWindow), d) = SubSeq(bk, First(i, ExhWindow), i - 1)
  <2>1. EndsAt(q, bk, n, i, p, d)
    <3>1. n \in Nat /\ DOMAIN bk = 1..n /\ i \in 1..n /\ p \in Nat
      BY <1>1, <1>2
    <3>2. d = i - First(i, p) /\ DOMAIN q = 1..(d + 1)
      BY <1>4, <1>8
    <3>3. \A k \in 1..(d + 1) : q[k] = bk[First(i, p) + k - 1]
      BY <1>4, <1>9
    <3>4. QED BY <3>1, <3>2, <3>3 DEF EndsAt
  <2>2. SameWindow(q, bk, i, d, SweepWindow) /\ SameWindow(q, bk, i, d, ExhWindow)
    BY <1>2, <1>3, <2>1, WindowOf
  <2>3. QED BY <2>2 DEF SameWindow
<1>11. Windows(q, d + 1) = Windows(bk, i)
  <2>1. (d + 1) - 1 = d
    BY <1>7
  <2>2. QED BY <1>10, <2>1 DEF Windows, Context, First
<1>12. SelectionInput(bk, i, i).win = Windows(q, d + 1)
  <2>1. Len(s) + 1 = d + 1
    BY <1>6
  <2>2. QED BY <1>3, <1>4, <2>1 DEF SelectionInput
<1>13. QED BY <1>11, <1>12

Summed == {"opL", "opS", "clL", "clS", "churn", "liqS", "liqL"}

LEMMA SummedIs ==
  ASSUME NEW b, IsBucket(b), NEW f \in Summed
  PROVE  b[f] \in Nat
<1>1. /\ b.opL \in Nat /\ b.opS \in Nat /\ b.clL \in Nat /\ b.clS \in Nat
      /\ b.churn \in Nat /\ b.liqS \in Nat /\ b.liqL \in Nat
  BY DEF IsBucket
<1>2. QED BY <1>1 DEF Summed

LEMMA ExtremesOfOne ==
  ASSUME NEW x \in Int
  PROVE  Max({x}) = x /\ Min({x}) = x
<1>1. IsFiniteSet({x}) /\ {x} \subseteq Int /\ {x} # {}
  BY FS_Singleton
<1>2. Max({x}) \in {x} /\ Min({x}) \in {x}
  BY <1>1, ExtremesOf
<1>3. QED BY <1>2

(* The synthetic bucket of one bucket is that bucket.                      *)
Single(sel, b) == Len(sel) = 1 /\ DOMAIN sel = {1} /\ sel[1] = b

LEMMA SumsOfOne ==
  ASSUME NEW sel, NEW b, IsBucket(b), Single(sel, b)
  PROVE  /\ VolumeSum(sel, {1}) = Vol(b) /\ BuySum(sel, {1}) = BuyVol(b) /\ SellSum(sel, {1}) = SellVol(b)
         /\ \A f \in Rates \cup Summed : FieldSum(sel, f, {1}) = b[f]
         /\ \A f \in Rates : WeighedSum(sel, f, {1}) = b[f] * Vol(b)
         /\ \A p : AtLevelSum(sel, p, {1}) = LevelVol(b.levels, p)
<1>1. IsFiniteSet({1}) /\ sel[1] = b
  BY FS_Singleton DEF Single
<1>2. Vol(b) \in Int /\ BuyVol(b) \in Int /\ SellVol(b) \in Int
  BY VolumesAre
<1>3. VolumeSum(sel, {1}) = Vol(b)
  <2>1. PICK w : w = Volumes(sel, {1})
    OBVIOUS
  <2>2. w[1] = Vol(b)
    BY <1>1, <2>1 DEF Volumes
  <2>3. \A k \in {1} : Vol(sel[k]) \in Int
    BY <1>1, <1>2
  <2>4. VolumeSum(sel, {1}) = SumOver(w, {1})
    BY <1>1, <2>1, <2>3, VolumeSumIs
  <2>5. QED BY <1>2, <2>2, <2>4, SumOfOne
<1>4. BuySum(sel, {1}) = BuyVol(b)
  <2>1. PICK w : w = BuysOf(sel, {1})
    OBVIOUS
  <2>2. w[1] = BuyVol(b)
    BY <1>1, <2>1 DEF BuysOf
  <2>3. \A k \in {1} : BuyVol(sel[k]) \in Int
    BY <1>1, <1>2
  <2>4. BuySum(sel, {1}) = SumOver(w, {1})
    BY <1>1, <2>1, <2>3, BuySumIs
  <2>5. QED BY <1>2, <2>2, <2>4, SumOfOne
<1>5. SellSum(sel, {1}) = SellVol(b)
  <2>1. PICK w : w = SellsOf(sel, {1})
    OBVIOUS
  <2>2. w[1] = SellVol(b)
    BY <1>1, <2>1 DEF SellsOf
  <2>3. \A k \in {1} : SellVol(sel[k]) \in Int
    BY <1>1, <1>2
  <2>4. SellSum(sel, {1}) = SumOver(w, {1})
    BY <1>1, <2>1, <2>3, SellSumIs
  <2>5. QED BY <1>2, <2>2, <2>4, SumOfOne
<1>6. ASSUME NEW f \in Rates \cup Summed PROVE FieldSum(sel, f, {1}) = b[f]
  <2>1. PICK w : w = FieldOf(sel, f, {1})
    OBVIOUS
  <2>2. w[1] = b[f]
    BY <1>1, <2>1 DEF FieldOf
  <2>3. b[f] \in Int
    BY RateIs, SummedIs
  <2>4. \A k \in {1} : sel[k][f] \in Int
    BY <1>1, <2>3
  <2>5. FieldSum(sel, f, {1}) = SumOver(w, {1})
    BY <1>1, <2>1, <2>4, FieldSumIs
  <2>6. QED BY <2>2, <2>3, <2>5, SumOfOne
<1>7. ASSUME NEW f \in Rates PROVE WeighedSum(sel, f, {1}) = b[f] * Vol(b)
  <2>1. PICK w : w = WeighedOf(sel, f, {1})
    OBVIOUS
  <2>2. w[1] = b[f] * Vol(b)
    BY <1>1, <2>1 DEF WeighedOf
  <2>3. b[f] * Vol(b) \in Int
    <3>1. PICK x, y \in Int : x = b[f] /\ y = Vol(b)
      BY <1>2, RateIs
    <3>2. x * y \in Int
      OBVIOUS
    <3>3. QED BY <3>1, <3>2
  <2>4. \A k \in {1} : sel[k][f] * Vol(sel[k]) \in Int
    BY <1>1, <2>3
  <2>5. WeighedSum(sel, f, {1}) = SumOver(w, {1})
    BY <1>1, <2>1, <2>4, WeighedSumIs
  <2>6. QED BY <2>2, <2>3, <2>5, SumOfOne
<1>8. ASSUME NEW p PROVE AtLevelSum(sel, p, {1}) = LevelVol(b.levels, p)
  <2>1. PICK w : w = AtLevel(sel, p, {1})
    OBVIOUS
  <2>2. w[1] = LevelVol(b.levels, p)
    BY <1>1, <2>1 DEF AtLevel
  <2>3. LevelVol(b.levels, p) \in Int
    <3>1. \A x \in DOMAIN b.levels : b.levels[x].b \in Nat /\ b.levels[x].s \in Nat
      BY BucketLevels
    <3>2. QED BY <3>1 DEF LevelVol
  <2>4. \A k \in {1} : LevelVol(sel[k].levels, p) \in Int
    BY <1>1, <2>3
  <2>5. AtLevelSum(sel, p, {1}) = SumOver(w, {1})
    BY <1>1, <2>1, <2>4, AtLevelSumIs
  <2>6. QED BY <2>2, <2>3, <2>5, SumOfOne
<1>9. QED BY <1>3, <1>4, <1>5, <1>6, <1>7, <1>8

LEMMA PocOfOne ==
  ASSUME NEW sel, NEW b, IsBucket(b), Single(sel, b)
  PROVE  MergedPoc(sel) = b.poc
<1>1. DOMAIN sel = {1} /\ sel[1] = b
  BY DEF Single
<1>2. PICK S : S = DOMAIN b.levels /\ S # {}
  BY BucketLevels
<1>3. Prices(sel) = S
  BY <1>1, <1>2 DEF Prices
<1>4. ASSUME NEW p PROVE MergedVol(sel, p) = LevelVol(b.levels, p)
  <2>1. MergedVol(sel, p) = AtLevelSum(sel, p, {1})
    BY <1>1 DEF MergedVol, AtLevelSum
  <2>2. QED BY <2>1, SumsOfOne
<1>5. PICK M : M = {p \in S : \A q \in S : MergedVol(sel, q) <= MergedVol(sel, p)}
  OBVIOUS
<1>6. M = {p \in S : \A q \in S : LevelVol(b.levels, q) <= LevelVol(b.levels, p)}
  BY <1>4, <1>5
<1>7. MergedPoc(sel) = Min(M)
  BY <1>2, <1>3, <1>5 DEF MergedPoc
<1>8. b.poc = Min(M)
  BY <1>2, <1>6 DEF IsBucket, PocOf
<1>9. QED BY <1>7, <1>8

LEMMA RateOfOne ==
  ASSUME NEW sel, NEW b, IsBucket(b), Single(sel, b), NEW f \in Rates
  PROVE  QEq(Weighted(sel, f), Q(b[f], 1))
<1>1. DOMAIN sel = {1} /\ Len(sel) = 1
  BY DEF Single
<1>2. PICK vol, x : vol = Vol(b) /\ x = b[f] /\ vol \in Nat /\ x \in Nat
  BY VolumesAre, RateIs
<1>3. /\ MapThenSumSet(LAMBDA k : Vol(sel[k]), DOMAIN sel) = vol
      /\ MapThenSumSet(LAMBDA k : sel[k][f] * Vol(sel[k]), DOMAIN sel) = x * vol
      /\ SumField(sel, f) = x
  <2>1. VolumeSum(sel, {1}) = vol /\ FieldSum(sel, f, {1}) = x /\ WeighedSum(sel, f, {1}) = x * vol
    BY <1>2, SumsOfOne
  <2>2. MapThenSumSet(LAMBDA k : Vol(sel[k]), DOMAIN sel) = vol
    BY <1>1, <2>1 DEF VolumeSum
  <2>3. MapThenSumSet(LAMBDA k : sel[k][f] * Vol(sel[k]), DOMAIN sel) = x * vol
    BY <1>1, <2>1 DEF WeighedSum
  <2>4. SumField(sel, f) = x
    BY <1>1, <2>1 DEF FieldSum, SumField
  <2>5. QED BY <2>2, <2>3, <2>4
<1>4. Weighted(sel, f) = IF vol > 0 THEN Q(x * vol, vol) ELSE Q(x, 1)
  BY <1>1, <1>3 DEF Weighted
<1>5. QEq(Q(x * vol, vol), Q(x, 1)) /\ QEq(Q(x, 1), Q(x, 1))
  <2>1. (x * vol) * 1 = x * vol /\ x * 1 = x * 1
    BY <1>2
  <2>2. QED BY <2>1 DEF QEq, Q
<1>6. QED BY <1>2, <1>4, <1>5

LEMMA BucketOfOne ==
  ASSUME NEW sel, NEW b, IsBucket(b), Single(sel, b), NEW syn, syn = SynthBucket(sel)
  PROVE  /\ syn.vol = Vol(b) /\ syn.buy = BuyVol(b) /\ syn.sell = SellVol(b)
         /\ <<syn.open, syn.close, syn.high, syn.low, syn.poc>> = <<b.open, b.close, b.high, b.low, b.poc>>
         /\ \A f \in DOMAIN syn.sums : syn.sums[f] = b[f]
         /\ QEq(syn.vel, Q(b.vel, 1)) /\ QEq(syn.ber, Q(b.ber, 1)) /\ QEq(syn.ser, Q(b.ser, 1))
<1>1. DOMAIN sel = {1} /\ sel[1] = b /\ Len(sel) = 1
  BY DEF Single
<1>2. syn.vol = Vol(b) /\ syn.buy = BuyVol(b) /\ syn.sell = SellVol(b)
  <2>1. /\ syn.vol = VolumeSum(sel, {1}) /\ syn.buy = BuySum(sel, {1}) /\ syn.sell = SellSum(sel, {1})
    BY <1>1 DEF SynthBucket, VolumeSum, BuySum, SellSum
  <2>2. QED BY <2>1, SumsOfOne
<1>3. syn.open = b.open /\ syn.close = b.close
  BY <1>1 DEF SynthBucket
<1>4. syn.high = b.high /\ syn.low = b.low
  <2>1. {sel[k].high : k \in DOMAIN sel} = {b.high} /\ {sel[k].low : k \in DOMAIN sel} = {b.low}
    BY <1>1
  <2>2. syn.high = Max({b.high}) /\ syn.low = Min({b.low})
    BY <2>1 DEF SynthBucket
  <2>3. b.high \in Int /\ b.low \in Int
    BY BucketFields
  <2>4. QED BY <2>2, <2>3, ExtremesOfOne
<1>5. syn.poc = b.poc
  BY PocOfOne DEF SynthBucket
<1>6. ASSUME NEW f \in DOMAIN syn.sums PROVE syn.sums[f] = b[f]
  <2>1. syn.sums = [g \in Summed |-> SumField(sel, g)]
    BY DEF SynthBucket, Summed
  <2>2. f \in Summed /\ syn.sums[f] = SumField(sel, f)
    BY <1>6, <2>1
  <2>3. SumField(sel, f) = FieldSum(sel, f, {1})
    BY <1>1 DEF SumField, FieldSum
  <2>4. QED BY <2>2, <2>3, SumsOfOne
<1>7. QEq(syn.vel, Q(b.vel, 1)) /\ QEq(syn.ber, Q(b.ber, 1)) /\ QEq(syn.ser, Q(b.ser, 1))
  <2>1. syn.vel = Weighted(sel, "vel") /\ syn.ber = Weighted(sel, "ber") /\ syn.ser = Weighted(sel, "ser")
    BY DEF SynthBucket
  <2>2. "vel" \in Rates /\ "ber" \in Rates /\ "ser" \in Rates
    BY DEF Rates
  <2>3. /\ QEq(Weighted(sel, "vel"), Q(b["vel"], 1)) /\ QEq(Weighted(sel, "ber"), Q(b["ber"], 1))
        /\ QEq(Weighted(sel, "ser"), Q(b["ser"], 1))
    BY <2>2, RateOfOne
  <2>4. QED BY <2>1, <2>3
<1>8. QED BY <1>2, <1>3, <1>4, <1>5, <1>6, <1>7

-----------------------------------------------------------------------------
(* The verdicts of every history. *)

LEMMA MirroredHolds == WellFormed(history) => VerdictIsMirrored
<1>1. SUFFICES ASSUME WellFormed(history) PROVE VerdictIsMirrored
  OBVIOUS
<1>2. PICK bk : bk = history
  OBVIOUS
<1>3. WellFormed(bk)
  BY <1>1, <1>2
<1>4. Exact(history) \subseteq DOMAIN bk
  BY <1>2 DEF Exact
<1>5. ASSUME NEW i \in DOMAIN bk, bk[i].open # bk[i].close, NEW bm, NEW sm
      PROVE  Match(Classify(bk, i, bm, sm), Classify(Mirrored(bk), i, sm, bm))
  BY <1>3, <1>5, MirroredVerdict
<1>6. Mirrored(bk) = [k \in DOMAIN history |-> Mirror(history[k])]
  BY <1>2 DEF Mirrored
<1>7. QED BY <1>2, <1>4, <1>5, <1>6 DEF VerdictIsMirrored, Match

LEMMA SqueezeHolds == WellFormed(history) => SqueezeYieldsOnlyToFullScores
<1>1. SUFFICES ASSUME WellFormed(history) PROVE SqueezeYieldsOnlyToFullScores
  OBVIOUS
<1>2. PICK bk : bk = history
  OBVIOUS
<1>3. \A i \in DOMAIN bk : IsBucket(bk[i])
  BY <1>1, <1>2 DEF WellFormed
<1>4. Exact(history) \subseteq DOMAIN bk
  BY <1>2 DEF Exact
<1>5. SUFFICES ASSUME NEW i \in Exact(history), NEW bm \in Mults, NEW sm \in Mults
               PROVE  LET b == history[i]
                          v == Classify(history, i, bm, sm)
                          liq == IF b.close >= b.open THEN b.liqS ELSE b.liqL
                      IN  Vol(b) > 0 /\ 100 * liq >= 30 * Vol(b) =>
                             /\ v.score = 0
                             /\ v.name \notin {"LIQUIDITY COIL", "ROTATION", "CHOP", "NEUTRAL"}
  BY DEF SqueezeYieldsOnlyToFullScores
<1>6. PICK b, j, liq, x, y : /\ j = i /\ b = bk[j] /\ liq = (IF b.close >= b.open THEN b.liqS ELSE b.liqL)
                             /\ x = bm /\ y = sm
  OBVIOUS
<1>7. IsBucket(b)
  BY <1>3, <1>4, <1>5, <1>6
<1>8. ASSUME Vol(b) > 0, 100 * liq >= 30 * Vol(b)
      PROVE  /\ Classify(bk, j, x, y).score = 0
             /\ Classify(bk, j, x, y).name \notin {"LIQUIDITY COIL", "ROTATION", "CHOP", "NEUTRAL"}
  BY <1>6, <1>7, <1>8, SqueezeVerdict
<1>9. QED BY <1>2, <1>6, <1>8

LEMMA HoverHolds == WellFormed(history) => OneBucketSelectionIsHover
<1>1. SUFFICES ASSUME WellFormed(history) PROVE OneBucketSelectionIsHover
  OBVIOUS
<1>2. PICK bk : bk = history /\ WellFormed(bk)
  BY <1>1
<1>3. SUFFICES ASSUME NEW i \in DOMAIN bk
               PROVE  LET in == SelectionInput(bk, i, i)
                          b  == bk[i]
                      IN  /\ in.win = Windows(bk, i)
                          /\ in.syn.vol = Vol(b) /\ in.syn.buy = BuyVol(b) /\ in.syn.sell = SellVol(b)
                          /\ <<in.syn.open, in.syn.close, in.syn.high, in.syn.low, in.syn.poc>>
                               = <<b.open, b.close, b.high, b.low, b.poc>>
                          /\ \A f \in DOMAIN in.syn.sums : in.syn.sums[f] = b[f]
                          /\ QEq(in.syn.vel, Q(b.vel, 1)) /\ QEq(in.syn.ber, Q(b.ber, 1))
                          /\ QEq(in.syn.ser, Q(b.ser, 1))
  BY <1>2 DEF OneBucketSelectionIsHover
<1>4. PICK b, sel, in : b = bk[i] /\ sel = SubSeq(bk, i, i) /\ in = SelectionInput(bk, i, i)
  OBVIOUS
<1>5. IsBucket(b)
  BY <1>2, <1>4 DEF WellFormed
<1>6. Single(sel, b)
  <2>1. i \in Nat /\ i <= i /\ i - i + 1 = 1 /\ i + 1 - 1 = i
    <3>1. i \in Nat
      BY <1>2, BucketTimes
    <3>2. QED BY <3>1
  <2>2. Buckets(sel, 1) /\ \A k \in 1..1 : sel[k] = bk[i + k - 1]
    BY <1>2, <1>4, <2>1, SelectionIs
  <2>3. DOMAIN sel = {1} /\ Len(sel) = 1
    BY <2>2 DEF Buckets
  <2>4. QED BY <1>4, <2>1, <2>2, <2>3 DEF Single
<1>7. PICK syn : syn = SynthBucket(sel) /\ in.syn = syn
  BY <1>4 DEF SelectionInput
<1>8. in.win = Windows(bk, i)
  BY <1>2, <1>4, WindowsOfOne
<1>9. /\ syn.vol = Vol(b) /\ syn.buy = BuyVol(b) /\ syn.sell = SellVol(b)
      /\ <<syn.open, syn.close, syn.high, syn.low, syn.poc>> = <<b.open, b.close, b.high, b.low, b.poc>>
      /\ \A f \in DOMAIN syn.sums : syn.sums[f] = b[f]
      /\ QEq(syn.vel, Q(b.vel, 1)) /\ QEq(syn.ber, Q(b.ber, 1)) /\ QEq(syn.ser, Q(b.ser, 1))
  BY <1>5, <1>6, <1>7, BucketOfOne
<1>10. QED BY <1>4, <1>7, <1>8, <1>9

LEMMA ScaleHolds == WellFormed(history) => SelectionStaysOnBucketScale
<1>1. SUFFICES ASSUME WellFormed(history) PROVE SelectionStaysOnBucketScale
  OBVIOUS
<1>2. PICK bk : bk = history /\ WellFormed(bk)
  BY <1>1
<1>3. ASSUME NEW lo \in DOMAIN bk, NEW hi \in DOMAIN bk, lo <= hi, NEW f \in Rates
      PROVE  OnScale(SubSeq(bk, lo, hi), f)
  <2>1. PICK n, sel : n = hi - lo + 1 /\ sel = SubSeq(bk, lo, hi)
    OBVIOUS
  <2>2. n \in Nat \ {0} /\ Buckets(sel, n)
    BY <1>2, <1>3, <2>1, SelectionIs
  <2>3. OnScale(sel, f)
    BY <1>3, <2>2, MeanOnScale
  <2>4. QED BY <2>1, <2>3
<1>4. \A lo, hi \in DOMAIN history : lo <= hi =>
        \A f \in {"vel", "ber", "ser"} : OnScale(SubSeq(history, lo, hi), f)
  BY <1>2, <1>3 DEF Rates
<1>5. QED BY <1>4 DEF SelectionStaysOnBucketScale, OnScale, ValuesIn, VolumeSum, WeighedSum

(* In every history the mirror image of a bucket gets the mirrored verdict *)
(* with the same score, a violent squeeze yields only to a state of full   *)
(* score before it in the dictionary, a selection of one bucket hands that *)
(* bucket and its windows to the classifier, and the rates of a selection  *)
(* lie between those of its buckets (_score_and_factors, classify_bucket,  *)
(* selection_state and synth_bucket).  The first two speak of the family   *)
(* whose factors are saturated, where the model has the scores.            *)
THEOREM VerdictsHold == AnalyticsSpec => []VerdictsAgree
<1>1. ScanIInv => VerdictsAgree
  BY MirroredHolds, SqueezeHolds, HoverHolds, ScaleHolds DEF ScanIInv, VerdictsAgree
<1>2. QED BY <1>1, ScansKeepTheirBuckets, PTL

-----------------------------------------------------------------------------
(* Quotients and their order. *)

IsQ(x) == x.num \in Int /\ x.den \in Int /\ x.den > 0

LEMMA TimesKeepsOrder ==
  ASSUME NEW a \in Int, NEW b \in Int, NEW c \in Int, c > 0
  PROVE  (a <= b) <=> (c * a <= c * b)
<1>1. CASE a <= b
  BY <1>1
<1>2. CASE b < a
  <2>1. b + 1 <= a /\ c * (b + 1) = c * b + c
    BY <1>2
  <2>2. c * (b + 1) <= c * a
    BY <2>1
  <2>3. PICK x, y \in Int : x = c * a /\ y = c * b
    OBVIOUS
  <2>4. y + c <= x
    BY <2>1, <2>2, <2>3
  <2>5. QED BY <1>2, <2>3, <2>4
<1>3. QED BY <1>1, <1>2

LEMMA CrossTransitive ==
  ASSUME NEW a \in Int, NEW b \in Int, b > 0, NEW c \in Int, NEW d \in Int, d > 0,
         NEW e \in Int, NEW f \in Int, f > 0, a * d <= c * b, c * f <= e * d
  PROVE  a * f <= e * b
<1>1. f * (a * d) <= f * (c * b)
  <2>1. a * d \in Int /\ c * b \in Int
    OBVIOUS
  <2>2. QED BY <2>1, TimesKeepsOrder
<1>2. b * (c * f) <= b * (e * d)
  <2>1. c * f \in Int /\ e * d \in Int
    OBVIOUS
  <2>2. QED BY <2>1, TimesKeepsOrder
<1>3. f * (a * d) = d * (a * f) /\ f * (c * b) = b * (c * f) /\ b * (e * d) = d * (e * b)
  OBVIOUS
<1>4. d * (a * f) <= d * (e * b)
  <2>1. PICK x, y, z \in Int : x = d * (a * f) /\ y = b * (c * f) /\ z = d * (e * b)
    OBVIOUS
  <2>2. x <= y /\ y <= z
    BY <1>1, <1>2, <1>3, <2>1
  <2>3. QED BY <2>1, <2>2
<1>5. QED
  <2>1. a * f \in Int /\ e * b \in Int
    OBVIOUS
  <2>2. QED BY <1>4, <2>1, TimesKeepsOrder

LEMMA QuotientOrder ==
  ASSUME NEW x, IsQ(x), NEW y, IsQ(y)
  PROVE  /\ QLeq(x, y) \/ QLeq(y, x)
         /\ QLess(x, y) <=> ~QLeq(y, x)
         /\ QLeq(x, x) /\ QEq(x, x)
         /\ QEq(x, y) <=> QLeq(x, y) /\ QLeq(y, x)
<1>1. PICK a, b \in Int : a = x.num * y.den /\ b = y.num * x.den
  BY DEF IsQ
<1>2. PICK c \in Int : c = x.num * x.den
  BY DEF IsQ
<1>3. /\ QLeq(x, y) <=> a <= b
      /\ QLeq(y, x) <=> b <= a
      /\ QLess(x, y) <=> a < b
      /\ QEq(x, y) <=> a = b
  BY <1>1 DEF QLeq, QLess, QEq
<1>4. QLeq(x, x) /\ QEq(x, x)
  BY <1>2 DEF QLeq, QEq
<1>5. QED BY <1>3, <1>4

LEMMA QuotientsInTurn ==
  ASSUME NEW x, IsQ(x), NEW y, IsQ(y), NEW z, IsQ(z), QLeq(x, y), QLeq(y, z)
  PROVE  QLeq(x, z)
<1>1. PICK a, b, c, d, e, f \in Int :
        a = x.num /\ b = x.den /\ c = y.num /\ d = y.den /\ e = z.num /\ f = z.den
  BY DEF IsQ
<1>2. b > 0 /\ d > 0 /\ f > 0
  BY <1>1 DEF IsQ
<1>3. a * d <= c * b /\ c * f <= e * d
  BY <1>1 DEF QLeq
<1>4. a * f <= e * b
  BY <1>2, <1>3, CrossTransitive
<1>5. QED BY <1>1, <1>4 DEF QLeq

-----------------------------------------------------------------------------
(* The k-th smallest. *)

Quotients(v, I) == IsFiniteSet(I) /\ DOMAIN v = I /\ \A i \in I : IsQ(v[i])
Below(v, I, x)  == {i \in I : QLess(v[i], x)}
UpTo(v, I, x)   == {i \in I : QLeq(v[i], x)}
Least(v, J, j)    == j \in J /\ \A i \in J : QLeq(v[j], v[i])
Greatest(v, J, j) == j \in J /\ \A i \in J : QLeq(v[i], v[j])

LEMMA HaveExtremes ==
  ASSUME NEW J, IsFiniteSet(J), J # {}, NEW v, \A i \in J : IsQ(v[i])
  PROVE  (\E j : Least(v, J, j)) /\ (\E j : Greatest(v, J, j))
<1>1. PICK T : T = {s \in SUBSET J : s # {} => (\E j : Least(v, s, j)) /\ (\E j : Greatest(v, s, j))}
  OBVIOUS
<1>2. ASSUME NEW s \in SUBSET J, \A x \in s : s \ {x} \in T PROVE s \in T
  <2>1. SUFFICES ASSUME s # {} PROVE (\E j : Least(v, s, j)) /\ (\E j : Greatest(v, s, j))
    BY <1>1
  <2>2. PICK x \in s : TRUE
    BY <2>1
  <2>3. \A i \in s : IsQ(v[i])
    OBVIOUS
  <2>4. CASE s \ {x} = {}
    <3>1. \A i \in s : i = x
      BY <2>4
    <3>2. QLeq(v[x], v[x])
      BY <2>2, <2>3, QuotientOrder
    <3>3. Least(v, s, x) /\ Greatest(v, s, x)
      BY <2>2, <3>1, <3>2 DEF Least, Greatest
    <3>4. QED BY <3>3
  <2>5. CASE s \ {x} # {}
    <3>1. PICK l, g : Least(v, s \ {x}, l) /\ Greatest(v, s \ {x}, g)
      BY <1>1, <1>2, <2>2, <2>5
    <3>2. l \in s /\ g \in s /\ x \in s
      BY <2>2, <3>1 DEF Least, Greatest
    <3>3. \A i \in s : i # x => QLeq(v[l], v[i]) /\ QLeq(v[i], v[g])
      BY <3>1 DEF Least, Greatest
    <3>4. IsQ(v[x]) /\ IsQ(v[l]) /\ IsQ(v[g])
      BY <2>3, <3>2
    <3>5. \E j : Least(v, s, j)
      <4>1. CASE QLeq(v[l], v[x])
        <5>1. Least(v, s, l)
          BY <3>2, <3>3, <4>1 DEF Least
        <5>2. QED BY <5>1
      <4>2. CASE QLeq(v[x], v[l])
        <5>1. \A i \in s : QLeq(v[x], v[i])
          <6>1. ASSUME NEW i \in s PROVE QLeq(v[x], v[i])
            <7>1. CASE i = x
              BY <3>4, <7>1, QuotientOrder
            <7>2. CASE i # x
              BY <2>3, <3>3, <3>4, <4>2, <7>2, QuotientsInTurn
            <7>3. QED BY <7>1, <7>2
          <6>2. QED BY <6>1
        <5>2. Least(v, s, x)
          BY <3>2, <5>1 DEF Least
        <5>3. QED BY <5>2
      <4>3. QED BY <3>4, <4>1, <4>2, QuotientOrder
    <3>6. \E j : Greatest(v, s, j)
      <4>1. CASE QLeq(v[x], v[g])
        <5>1. Greatest(v, s, g)
          BY <3>2, <3>3, <4>1 DEF Greatest
        <5>2. QED BY <5>1
      <4>2. CASE QLeq(v[g], v[x])
        <5>1. \A i \in s : QLeq(v[i], v[x])
          <6>1. ASSUME NEW i \in s PROVE QLeq(v[i], v[x])
            <7>1. CASE i = x
              BY <3>4, <7>1, QuotientOrder
            <7>2. CASE i # x
              BY <2>3, <3>3, <3>4, <4>2, <7>2, QuotientsInTurn
            <7>3. QED BY <7>1, <7>2
          <6>2. QED BY <6>1
        <5>2. Greatest(v, s, x)
          BY <3>2, <5>1 DEF Greatest
        <5>3. QED BY <5>2
      <4>3. QED BY <3>4, <4>1, <4>2, QuotientOrder
    <3>7. QED BY <3>5, <3>6
  <2>6. QED BY <2>4, <2>5
<1>3. Inductive(J, T)
  BY <1>2 DEF Inductive
<1>4. Covers(J, T)
  BY <1>3, EverySubset
<1>5. J \in T
  BY <1>4 DEF Covers
<1>6. QED BY <1>1, <1>5

Ranks(v, I, k, i) ==
    i \in I /\ Cardinality(Below(v, I, v[i])) < k /\ k <= Cardinality(UpTo(v, I, v[i]))

LEMMA CountsAre ==
  ASSUME NEW I, IsFiniteSet(I), NEW v, NEW x
  PROVE  /\ IsFiniteSet(Below(v, I, x)) /\ Cardinality(Below(v, I, x)) \in Nat
         /\ IsFiniteSet(UpTo(v, I, x)) /\ Cardinality(UpTo(v, I, x)) \in Nat
         /\ Cardinality(I) \in Nat
<1>1. Below(v, I, x) \subseteq I /\ UpTo(v, I, x) \subseteq I
  BY DEF Below, UpTo
<1>2. QED BY <1>1, FS_Subset, FS_CardinalityType

LEMMA SomeRanks ==
  ASSUME NEW v, NEW I, Quotients(v, I), NEW k \in Nat, k > 0, k <= Cardinality(I)
  PROVE  \E i : Ranks(v, I, k, i)
<1>1. IsFiniteSet(I) /\ \A i \in I : IsQ(v[i])
  BY DEF Quotients
<1>2. I # {}
  <2>1. Cardinality({}) = 0
    BY FS_EmptySet
  <2>2. QED BY <2>1
<1>3. PICK J : J = {i \in I : k <= Cardinality(UpTo(v, I, v[i]))}
  OBVIOUS
<1>4. J # {}
  <2>1. PICK g : Greatest(v, I, g)
    BY <1>1, <1>2, HaveExtremes
  <2>2. g \in I /\ UpTo(v, I, v[g]) = I
    BY <2>1 DEF Greatest, UpTo
  <2>3. g \in J
    BY <1>3, <2>2
  <2>4. QED BY <2>3
<1>5. IsFiniteSet(J) /\ \A i \in J : IsQ(v[i])
  BY <1>1, <1>3, FS_Subset
<1>6. PICK j : Least(v, J, j)
  BY <1>4, <1>5, HaveExtremes
<1>7. j \in J /\ \A i \in J : QLeq(v[j], v[i])
  BY <1>6 DEF Least
<1>8. PICK B : B = Below(v, I, v[j])
  OBVIOUS
<1>9. IsFiniteSet(B) /\ Cardinality(B) \in Nat /\ \A i \in B : IsQ(v[i]) /\ QLess(v[i], v[j]) /\ i \in I
  BY <1>1, <1>8, CountsAre DEF Below
<1>10. Cardinality(B) < k
  <2>1. SUFFICES ASSUME k <= Cardinality(B) PROVE FALSE
    BY <1>9
  <2>2. B # {}
    <3>1. Cardinality({}) = 0
      BY FS_EmptySet
    <3>2. QED BY <2>1, <3>1
  <2>3. PICK b : Greatest(v, B, b)
    BY <1>9, <2>2, HaveExtremes
  <2>4. b \in B /\ \A i \in B : QLeq(v[i], v[b])
    BY <2>3 DEF Greatest
  <2>5. B \subseteq UpTo(v, I, v[b])
    BY <1>9, <2>4 DEF UpTo
  <2>6. Cardinality(B) <= Cardinality(UpTo(v, I, v[b]))
    BY <1>1, <2>5, CountsAre, FS_Subset
  <2>7. k <= Cardinality(UpTo(v, I, v[b]))
    <3>1. Cardinality(UpTo(v, I, v[b])) \in Nat
      BY <1>1, CountsAre
    <3>2. QED BY <1>9, <2>1, <2>6, <3>1
  <2>8. b \in J
    BY <1>3, <1>9, <2>4, <2>7
  <2>9. QLeq(v[j], v[b]) /\ QLess(v[b], v[j])
    BY <1>7, <1>9, <2>4, <2>8
  <2>10. IsQ(v[j]) /\ IsQ(v[b])
    BY <1>5, <1>7, <2>8
  <2>11. QED BY <2>9, <2>10, QuotientOrder
<1>11. Ranks(v, I, k, j)
  BY <1>3, <1>7, <1>8, <1>10 DEF Ranks
<1>12. QED BY <1>11

(* What the k-th smallest is.                                              *)
Ranking(v, I, k, x) ==
    /\ \E i \in I : x = v[i]
    /\ IsQ(x) /\ Cardinality(Below(v, I, x)) < k /\ k <= Cardinality(UpTo(v, I, x))

LEMMA KthRanks ==
  ASSUME NEW v, NEW I, Quotients(v, I), NEW k \in Nat, k > 0, k <= Cardinality(I)
  PROVE  Ranking(v, I, k, KthOf(v, k))
<1>1. DOMAIN v = I /\ \A i \in I : IsQ(v[i])
  BY DEF Quotients
<1>2. PICK i : Ranks(v, I, k, i)
  BY SomeRanks
<1>3. PICK E : E = {v[j] : j \in DOMAIN v}
  OBVIOUS
<1>4. \E x \in E : /\ Cardinality({j \in DOMAIN v : QLess(v[j], x)}) < k
                   /\ k <= Cardinality({j \in DOMAIN v : QLeq(v[j], x)})
  BY <1>1, <1>2, <1>3 DEF Ranks, Below, UpTo
<1>5. PICK x : x = KthOf(v, k)
  OBVIOUS
<1>6. x \in E /\ Cardinality({j \in DOMAIN v : QLess(v[j], x)}) < k
      /\ k <= Cardinality({j \in DOMAIN v : QLeq(v[j], x)})
  BY <1>3, <1>4, <1>5 DEF KthOf
<1>7. QED BY <1>1, <1>3, <1>5, <1>6 DEF Ranking, Below, UpTo

LEMMA RanksInOrder ==
  ASSUME NEW v, NEW I, Quotients(v, I), NEW k \in Nat, NEW l \in Nat, k <= l,
         NEW x, Ranking(v, I, k, x), NEW y, Ranking(v, I, l, y)
  PROVE  QLeq(x, y)
<1>1. SUFFICES ASSUME ~QLeq(x, y) PROVE FALSE
  OBVIOUS
<1>2. IsQ(x) /\ IsQ(y) /\ IsFiniteSet(I) /\ \A i \in I : IsQ(v[i])
  BY DEF Ranking, Quotients
<1>3. QLeq(y, x)
  BY <1>1, <1>2, QuotientOrder
<1>4. UpTo(v, I, y) \subseteq Below(v, I, x)
  <2>1. ASSUME NEW i \in I, QLeq(v[i], y) PROVE QLess(v[i], x)
    <3>1. SUFFICES ASSUME QLeq(x, v[i]) PROVE FALSE
      BY <1>2, QuotientOrder
    <3>2. QLeq(x, y)
      BY <1>2, <2>1, <3>1, QuotientsInTurn
    <3>3. QED BY <1>1, <3>2
  <2>2. QED BY <2>1 DEF UpTo, Below
<1>5. Cardinality(UpTo(v, I, y)) <= Cardinality(Below(v, I, x))
  BY <1>2, <1>4, CountsAre, FS_Subset
<1>6. Cardinality(Below(v, I, x)) < k /\ l <= Cardinality(UpTo(v, I, y))
  BY DEF Ranking
<1>7. Cardinality(Below(v, I, x)) \in Nat /\ Cardinality(UpTo(v, I, y)) \in Nat
  BY <1>2, CountsAre
<1>8. QED BY <1>5, <1>6, <1>7

-----------------------------------------------------------------------------
(* The greatest common divisor. *)

Divides(d, x) == \E q \in Nat : x = q * d
Common(m, n)  == {d \in 1..n : Divides(d, m) /\ Divides(d, n)}
Euclid(G) == G = [x \in Nat \X Nat |-> IF x[2] = 0 THEN x[1] ELSE G[<<x[2], x[1] % x[2]>>]]

LEMMA EuclidStep ==
  ASSUME NEW G, Euclid(G), NEW m \in Nat, NEW n \in Nat
  PROVE  G[<<m, n>>] = IF n = 0 THEN m ELSE G[<<n, m % n>>]
BY DEF Euclid

LEMMA DivisorsOfRemainder ==
  ASSUME NEW m \in Nat, NEW n \in Nat, n > 0, NEW r, r = m % n, NEW d \in Nat, Divides(d, n)
  PROVE  Divides(d, m) <=> Divides(d, r)
<1>1. PICK q \in Nat : m = n * q + r /\ r \in Nat
  <2>1. m \div n \in Nat /\ m % n \in Nat
    OBVIOUS
  <2>2. m = n * (m \div n) + (m % n)
    OBVIOUS
  <2>3. QED BY <2>1, <2>2
<1>2. PICK k \in Nat : n = k * d
  BY DEF Divides
<1>3. m = (k * q) * d + r
  <2>1. n * q = (k * q) * d
    BY <1>2
  <2>2. QED BY <1>1, <2>1
<1>4. PICK z \in Nat : z = k * q
  OBVIOUS
<1>5. ASSUME Divides(d, m) PROVE Divides(d, r)
  <2>1. PICK a \in Nat : m = a * d
    BY <1>5 DEF Divides
  <2>2. r = a * d - z * d
    <3>1. z * d \in Int /\ a * d \in Int
      OBVIOUS
    <3>2. a * d = z * d + r
      BY <1>3, <1>4, <2>1
    <3>3. QED BY <1>1, <3>1, <3>2
  <2>3. CASE z <= a
    <3>1. PICK e \in Nat : e = a - z
      BY <2>3
    <3>2. r = e * d
      BY <2>2, <3>1
    <3>3. QED BY <3>2 DEF Divides
  <2>4. CASE a < z
    <3>1. PICK e \in Nat : e = z - a
      BY <2>4
    <3>2. r = 0 - e * d /\ e * d >= 0
      BY <2>2, <3>1
    <3>3. r = 0 * d
      BY <1>1, <3>2
    <3>4. QED BY <3>3 DEF Divides
  <2>5. QED BY <2>3, <2>4
<1>6. ASSUME Divides(d, r) PROVE Divides(d, m)
  <2>1. PICK a \in Nat : r = a * d
    BY <1>6 DEF Divides
  <2>2. m = z * d + a * d
    BY <1>3, <1>4, <2>1
  <2>3. m = (z + a) * d /\ z + a \in Nat
    BY <2>2
  <2>4. QED BY <2>3 DEF Divides
<1>7. QED BY <1>5, <1>6

LEMMA DividesItself ==
  ASSUME NEW n \in Nat
  PROVE  Divides(n, n) /\ Divides(n, 0)
<1>1. n = 1 * n /\ 0 = 0 * n /\ 1 \in Nat /\ 0 \in Nat
  OBVIOUS
<1>2. Divides(n, n)
  <2>1. \E q \in Nat : n = q * n
    BY <1>1
  <2>2. QED BY <2>1 DEF Divides
<1>3. Divides(n, 0)
  <2>1. \E q \in Nat : 0 = q * n
    BY <1>1
  <2>2. QED BY <2>1 DEF Divides
<1>4. QED BY <1>2, <1>3

LEMMA DivisorIsSmaller ==
  ASSUME NEW n \in Nat, n > 0, NEW d \in Nat, Divides(d, n)
  PROVE  d \in 1..n
<1>1. PICK q \in Nat : n = q * d
  BY DEF Divides
<1>2. q # 0
  <2>1. SUFFICES ASSUME q = 0 PROVE FALSE
    OBVIOUS
  <2>2. 0 * d = 0
    OBVIOUS
  <2>3. QED BY <1>1, <2>1, <2>2
<1>3. d # 0
  <2>1. SUFFICES ASSUME d = 0 PROVE FALSE
    OBVIOUS
  <2>2. q * 0 = 0
    OBVIOUS
  <2>3. QED BY <1>1, <2>1, <2>2
<1>4. 1 <= q /\ d \in Int /\ d > 0
  BY <1>2, <1>3
<1>5. d * 1 <= d * q
  BY <1>4, TimesKeepsOrder
<1>6. QED BY <1>1, <1>4, <1>5

LEMMA EuclidExists == \E G : Euclid(G)
<1>1. PICK G : G = [x \in Nat \X Nat |-> IF x[2] = 0 THEN x[1] ELSE Max(Common(x[1], x[2]))]
  OBVIOUS
<1>2. \A m, n \in Nat : G[<<m, n>>] = IF n = 0 THEN m ELSE Max(Common(m, n))
  BY <1>1
<1>3. ASSUME NEW m \in Nat, NEW n \in Nat
      PROVE  G[<<m, n>>] = IF n = 0 THEN m ELSE G[<<n, m % n>>]
  <2>1. CASE n = 0
    BY <1>2, <2>1
  <2>2. CASE n # 0
    <3>1. PICK r \in Nat : r = m % n
      BY <2>2
    <3>2. n > 0 /\ r < n
      BY <2>2, <3>1
    <3>3. \A d \in Nat : Divides(d, n) => (Divides(d, m) <=> Divides(d, r))
      BY <3>1, <3>2, DivisorsOfRemainder
    <3>4. G[<<m, n>>] = Max(Common(m, n))
      BY <1>2, <2>2
    <3>5. CASE r = 0
      <4>1. G[<<n, r>>] = n
        BY <1>2, <3>5
      <4>2. Divides(n, n) /\ Divides(n, m)
        BY <3>3, <3>5, DividesItself
      <4>3. PICK E : E = Common(m, n)
        OBVIOUS
      <4>4. n \in E /\ E \subseteq 1..n
        BY <3>2, <4>2, <4>3 DEF Common
      <4>5. Max(E) \in E /\ \A y \in E : y <= Max(E)
        BY <4>4, GreatestOf
      <4>6. Max(E) = n
        <5>1. PICK z \in 1..n : z = Max(E)
          BY <4>4, <4>5
        <5>2. n <= z
          BY <4>4, <4>5, <5>1
        <5>3. QED BY <5>1, <5>2
      <4>7. QED BY <2>2, <3>1, <3>4, <4>1, <4>3, <4>6
    <3>6. CASE r # 0
      <4>1. G[<<n, r>>] = Max(Common(n, r))
        BY <1>2, <3>6
      <4>2. ASSUME NEW d \in Common(m, n) PROVE d \in Common(n, r)
        <5>1. d \in Nat /\ Divides(d, n) /\ Divides(d, r)
          BY <3>3 DEF Common
        <5>2. r > 0
          BY <3>6
        <5>3. d \in 1..r
          BY <5>1, <5>2, DivisorIsSmaller
        <5>4. QED BY <5>1, <5>3 DEF Common
      <4>3. ASSUME NEW d \in Common(n, r) PROVE d \in Common(m, n)
        <5>1. d \in Nat /\ d \in 1..r /\ Divides(d, n) /\ Divides(d, r)
          BY DEF Common
        <5>2. Divides(d, m) /\ d \in 1..n
          BY <3>2, <3>3, <5>1
        <5>3. QED BY <5>1, <5>2 DEF Common
      <4>4. Common(m, n) = Common(n, r)
        BY <4>2, <4>3
      <4>5. QED BY <2>2, <3>1, <3>4, <4>1, <4>4
    <3>7. QED BY <3>5, <3>6
  <2>3. QED BY <2>1, <2>2
<1>4. ASSUME NEW x \in Nat \X Nat
      PROVE  G[x] = IF x[2] = 0 THEN x[1] ELSE G[<<x[2], x[1] % x[2]>>]
  <2>1. x[1] \in Nat /\ x[2] \in Nat /\ x = <<x[1], x[2]>>
    OBVIOUS
  <2>2. QED BY <1>3, <2>1
<1>5. G = [x \in Nat \X Nat |-> IF x[2] = 0 THEN x[1] ELSE G[<<x[2], x[1] % x[2]>>]]
  BY <1>1, <1>4
<1>6. QED BY <1>5 DEF Euclid

LEMMA GcdIsEuclid == Euclid(Gcd)
<1>1. PICK g : g = CHOOSE it : Euclid(it)
  OBVIOUS
<1>2. Euclid(g)
  BY <1>1, EuclidExists
<1>3. Gcd = g
  BY <1>1 DEF Gcd, Euclid
<1>4. QED BY <1>2, <1>3

GcdOf(g, m, n) == g \in Nat /\ g > 0 /\ Divides(g, m) /\ Divides(g, n)

LEMMA GcdDivides ==
  ASSUME NEW n \in Nat, NEW m \in Nat, m > 0
  PROVE  GcdOf(Gcd[<<m, n>>], m, n)
<1>1. PICK T : T = {N \in Nat : \A b \in 0..N, a \in Nat : a > 0 => GcdOf(Gcd[<<a, b>>], a, b)}
  OBVIOUS
<1>2. ASSUME NEW a \in Nat, a > 0 PROVE GcdOf(Gcd[<<a, 0>>], a, 0)
  <2>1. Gcd[<<a, 0>>] = a
    BY GcdIsEuclid, EuclidStep
  <2>2. QED BY <1>2, <2>1, DividesItself DEF GcdOf
<1>3. 0 \in T
  <2>1. \A b \in 0..0 : b = 0
    OBVIOUS
  <2>2. QED BY <1>1, <1>2, <2>1
<1>4. ASSUME NEW N \in Nat, N \in T PROVE N + 1 \in T
  <2>1. ASSUME NEW b \in 0..(N + 1), NEW a \in Nat, a > 0 PROVE GcdOf(Gcd[<<a, b>>], a, b)
    <3>1. CASE b = 0
      BY <1>2, <2>1, <3>1
    <3>2. CASE b # 0
      <4>1. PICK r \in Nat : r = a % b /\ r < b
        BY <3>2
      <4>2. r \in 0..N /\ b \in Nat /\ b > 0
        BY <3>2, <4>1
      <4>3. PICK g : g = Gcd[<<b, r>>]
        OBVIOUS
      <4>4. GcdOf(g, b, r)
        BY <1>1, <1>4, <4>2, <4>3
      <4>5. Gcd[<<a, b>>] = g
        BY <3>2, <4>1, <4>2, <4>3, GcdIsEuclid, EuclidStep
      <4>6. g \in Nat /\ g > 0 /\ Divides(g, b) /\ Divides(g, r)
        BY <4>4 DEF GcdOf
      <4>7. Divides(g, a)
        BY <4>1, <4>2, <4>6, DivisorsOfRemainder
      <4>8. QED BY <4>5, <4>6, <4>7 DEF GcdOf
    <3>3. QED BY <3>1, <3>2
  <2>2. QED BY <1>1, <2>1
<1>5. Nat \subseteq T
  BY <1>3, <1>4, EveryNatural
<1>6. n \in T /\ n \in 0..n
  BY <1>5
<1>7. QED BY <1>1, <1>6

LEMMA ExactQuotient ==
  ASSUME NEW b \in Int, NEW d \in Int, d > 0
  PROVE  (b * d) \div d = b
OBVIOUS

(* Reducing a quotient does not change it.                                 *)
LEMMA ReducedIsEqual ==
  ASSUME NEW x, IsQ(x)
  PROVE  IsQ(Reduced(x)) /\ QEq(Reduced(x), x)
<1>1. PICK a, b \in Int : a = x.num /\ b = x.den /\ b > 0
  BY DEF IsQ
<1>2. PICK c \in Nat : c = AbsOf(a) /\ (a = c \/ a = 0 - c)
  BY DEF AbsOf
<1>3. b \in Nat
  BY <1>1
<1>4. PICK d : d = Gcd[<<b, c>>]
  OBVIOUS
<1>5. d \in Nat /\ d > 0 /\ Divides(d, b) /\ Divides(d, c)
  BY <1>1, <1>3, <1>4, GcdDivides DEF GcdOf
<1>6. PICK p, q \in Nat : b = p * d /\ c = q * d
  BY <1>5 DEF Divides
<1>7. PICK e \in Int : a = e * d
  <2>1. CASE a = c
    BY <1>6, <2>1
  <2>2. CASE a = 0 - c
    <3>1. (0 - q) * d = 0 - q * d /\ 0 - q \in Int
      BY <1>5
    <3>2. QED BY <1>6, <2>2, <3>1
  <2>3. QED BY <1>2, <2>1, <2>2
<1>8. a \div d = e /\ b \div d = p
  BY <1>5, <1>6, <1>7, ExactQuotient
<1>9. p > 0
  <2>1. SUFFICES ASSUME p = 0 PROVE FALSE
    OBVIOUS
  <2>2. 0 * d = 0
    BY <1>5
  <2>3. QED BY <1>1, <1>6, <2>1, <2>2
<1>10. Reduced(x) = Q(e, p)
  BY <1>1, <1>2, <1>4, <1>8 DEF Reduced
<1>11. Q(e, p).num = e /\ Q(e, p).den = p
  BY DEF Q
<1>12. e * b = a * p
  <2>1. e * (p * d) = (e * d) * p
    BY <1>5
  <2>2. QED BY <1>6, <1>7, <2>1
<1>13. QED BY <1>1, <1>9, <1>10, <1>11, <1>12 DEF IsQ, QEq

-----------------------------------------------------------------------------
(* Prefix sums. *)

(* Where a stretch a..b begins after base, its sum is the difference of    *)
(* two that begin at base.                                                 *)
LEMMA SumExtends ==
  ASSUME NEW w, NEW a \in Int, NEW b \in Int, a <= b, \A j \in a..b : w[j] \in Int
  PROVE  SumOver(w, a..b) = SumOver(w, a..(b - 1)) + w[b] /\ SumOver(w, a..b) \in Int
         /\ SumOver(w, a..(b - 1)) \in Int
<1>1. PICK S : S = a..b
  OBVIOUS
<1>2. b \in S /\ S \ {b} = a..(b - 1) /\ IsFiniteSet(S)
  <2>1. b \in S /\ S \ {b} = a..(b - 1)
    BY <1>1
  <2>2. IsFiniteSet(S)
    BY <1>1, FS_Interval
  <2>3. QED BY <2>1, <2>2
<1>3. SumOver(w, S) = w[b] + SumOver(w, S \ {b})
  BY <1>1, <1>2, SumGrows
<1>4. IsFiniteSet(S \ {b}) /\ \A j \in S \ {b} : w[j] \in Int
  BY <1>1, <1>2, FS_Subset
<1>5. SumOver(w, S) \in Int /\ SumOver(w, S \ {b}) \in Int
  BY <1>1, <1>2, <1>4, SumOfFunction
<1>6. w[b] \in Int
  BY <1>1, <1>2
<1>7. PICK x, y, z \in Int : x = SumOver(w, S) /\ y = SumOver(w, S \ {b}) /\ z = w[b]
  BY <1>5, <1>6
<1>8. x = y + z
  BY <1>3, <1>7
<1>9. QED BY <1>1, <1>2, <1>5, <1>7, <1>8

LEMMA SumSplits ==
  ASSUME NEW w, NEW a \in Int, NEW b \in Int, NEW c \in Int, a <= b, b <= c + 1,
         \A j \in a..c : w[j] \in Int
  PROVE  SumOver(w, a..c) - SumOver(w, a..(b - 1)) = SumOver(w, b..c)
<1>1. PICK T : T = {n \in Nat : b + n <= c + 1 =>
                       SumOver(w, a..(b + n - 1)) - SumOver(w, a..(b - 1)) = SumOver(w, b..(b + n - 1))}
  OBVIOUS
<1>2. 0 \in T
  <2>1. b..(b + 0 - 1) = {} /\ b + 0 - 1 = b - 1
    OBVIOUS
  <2>2. SumOver(w, {}) = 0
    BY FS_EmptySet, SumGrows
  <2>3. SumOver(w, a..(b - 1)) \in Int
    <3>1. IsFiniteSet(a..(b - 1)) /\ \A j \in a..(b - 1) : w[j] \in Int
      BY FS_Interval
    <3>2. QED BY <3>1, SumOfFunction
  <2>4. QED BY <1>1, <2>1, <2>2, <2>3
<1>3. ASSUME NEW n \in Nat, n \in T PROVE n + 1 \in T
  <2>1. SUFFICES ASSUME b + n + 1 <= c + 1
                 PROVE  SumOver(w, a..(b + n)) - SumOver(w, a..(b - 1)) = SumOver(w, b..(b + n))
    <3>1. b + (n + 1) - 1 = b + n /\ b + (n + 1) = b + n + 1
      OBVIOUS
    <3>2. QED BY <1>1, <3>1
  <2>2. SumOver(w, a..(b + n - 1)) - SumOver(w, a..(b - 1)) = SumOver(w, b..(b + n - 1))
    BY <1>1, <1>3, <2>1
  <2>3. PICK e \in Int : e = b + n
    OBVIOUS
  <2>4. a <= e /\ b <= e /\ e <= c
    BY <2>1, <2>3
  <2>5. \A j \in a..e : w[j] \in Int
    BY <2>4
  <2>6. \A j \in b..e : w[j] \in Int
    BY <2>5
  <2>7. SumOver(w, a..e) = SumOver(w, a..(e - 1)) + w[e] /\ SumOver(w, a..(e - 1)) \in Int
    BY <2>4, <2>5, SumExtends
  <2>8. SumOver(w, b..e) = SumOver(w, b..(e - 1)) + w[e] /\ SumOver(w, b..(e - 1)) \in Int
    BY <2>4, <2>6, SumExtends
  <2>9. w[e] \in Int /\ SumOver(w, a..(b - 1)) \in Int
    <3>1. IsFiniteSet(a..(b - 1)) /\ \A j \in a..(b - 1) : w[j] \in Int
      BY FS_Interval
    <3>2. SumOver(w, a..(b - 1)) \in Int
      BY <3>1, SumOfFunction
    <3>3. e \in a..e
      BY <2>4
    <3>4. QED BY <2>5, <3>2, <3>3
  <2>10. PICK p, q, r, s \in Int : /\ p = SumOver(w, a..(e - 1)) /\ q = SumOver(w, b..(e - 1))
                                   /\ r = w[e] /\ s = SumOver(w, a..(b - 1))
    BY <2>7, <2>8, <2>9
  <2>11. p - s = q
    BY <2>2, <2>3, <2>10
  <2>12. (p + r) - s = q + r
    BY <2>11
  <2>13. QED BY <2>3, <2>7, <2>8, <2>10, <2>12
<1>4. Nat \subseteq T
  BY <1>2, <1>3, EveryNatural
<1>5. PICK n \in Nat : n = c + 1 - b
  OBVIOUS
<1>6. n \in T /\ b + n <= c + 1 /\ b + n - 1 = c
  BY <1>4, <1>5
<1>7. QED BY <1>1, <1>6

(* P sums w from base on.                                                  *)
SumsFrom(P, w, base, m) ==
    P = [k \in 0..m |-> IF k = 0 THEN 0 ELSE P[k - 1] + w[base + k - 1]]

LEMMA SumsFromExist ==
  ASSUME NEW w, NEW base \in Int, NEW m \in Nat, \A j \in base..(base + m - 1) : w[j] \in Int
  PROVE  \E P : SumsFrom(P, w, base, m)
<1>1. PICK P : P = [k \in 0..m |-> SumOver(w, base..(base + k - 1))]
  OBVIOUS
<1>2. ASSUME NEW k \in 0..m PROVE P[k] = IF k = 0 THEN 0 ELSE P[k - 1] + w[base + k - 1]
  <2>1. CASE k = 0
    <3>1. base..(base + 0 - 1) = {}
      OBVIOUS
    <3>2. SumOver(w, {}) = 0
      BY FS_EmptySet, SumGrows
    <3>3. QED BY <1>1, <2>1, <3>1, <3>2
  <2>2. CASE k # 0
    <3>1. PICK b \in Int : b = base + k - 1
      OBVIOUS
    <3>2. base <= b /\ k - 1 \in 0..m /\ base + (k - 1) - 1 = b - 1
      BY <2>2, <3>1
    <3>3. \A j \in base..b : w[j] \in Int
      BY <3>1
    <3>4. SumOver(w, base..b) = SumOver(w, base..(b - 1)) + w[b]
      BY <3>2, <3>3, SumExtends
    <3>5. P[k] = SumOver(w, base..b)
      BY <1>1, <3>1
    <3>6. P[k - 1] = SumOver(w, base..(b - 1))
      BY <1>1, <3>2
    <3>7. QED BY <2>2, <3>1, <3>4, <3>5, <3>6
  <2>3. QED BY <2>1, <2>2
<1>3. P = [k \in 0..m |-> IF k = 0 THEN 0 ELSE P[k - 1] + w[base + k - 1]]
  BY <1>1, <1>2
<1>4. QED BY <1>3 DEF SumsFrom

Terms(w, base, m) == base \in Int /\ m \in Nat /\ \A j \in base..(base + m - 1) : w[j] \in Int

LEMMA PrefixIsSum ==
  ASSUME NEW w, NEW base, NEW m, Terms(w, base, m),
         NEW P, SumsFrom(P, w, base, m), NEW k \in 0..m
  PROVE  P[k] = SumOver(w, base..(base + k - 1))
<1>0. base \in Int /\ m \in Nat /\ \A j \in base..(base + m - 1) : w[j] \in Int
  BY DEF Terms
<1>1. PICK T : T = {n \in Nat : n <= m => P[n] = SumOver(w, base..(base + n - 1))}
  OBVIOUS
<1>2. 0 \in T
  <2>1. base..(base + 0 - 1) = {} /\ 0 \in 0..m
    BY <1>0
  <2>2. SumOver(w, {}) = 0
    BY FS_EmptySet, SumGrows
  <2>3. P[0] = 0
    BY <2>1 DEF SumsFrom
  <2>4. QED BY <1>0, <1>1, <2>1, <2>2, <2>3
<1>3. ASSUME NEW n \in Nat, n \in T PROVE n + 1 \in T
  <2>1. SUFFICES ASSUME n + 1 <= m PROVE P[n + 1] = SumOver(w, base..(base + (n + 1) - 1))
    BY <1>1
  <2>2. P[n] = SumOver(w, base..(base + n - 1))
    BY <1>0, <1>1, <1>3, <2>1
  <2>3. PICK b \in Int : b = base + n
    BY <1>0
  <2>4. n + 1 \in 0..m /\ n + 1 # 0 /\ (n + 1) - 1 = n /\ base + (n + 1) - 1 = b /\ base + n - 1 = b - 1
    BY <1>0, <2>1, <2>3
  <2>5. P[n + 1] = P[n] + w[b]
    BY <2>4 DEF SumsFrom
  <2>6. base <= b /\ \A j \in base..b : w[j] \in Int
    BY <1>0, <2>1, <2>3
  <2>7. SumOver(w, base..b) = SumOver(w, base..(b - 1)) + w[b]
    BY <1>0, <2>3, <2>6, SumExtends
  <2>8. QED BY <2>2, <2>4, <2>5, <2>7
<1>4. Nat \subseteq T
  BY <1>2, <1>3, EveryNatural
<1>5. k \in Nat /\ k <= m
  BY <1>0
<1>6. k \in T
  BY <1>4, <1>5
<1>7. QED BY <1>1, <1>5, <1>6

(* A difference of two prefix sums is the sum between.                     *)
Within(base, m, a, i) == a \in Int /\ i \in Int /\ base <= a /\ a <= i /\ i <= base + m
SumBetween(P, w, base, a, i) == P[i - base] - P[a - base] = SumOver(w, a..(i - 1))

LEMMA SumsFromDiffer ==
  ASSUME NEW w, NEW base, NEW m, Terms(w, base, m),
         NEW P, SumsFrom(P, w, base, m), NEW a, NEW i, Within(base, m, a, i)
  PROVE  SumBetween(P, w, base, a, i)
<1>0. /\ base \in Int /\ m \in Nat /\ \A j \in base..(base + m - 1) : w[j] \in Int
      /\ a \in Int /\ i \in Int /\ base <= a /\ a <= i /\ i <= base + m
  BY DEF Terms, Within
<1>1. PICK p, q \in 0..m : p = i - base /\ q = a - base
  BY <1>0
<1>2. P[p] = SumOver(w, base..(base + p - 1)) /\ P[q] = SumOver(w, base..(base + q - 1))
  <2>1. \A k \in 0..m : P[k] = SumOver(w, base..(base + k - 1))
    BY PrefixIsSum
  <2>2. QED BY <1>1, <2>1
<1>3. base + p - 1 = i - 1 /\ base + q - 1 = a - 1
  BY <1>0, <1>1
<1>4. PICK c \in Int : c = i - 1
  BY <1>0
<1>5. a <= c + 1 /\ \A j \in base..c : w[j] \in Int
  BY <1>0, <1>4
<1>6. SumOver(w, base..c) - SumOver(w, base..(a - 1)) = SumOver(w, a..c)
  BY <1>0, <1>5, SumSplits
<1>7. QED BY <1>1, <1>2, <1>3, <1>4, <1>6 DEF SumBetween

AddsDisp(g, bk, S) ==
    g = [s \in SUBSET S |-> IF s = {} THEN 0
            ELSE Disp(bk[CHOOSE x \in s : TRUE])
                 + g[s \ {CHOOSE x \in s : TRUE}]]
DispSum(bk, S) == MapThenSumSet(LAMBDA k : Disp(bk[k]), S)
Disps(bk, S) == [k \in S |-> Disp(bk[k])]

LEMMA DispSumIs ==
  ASSUME NEW bk, NEW S, IsFiniteSet(S), \A k \in S : Disp(bk[k]) \in Int
  PROVE  DispSum(bk, S) = SumOver(Disps(bk, S), S)
<1>1. PICK w : w = Disps(bk, S)
  OBVIOUS
<1>2. \A k \in S : w[k] \in Int /\ w[k] = Disp(bk[k])
  BY <1>1 DEF Disps
<1>3. PICK h : Sums(h, w, S)
  BY <1>2, SumsExist
<1>4. Adds(h, w, S)
  BY <1>2, <1>3, SumsAdd
<1>5. \A s \in SUBSET S : s # {} => w[CHOOSE x \in s : TRUE]
                                      = Disp(bk[CHOOSE x \in s : TRUE])
  BY <1>2
<1>6. AddsDisp(h, bk, S)
  BY <1>4, <1>5 DEF Adds, AddsDisp
<1>7. PICK g : g = CHOOSE it : AddsDisp(it, bk, S)
  OBVIOUS
<1>8. DispSum(bk, S) = g[S]
  BY <1>7 DEF DispSum, MapThenSumSet, MapThenFoldSet, AddsDisp
<1>9. AddsDisp(g, bk, S)
  BY <1>6, <1>7
<1>10. Adds(g, w, S)
  <2>1. g = [s \in SUBSET S |-> g[s]] /\ g[{}] = 0
    BY <1>9 DEF AddsDisp
  <2>2. \A s \in SUBSET S : s # {} => g[s] = w[CHOOSE x \in s : TRUE] + g[s \ {CHOOSE x \in s : TRUE}]
    BY <1>5, <1>9 DEF AddsDisp
  <2>3. QED BY <2>1, <2>2, AddsFrom
<1>11. g[S] = h[S] /\ SumOver(w, S) = h[S]
  BY <1>2, <1>3, <1>10, SumIsUnique, SumIs
<1>12. QED BY <1>1, <1>8, <1>11

AddsPairs(g, p, q, S) ==
    g = [s \in SUBSET S |-> IF s = {} THEN 0
            ELSE (p[CHOOSE x \in s : TRUE] + q[CHOOSE x \in s : TRUE])
                 + g[s \ {CHOOSE x \in s : TRUE}]]
PairSum(p, q, S) == MapThenSumSet(LAMBDA k : (p[k] + q[k]), S)
PairsOf(p, q, S) == [k \in S |-> (p[k] + q[k])]

LEMMA PairSumIs ==
  ASSUME NEW p, NEW q, NEW S, IsFiniteSet(S), \A k \in S : (p[k] + q[k]) \in Int
  PROVE  PairSum(p, q, S) = SumOver(PairsOf(p, q, S), S)
<1>1. PICK w : w = PairsOf(p, q, S)
  OBVIOUS
<1>2. \A k \in S : w[k] \in Int /\ w[k] = (p[k] + q[k])
  BY <1>1 DEF PairsOf
<1>3. PICK h : Sums(h, w, S)
  BY <1>2, SumsExist
<1>4. Adds(h, w, S)
  BY <1>2, <1>3, SumsAdd
<1>5. \A s \in SUBSET S : s # {} => w[CHOOSE x \in s : TRUE]
                                      = (p[CHOOSE x \in s : TRUE] + q[CHOOSE x \in s : TRUE])
  BY <1>2
<1>6. AddsPairs(h, p, q, S)
  BY <1>4, <1>5 DEF Adds, AddsPairs
<1>7. PICK g : g = CHOOSE it : AddsPairs(it, p, q, S)
  OBVIOUS
<1>8. PairSum(p, q, S) = g[S]
  BY <1>7 DEF PairSum, MapThenSumSet, MapThenFoldSet, AddsPairs
<1>9. AddsPairs(g, p, q, S)
  BY <1>6, <1>7
<1>10. Adds(g, w, S)
  <2>1. g = [s \in SUBSET S |-> g[s]] /\ g[{}] = 0
    BY <1>9 DEF AddsPairs
  <2>2. \A s \in SUBSET S : s # {} => g[s] = w[CHOOSE x \in s : TRUE] + g[s \ {CHOOSE x \in s : TRUE}]
    BY <1>5, <1>9 DEF AddsPairs
  <2>3. QED BY <2>1, <2>2, AddsFrom
<1>11. g[S] = h[S] /\ SumOver(w, S) = h[S]
  BY <1>2, <1>3, <1>10, SumIsUnique, SumIs
<1>12. QED BY <1>1, <1>8, <1>11

-----------------------------------------------------------------------------
(* The series of a selection. *)

VolPrefixes(P, bk, base, hi) ==
    P = [k \in 0..(hi - base + 1) |-> IF k = 0 THEN 0 ELSE P[k - 1] + Vol(bk[base + k - 1])]
DispPrefixes(P, bk, base, hi) ==
    P = [k \in 0..(hi - base + 1) |-> IF k = 0 THEN 0 ELSE P[k - 1] + Disp(bk[base + k - 1])]

LEMMA BucketNumbers ==
  ASSUME NEW bk, WellFormed(bk), NEW i \in 1..Len(bk)
  PROVE  /\ Vol(bk[i]) \in Nat /\ Disp(bk[i]) \in Nat
         /\ BuyVol(bk[i]) \in Nat /\ SellVol(bk[i]) \in Nat
         /\ Vol(bk[i]) = BuyVol(bk[i]) + SellVol(bk[i])
         /\ bk[i].open \in Int /\ bk[i].close \in Int /\ Len(bk) \in Nat /\ DOMAIN bk = 1..Len(bk)
<1>1. IsBucket(bk[i]) /\ Len(bk) \in Nat /\ DOMAIN bk = 1..Len(bk)
  BY BucketTimes DEF WellFormed
<1>2. bk[i].open \in Int /\ bk[i].close \in Int
  BY <1>1, BucketFields
<1>3. Disp(bk[i]) \in Nat
  BY <1>2 DEF Disp, AbsOf
<1>4. QED BY <1>1, <1>2, <1>3, VolumesAre DEF Vol

(* The two prefix sums of a stretch base..hi of the buckets.               *)
LEMMA PrefixSumsAre ==
  ASSUME NEW bk, WellFormed(bk), NEW base \in 1..Len(bk), NEW hi \in 1..Len(bk), base <= hi,
         NEW a \in Int, NEW i \in Int, base <= a, a <= i, i <= hi + 1
  PROVE  /\ Between2(PrefixVol(bk, base, hi), base, a, i) = VolumeSum(bk, a..(i - 1))
         /\ Between2(PrefixDisp(bk, base, hi), base, a, i) = DispSum(bk, a..(i - 1))
<1>1. PICK n, m \in Nat : n = Len(bk) /\ m = hi - base + 1
  <2>1. Len(bk) \in Nat
    BY BucketTimes
  <2>2. hi - base + 1 \in Nat
    BY <2>1
  <2>3. QED BY <2>1, <2>2
<1>2. PICK S : S = a..(i - 1)
  OBVIOUS
<1>3. S \subseteq 1..n /\ IsFiniteSet(S) /\ base + m - 1 = hi /\ base..hi \subseteq 1..n /\ i <= base + m
      /\ base \in Int
  <2>1. base \in 1..n /\ hi \in 1..n /\ i - 1 \in Int
    BY <1>1
  <2>2. IsFiniteSet(S)
    BY <1>2, <2>1, FS_Interval
  <2>3. S \subseteq 1..n /\ base..hi \subseteq 1..n
    BY <1>2, <2>1
  <2>4. base + m - 1 = hi /\ i <= base + m
    BY <1>1, <2>1
  <2>5. QED BY <2>1, <2>2, <2>3, <2>4
<1>4. \A j \in 1..n : Vol(bk[j]) \in Int /\ Disp(bk[j]) \in Int
  <2>1. \A j \in 1..Len(bk) : Vol(bk[j]) \in Nat /\ Disp(bk[j]) \in Nat
    BY BucketNumbers
  <2>2. QED BY <1>1, <2>1
<1>5. PICK v, d : v = [j \in 1..n |-> Vol(bk[j])] /\ d = [j \in 1..n |-> Disp(bk[j])]
  OBVIOUS
<1>6. \A j \in base..(base + m - 1) : v[j] \in Int /\ d[j] \in Int
  BY <1>3, <1>4, <1>5
<1>7. \A k \in 0..m : k # 0 => base + k - 1 \in 1..n
  BY <1>1, <1>3
<1>8. Between2(PrefixVol(bk, base, hi), base, a, i) = SumOver(v, S)
  <2>1. PICK P : SumsFrom(P, v, base, m)
    BY <1>3, <1>6, SumsFromExist
  <2>2. \A R : VolPrefixes(R, bk, base, hi) <=> SumsFrom(R, v, base, m)
    <3>1. \A k \in 0..m : k # 0 => v[base + k - 1] = Vol(bk[base + k - 1])
      BY <1>5, <1>7
    <3>2. \A R : [k \in 0..m |-> IF k = 0 THEN 0 ELSE R[k - 1] + Vol(bk[base + k - 1])]
                   = [k \in 0..m |-> IF k = 0 THEN 0 ELSE R[k - 1] + v[base + k - 1]]
      BY <3>1
    <3>3. QED BY <1>1, <3>2 DEF VolPrefixes, SumsFrom
  <2>3. PICK R : R = CHOOSE it : VolPrefixes(it, bk, base, hi)
    OBVIOUS
  <2>4. VolPrefixes(R, bk, base, hi)
    BY <2>1, <2>2, <2>3
  <2>5. PrefixVol(bk, base, hi) = R
    BY <2>3 DEF PrefixVol, VolPrefixes
  <2>6. R[i - base] - R[a - base] = SumOver(v, a..(i - 1))
    <3>1. SumsFrom(R, v, base, m) /\ Terms(v, base, m)
      BY <1>3, <1>6, <2>2, <2>4 DEF Terms
    <3>2. Within(base, m, a, i)
      BY <1>3 DEF Within
    <3>3. SumBetween(R, v, base, a, i)
      BY <3>1, <3>2, SumsFromDiffer
    <3>4. QED BY <3>3 DEF SumBetween
  <2>7. QED BY <1>2, <2>5, <2>6 DEF Between2
<1>9. Between2(PrefixDisp(bk, base, hi), base, a, i) = SumOver(d, S)
  <2>1. PICK P : SumsFrom(P, d, base, m)
    BY <1>3, <1>6, SumsFromExist
  <2>2. \A R : DispPrefixes(R, bk, base, hi) <=> SumsFrom(R, d, base, m)
    <3>1. \A k \in 0..m : k # 0 => d[base + k - 1] = Disp(bk[base + k - 1])
      BY <1>5, <1>7
    <3>2. \A R : [k \in 0..m |-> IF k = 0 THEN 0 ELSE R[k - 1] + Disp(bk[base + k - 1])]
                   = [k \in 0..m |-> IF k = 0 THEN 0 ELSE R[k - 1] + d[base + k - 1]]
      BY <3>1
    <3>3. QED BY <1>1, <3>2 DEF DispPrefixes, SumsFrom
  <2>3. PICK R : R = CHOOSE it : DispPrefixes(it, bk, base, hi)
    OBVIOUS
  <2>4. DispPrefixes(R, bk, base, hi)
    BY <2>1, <2>2, <2>3
  <2>5. PrefixDisp(bk, base, hi) = R
    BY <2>3 DEF PrefixDisp, DispPrefixes
  <2>6. R[i - base] - R[a - base] = SumOver(d, a..(i - 1))
    <3>1. SumsFrom(R, d, base, m) /\ Terms(d, base, m)
      BY <1>3, <1>6, <2>2, <2>4 DEF Terms
    <3>2. Within(base, m, a, i)
      BY <1>3 DEF Within
    <3>3. SumBetween(R, d, base, a, i)
      BY <3>1, <3>2, SumsFromDiffer
    <3>4. QED BY <3>3 DEF SumBetween
  <2>7. QED BY <1>2, <2>5, <2>6 DEF Between2
<1>10. VolumeSum(bk, S) = SumOver(v, S)
  <2>1. \A j \in S : Volumes(bk, S)[j] \in Int /\ v[j] = Volumes(bk, S)[j]
    BY <1>3, <1>4, <1>5 DEF Volumes
  <2>2. SumOver(v, S) = SumOver(Volumes(bk, S), S)
    BY <1>3, <2>1, SumSame
  <2>3. \A j \in S : Vol(bk[j]) \in Int
    BY <1>3, <1>4
  <2>4. QED BY <1>3, <2>2, <2>3, VolumeSumIs
<1>11. DispSum(bk, S) = SumOver(d, S)
  <2>1. \A j \in S : Disps(bk, S)[j] \in Int /\ d[j] = Disps(bk, S)[j]
    BY <1>3, <1>4, <1>5 DEF Disps
  <2>2. SumOver(d, S) = SumOver(Disps(bk, S), S)
    BY <1>3, <2>1, SumSame
  <2>3. \A j \in S : Disp(bk[j]) \in Int
    BY <1>3, <1>4
  <2>4. QED BY <1>3, <2>2, <2>3, DispSumIs
<1>12. QED BY <1>2, <1>8, <1>9, <1>10, <1>11

LEMMA FirstIs ==
  ASSUME NEW i \in Int, NEW w \in Int
  PROVE  First(i, w) \in Int /\ First(i, w) = (IF i - w <= 1 THEN 1 ELSE i - w)
<1>1. PICK x \in Int : x = i - w
  OBVIOUS
<1>2. 1 \in Int /\ Max({1, x}) = (IF 1 >= x THEN 1 ELSE x)
  BY OfTwo
<1>3. First(i, w) = Max({1, x})
  BY <1>1 DEF First
<1>4. QED BY <1>1, <1>2, <1>3

(* The bounds of a stretch that reaches back w buckets before lo.          *)
Bounds(bk, lo, hi, w, base, i, a) ==
    /\ lo \in 1..Len(bk) /\ hi \in 1..Len(bk) /\ i \in lo..hi /\ w \in Nat
    /\ a = First(i, w) /\ base \in 1..lo /\ base <= First(lo, w)

LEMMA BoundsGive ==
  ASSUME NEW bk, WellFormed(bk), NEW lo, NEW hi, NEW w, NEW base, NEW i, NEW a,
         Bounds(bk, lo, hi, w, base, i, a)
  PROVE  /\ base \in 1..Len(bk) /\ hi \in 1..Len(bk) /\ base <= hi /\ i \in 1..Len(bk)
         /\ a \in Int /\ i \in Int /\ base <= a /\ a <= i /\ i <= hi + 1 /\ 1 <= a
         /\ (w > 0 => (a = i <=> i = 1))
<1>1. Len(bk) \in Nat
  BY BucketTimes
<1>2. lo \in Int /\ hi \in Int /\ i \in Int /\ w \in Int
  BY <1>1 DEF Bounds
<1>3. First(i, w) = (IF i - w <= 1 THEN 1 ELSE i - w) /\ First(lo, w) = (IF lo - w <= 1 THEN 1 ELSE lo - w)
  BY <1>2, FirstIs
<1>4. QED BY <1>1, <1>2, <1>3 DEF Bounds

LEMMA BetweenIs ==
  ASSUME NEW bk, WellFormed(bk), NEW lo, NEW hi, NEW w, NEW base, NEW i, NEW a,
         Bounds(bk, lo, hi, w, base, i, a)
  PROVE  /\ Between2(PrefixVol(bk, base, hi), base, a, i) = VolumeSum(bk, a..(i - 1))
         /\ Between2(PrefixDisp(bk, base, hi), base, a, i) = DispSum(bk, a..(i - 1))
<1>1. base \in 1..Len(bk) /\ hi \in 1..Len(bk) /\ base <= hi
  BY BoundsGive
<1>2. a \in Int /\ i \in Int /\ base <= a /\ a <= i /\ i <= hi + 1
  BY BoundsGive
<1>3. QED BY <1>1, <1>2, PrefixSumsAre

(* What the series have at i.                                              *)
SuppressionFrom(bk, base, hi, i, w) ==
    Suppression(bk[i], Between2(PrefixDisp(bk, base, hi), base, First(i, w), i),
                       Between2(PrefixVol(bk, base, hi), base, First(i, w), i))
NormFrom(bk, base, hi, i, fw) ==
    IF i = First(i, fw) THEN Q(Vol(bk[i]), 1)
    ELSE Q(Between2(PrefixVol(bk, base, hi), base, First(i, fw), i), i - First(i, fw))

LEMMA SuppressionFromIs ==
  ASSUME NEW bk, WellFormed(bk), NEW lo, NEW hi, NEW w, NEW base, NEW i, NEW a,
         Bounds(bk, lo, hi, w, base, i, a)
  PROVE  SuppressionFrom(bk, base, hi, i, w) = SuppressionAt(bk, i, w)
<1>1. a = First(i, w)
  BY DEF Bounds
<1>2. SuppressionFrom(bk, base, hi, i, w) = Suppression(bk[i], DispSum(bk, a..(i - 1)), VolumeSum(bk, a..(i - 1)))
  BY <1>1, BetweenIs DEF SuppressionFrom
<1>3. SuppressionAt(bk, i, w) = Suppression(bk[i], DispSum(bk, a..(i - 1)), VolumeSum(bk, a..(i - 1)))
  BY <1>1 DEF SuppressionAt, DispSum, VolumeSum, First
<1>4. QED BY <1>2, <1>3

LEMMA NormFromIs ==
  ASSUME NEW bk, WellFormed(bk), NEW lo, NEW hi, NEW w, NEW base, NEW i, NEW a,
         Bounds(bk, lo, hi, w, base, i, a), w > 0
  PROVE  NormFrom(bk, base, hi, i, w) = VolNorm(bk, i, w)
<1>1. /\ a = First(i, w) /\ a \in Int /\ i \in Int /\ 1 <= a /\ a <= i /\ i \in 1..Len(bk)
      /\ (a = i <=> i = 1)
  <2>1. /\ a \in Int /\ i \in Int /\ 1 <= a /\ a <= i /\ i \in 1..Len(bk)
        /\ (w > 0 => (a = i <=> i = 1))
    BY BoundsGive
  <2>2. a = First(i, w)
    BY DEF Bounds
  <2>3. QED BY <2>1, <2>2
<1>2. CASE i = 1
  <2>1. NormFrom(bk, base, hi, i, w) = Q(Vol(bk[1]), 1)
    BY <1>1, <1>2 DEF NormFrom
  <2>2. VolNorm(bk, i, w) = Q(VolumeSum(bk, {1}), Cardinality({1}))
    BY <1>2 DEF VolNorm, VolumeSum
  <2>3. VolumeSum(bk, {1}) = Vol(bk[1])
    <3>1. Vol(bk[1]) \in Int /\ IsFiniteSet({1})
      <4>1. 1 \in 1..Len(bk)
        BY <1>1, <1>2
      <4>2. Vol(bk[1]) \in Nat
        BY <4>1, BucketNumbers
      <4>3. Vol(bk[1]) \in Int
        BY <4>2
      <4>4. IsFiniteSet({1})
        BY FS_Singleton
      <4>5. QED BY <4>3, <4>4
    <3>2. VolumeSum(bk, {1}) = SumOver(Volumes(bk, {1}), {1})
      BY <3>1, VolumeSumIs
    <3>3. PICK v : v = Volumes(bk, {1})
      OBVIOUS
    <3>4. v[1] = Vol(bk[1])
      BY <3>3 DEF Volumes
    <3>5. SumOver(v, {1}) = v[1]
      <4>1. v[1] \in Int
        BY <3>1, <3>4
      <4>2. QED BY <4>1, SumOfOne
    <3>6. QED BY <3>2, <3>3, <3>4, <3>5
  <2>4. Cardinality({1}) = 1
    BY FS_Singleton
  <2>5. QED BY <2>1, <2>2, <2>3, <2>4
<1>3. CASE i # 1
  <2>1. NormFrom(bk, base, hi, i, w) = Q(VolumeSum(bk, a..(i - 1)), i - a)
    <3>1. i # First(i, w)
      BY <1>1, <1>3
    <3>2. Between2(PrefixVol(bk, base, hi), base, a, i) = VolumeSum(bk, a..(i - 1))
      BY BetweenIs
    <3>3. QED BY <1>1, <3>1, <3>2 DEF NormFrom
  <2>2. VolNorm(bk, i, w) = Q(VolumeSum(bk, a..(i - 1)), Cardinality(a..(i - 1)))
    BY <1>1, <1>3 DEF VolNorm, VolumeSum, First
  <2>3. Cardinality(a..(i - 1)) = i - a
    <3>1. PICK c \in Int : c = i - 1 /\ a <= c
      BY <1>1, <1>3
    <3>2. Cardinality(a..c) = c - a + 1
      BY <1>1, <3>1, FS_Interval
    <3>3. QED BY <1>1, <3>1, <3>2
  <2>4. QED BY <2>1, <2>2, <2>3
<1>4. QED BY <1>2, <1>3

(* The operators of RegionState give these.                                *)
LEMMA AbsorptionSeriesIs ==
  ASSUME NEW bk, NEW lo, NEW hi, NEW w, NEW i \in lo..hi, NEW base, base = First(lo, w)
  PROVE  AbsorptionSeries(bk, lo, hi, w)[i] = SuppressionFrom(bk, base, hi, i, w)
BY DEF AbsorptionSeries, SuppressionFrom, First

LEMMA EffAggSeriesIs ==
  ASSUME NEW bk, NEW lo, NEW hi, NEW w, NEW fw, NEW i \in lo..hi, NEW base, base = First(lo, Max({w, fw}))
  PROVE  EffAggSeries(bk, lo, hi, w, fw)[i]
           = ForceOf(EffOf(bk[i], SuppressionFrom(bk, base, hi, i, w)), NormFrom(bk, base, hi, i, fw))
BY DEF EffAggSeries, SuppressionFrom, NormFrom, First

LEMMA EffAggFromIs ==
  ASSUME NEW bk, NEW lo, NEW hi, NEW fw, NEW s, NEW i \in lo..hi, NEW base, base = First(lo, fw)
  PROVE  EffAggFromAbsorption(bk, lo, hi, fw, s)[i]
           = ForceOf(EffOf(bk[i], s[i]), NormFrom(bk, base, hi, i, fw))
BY DEF EffAggFromAbsorption, NormFrom, First

LEMMA EqualToItself ==
  ASSUME NEW x, NEW y, x = y
  PROVE  QEq(x, y)
BY DEF QEq

(* One selection of the series, in a window w and a norm's window fw.      *)
SeriesExactAt(bk, lo, hi, w, fw) ==
    LET s == AbsorptionSeries(bk, lo, hi, w)
        e == EffAggSeries(bk, lo, hi, w, fw)
        r == EffAggFromAbsorption(bk, lo, hi, fw, s)
    IN  \A i \in lo..hi :
          LET direct == SuppressionAt(bk, i, w)
          IN  /\ QEq(s[i], direct)
              /\ QEq(e[i], ForceOf(EffOf(bk[i], direct), VolNorm(bk, i, fw)))
              /\ QEq(r[i], e[i])

LEMMA WindowsNest ==
  ASSUME NEW lo \in Int, 1 <= lo, NEW w \in Nat, NEW fw \in Nat, NEW m, m = Max({w, fw})
  PROVE  /\ First(lo, m) \in 1..lo /\ First(lo, m) <= First(lo, w) /\ First(lo, m) <= First(lo, fw)
         /\ First(lo, w) \in 1..lo /\ First(lo, fw) \in 1..lo
<1>1. m = (IF w >= fw THEN w ELSE fw)
  BY OfTwo
<1>2. m \in Nat /\ w <= m /\ fw <= m
  BY <1>1
<1>3. \A k \in Int : First(lo, k) \in Int /\ First(lo, k) = (IF lo - k <= 1 THEN 1 ELSE lo - k)
  BY FirstIs
<1>4. PICK x, y, z \in Int : x = First(lo, m) /\ y = First(lo, w) /\ z = First(lo, fw)
  BY <1>2, <1>3
<1>5. /\ x = (IF lo - m <= 1 THEN 1 ELSE lo - m)
      /\ y = (IF lo - w <= 1 THEN 1 ELSE lo - w)
      /\ z = (IF lo - fw <= 1 THEN 1 ELSE lo - fw)
  BY <1>2, <1>4, <1>3
<1>6. x \in 1..lo /\ x <= y /\ x <= z /\ y \in 1..lo /\ z \in 1..lo
  BY <1>2, <1>5
<1>7. QED BY <1>4, <1>6

LEMMA SeriesExact ==
  ASSUME NEW bk, WellFormed(bk), NEW lo \in 1..Len(bk), NEW hi \in 1..Len(bk), lo <= hi,
         NEW w \in Nat, NEW fw \in Nat, w > 0, fw > 0
  PROVE  SeriesExactAt(bk, lo, hi, w, fw)
<1>1. PICK s, e, r : /\ s = AbsorptionSeries(bk, lo, hi, w) /\ e = EffAggSeries(bk, lo, hi, w, fw)
                     /\ r = EffAggFromAbsorption(bk, lo, hi, fw, s)
  OBVIOUS
<1>2. PICK base, b0, b1 : base = First(lo, Max({w, fw})) /\ b0 = First(lo, w) /\ b1 = First(lo, fw)
  OBVIOUS
<1>3. Len(bk) \in Nat /\ lo \in Int /\ 1 <= lo
  BY BucketTimes
<1>4. base \in 1..lo /\ base <= First(lo, w) /\ base <= First(lo, fw) /\ b0 \in 1..lo /\ b1 \in 1..lo
  BY <1>2, <1>3, WindowsNest
<1>5. b0 <= First(lo, w) /\ b1 <= First(lo, fw)
  <2>1. b0 \in Int /\ b1 \in Int
    BY <1>3, <1>4
  <2>2. QED BY <1>2, <2>1
<1>6. ASSUME NEW i \in lo..hi
      PROVE  /\ s[i] = SuppressionAt(bk, i, w)
             /\ e[i] = ForceOf(EffOf(bk[i], SuppressionAt(bk, i, w)), VolNorm(bk, i, fw))
             /\ r[i] = e[i]
  <2>1. PICK a, c : a = First(i, w) /\ c = First(i, fw)
    OBVIOUS
  <2>2. Bounds(bk, lo, hi, w, base, i, a) /\ Bounds(bk, lo, hi, fw, base, i, c)
        /\ Bounds(bk, lo, hi, w, b0, i, a) /\ Bounds(bk, lo, hi, fw, b1, i, c)
    BY <1>4, <1>5, <2>1 DEF Bounds
  <2>3. SuppressionFrom(bk, b0, hi, i, w) = SuppressionAt(bk, i, w)
    BY <2>2, SuppressionFromIs
  <2>4. SuppressionFrom(bk, base, hi, i, w) = SuppressionAt(bk, i, w)
    BY <2>2, SuppressionFromIs
  <2>5. NormFrom(bk, base, hi, i, fw) = VolNorm(bk, i, fw)
    BY <2>2, NormFromIs
  <2>6. NormFrom(bk, b1, hi, i, fw) = VolNorm(bk, i, fw)
    BY <2>2, NormFromIs
  <2>7. s[i] = SuppressionAt(bk, i, w)
    BY <1>1, <1>2, <2>3, AbsorptionSeriesIs
  <2>8. e[i] = ForceOf(EffOf(bk[i], SuppressionAt(bk, i, w)), VolNorm(bk, i, fw))
    BY <1>1, <1>2, <2>4, <2>5, EffAggSeriesIs
  <2>9. r[i] = ForceOf(EffOf(bk[i], s[i]), VolNorm(bk, i, fw))
    BY <1>1, <1>2, <2>6, EffAggFromIs
  <2>10. QED BY <2>7, <2>8, <2>9
<1>7. ASSUME NEW i \in lo..hi
      PROVE  /\ QEq(s[i], SuppressionAt(bk, i, w))
             /\ QEq(e[i], ForceOf(EffOf(bk[i], SuppressionAt(bk, i, w)), VolNorm(bk, i, fw)))
             /\ QEq(r[i], e[i])
  BY <1>6, EqualToItself
<1>8. QED BY <1>1, <1>7 DEF SeriesExactAt

LEMMA AbsorptionSeriesHold == WellFormed(history) => SeriesAreExact
<1> SUFFICES ASSUME WellFormed(history) PROVE SeriesAreExact
  OBVIOUS
<1>1. ASSUME NEW lo \in DOMAIN history, NEW hi \in DOMAIN history, NEW w \in Windows12, lo <= hi
      PROVE  SeriesExactAt(history, lo, hi, w, 3 - w)
  <2>1. lo \in 1..Len(history) /\ hi \in 1..Len(history)
    BY BucketTimes
  <2>2. w \in Nat /\ 3 - w \in Nat /\ w > 0 /\ 3 - w > 0
    BY DEF Windows12
  <2>3. QED BY <1>1, <2>1, <2>2, SeriesExact
<1>2. QED BY <1>1 DEF SeriesAreExact, SeriesExactAt

-----------------------------------------------------------------------------
(* The share of the bulls. *)

(* The sum of sums.                                                        *)
LEMMA SumOfPairs ==
  ASSUME NEW S, IsFiniteSet(S), NEW v, NEW w, NEW z,
         \A x \in S : v[x] \in Int /\ w[x] \in Int /\ z[x] = v[x] + w[x]
  PROVE  SumOver(z, S) = SumOver(v, S) + SumOver(w, S)
<1>1. PICK T : T = {s \in SUBSET S : SumOver(z, s) = SumOver(v, s) + SumOver(w, s)}
  OBVIOUS
<1>2. \A x \in S : z[x] \in Int /\ v[x] \in Int /\ w[x] \in Int
  OBVIOUS
<1>3. ASSUME NEW s \in SUBSET S, \A x \in s : s \ {x} \in T PROVE s \in T
  <2>1. CASE s = {}
    <3>1. SumOver(z, {}) = 0 /\ SumOver(v, {}) = 0 /\ SumOver(w, {}) = 0
      BY <1>2, SumGrows
    <3>2. QED BY <1>1, <2>1, <3>1
  <2>2. CASE s # {}
    <3>1. PICK x \in s : TRUE
      BY <2>2
    <3>2. PICK q : q = s \ {x}
      OBVIOUS
    <3>3. SumOver(z, s) = z[x] + SumOver(z, q) /\ SumOver(v, s) = v[x] + SumOver(v, q)
          /\ SumOver(w, s) = w[x] + SumOver(w, q)
      BY <1>2, <3>1, <3>2, SumGrows
    <3>4. SumOver(z, q) = SumOver(v, q) + SumOver(w, q)
      BY <1>1, <1>3, <3>1, <3>2
    <3>5. SumOver(v, q) \in Int /\ SumOver(w, q) \in Int
      <4>1. IsFiniteSet(q) /\ \A y \in q : v[y] \in Int /\ w[y] \in Int
        BY <1>2, <3>2, FS_Subset
      <4>2. QED BY <4>1, SumOfFunction
    <3>6. PICK a, b, c, d \in Int : a = v[x] /\ b = w[x] /\ c = SumOver(v, q) /\ d = SumOver(w, q)
      BY <1>2, <3>1, <3>5
    <3>7. z[x] = a + b /\ (a + b) + (c + d) = (a + c) + (b + d)
      BY <3>1, <3>6
    <3>8. SumOver(z, s) = SumOver(v, s) + SumOver(w, s)
      BY <3>3, <3>4, <3>6, <3>7
    <3>9. QED BY <1>1, <3>8
  <2>3. QED BY <2>1, <2>2
<1>4. Inductive(S, T)
  BY <1>3 DEF Inductive
<1>5. Covers(S, T)
  BY <1>4, EverySubset
<1>6. QED BY <1>1, <1>5 DEF Covers

ShareSums(P, bull, n) == P = [k \in 0..n |-> IF k = 0 THEN 0 ELSE P[k - 1] + bull[k]]

Counts(f, n) == n \in Nat /\ \A k \in 1..n : f[k] \in Nat

LEMMA ShareSumsAre ==
  ASSUME NEW n \in Nat, NEW bull, Counts(bull, n),
         NEW a \in 1..n, NEW z \in 1..n, a <= z
  PROVE  /\ \E R : ShareSums(R, bull, n)
         /\ \A P : ShareSums(P, bull, n) => P[z] - P[a - 1] = SumOver(bull, a..z)
<1>1. Terms(bull, 1, n)
  BY DEF Terms, Counts
<1>2. \A R : ShareSums(R, bull, n) <=> SumsFrom(R, bull, 1, n)
  <2>1. \A k \in 0..n : 1 + k - 1 = k
    OBVIOUS
  <2>2. \A R : [k \in 0..n |-> IF k = 0 THEN 0 ELSE R[k - 1] + bull[k]]
                 = [k \in 0..n |-> IF k = 0 THEN 0 ELSE R[k - 1] + bull[1 + k - 1]]
    BY <2>1
  <2>3. QED BY <2>2 DEF ShareSums, SumsFrom
<1>3. \E R : SumsFrom(R, bull, 1, n)
  <2>1. 1 \in Int /\ \A j \in 1..(1 + n - 1) : bull[j] \in Int
    BY DEF Counts
  <2>2. QED BY <2>1, SumsFromExist
<1>4. PICK i \in Int : i = z + 1
  OBVIOUS
<1>5. Within(1, n, a, i) /\ i - 1 = z
  BY <1>4 DEF Within
<1>6. ASSUME NEW P, ShareSums(P, bull, n) PROVE P[z] - P[a - 1] = SumOver(bull, a..z)
  <2>1. SumsFrom(P, bull, 1, n)
    BY <1>2, <1>6
  <2>2. SumBetween(P, bull, 1, a, i)
    BY <1>1, <1>5, <2>1, SumsFromDiffer
  <2>3. QED BY <1>5, <2>2 DEF SumBetween
<1>7. QED BY <1>2, <1>3, <1>6

(* The share of rolling_share at i, from the two sums around it.           *)
ShareOf(x, y) == IF x + y > 0 THEN Q(x, x + y) ELSE Q(1, 2)

Around(a, z, i, w, n) == a = Max({1, i - w \div 2}) /\ z = Min({n, i + w \div 2})

LEMMA ShareIsSums ==
  ASSUME NEW n \in Nat, NEW w \in 1..3, NEW bull, NEW bear, Len(bull) = n,
         Counts(bull, n), Counts(bear, n),
         NEW i \in 1..n, NEW a, NEW z, Around(a, z, i, w, n)
  PROVE  RollingShare(bull, bear, w)[i] = ShareOf(SumOver(bull, a..z), SumOver(bear, a..z))
<1>1. PICK h \in Nat : h = w \div 2 /\ Max({1, w}) \div 2 = h
  <2>1. Max({1, w}) = w
    <3>1. 1 \in Int /\ w \in Int /\ 1 <= w
      OBVIOUS
    <3>2. Max({1, w}) = (IF 1 >= w THEN 1 ELSE w)
      BY <3>1, OfTwo
    <3>3. QED BY <3>1, <3>2
  <2>2. w \div 2 \in Nat
    OBVIOUS
  <2>3. QED BY <2>1, <2>2
<1>2. a = (IF 1 >= i - h THEN 1 ELSE i - h) /\ z = (IF n <= i + h THEN n ELSE i + h)
  <2>1. i - h \in Int /\ i + h \in Int /\ 1 \in Int /\ n \in Int
    OBVIOUS
  <2>2. Max({1, i - h}) = (IF 1 >= i - h THEN 1 ELSE i - h)
    BY <2>1, OfTwo
  <2>3. Min({n, i + h}) = (IF n <= i + h THEN n ELSE i + h)
    BY <2>1, OfTwo
  <2>4. QED BY <1>1, <2>2, <2>3 DEF Around
<1>3. a \in 1..n /\ z \in 1..n /\ a <= z
  BY <1>2
<1>4. Max({0, i - 1 - h}) = a - 1 /\ Min({n, i + h}) = z
  <2>1. PICK y \in Int : y = i - 1 - h
    OBVIOUS
  <2>5. 0 \in Int
    OBVIOUS
  <2>2. Max({0, y}) = (IF 0 >= y THEN 0 ELSE y)
    BY <2>1, <2>5, OfTwo
  <2>6. Min({n, i + h}) = z
    BY <1>1 DEF Around
  <2>3. (IF 0 >= y THEN 0 ELSE y) = a - 1
    <3>1. i \in Int /\ h \in Int
      BY <1>1
    <3>2. CASE 1 >= i - h
      BY <1>2, <2>1, <3>1, <3>2
    <3>3. CASE ~(1 >= i - h)
      BY <1>2, <2>1, <3>1, <3>3
    <3>4. QED BY <3>2, <3>3
  <2>4. QED BY <2>1, <2>2, <2>3, <2>6
<1>5. PICK m, P, R : /\ m = Len(bull)
                     /\ P = (CHOOSE it : ShareSums(it, bull, m)) /\ R = (CHOOSE it : ShareSums(it, bear, m))
  OBVIOUS
<1>6. RollingShare(bull, bear, w)[i] = ShareOf(P[z] - P[a - 1], R[z] - R[a - 1])
  <2>1. RollingShare(bull, bear, w)[i]
          = ShareOf(P[Min({Len(bull), i + Max({1, w}) \div 2})] - P[Max({0, i - 1 - Max({1, w}) \div 2})],
                    R[Min({Len(bull), i + Max({1, w}) \div 2})] - R[Max({0, i - 1 - Max({1, w}) \div 2})])
    <3>1. i \in 1..Len(bull)
      OBVIOUS
    <3>2. /\ P = CHOOSE it : it = [k \in 0..Len(bull) |-> IF k = 0 THEN 0 ELSE it[k - 1] + bull[k]]
          /\ R = CHOOSE it : it = [k \in 0..Len(bull) |-> IF k = 0 THEN 0 ELSE it[k - 1] + bear[k]]
      BY <1>5 DEF ShareSums
    <3>3. QED BY <3>1, <3>2 DEF RollingShare, ShareOf
  <2>2. QED BY <1>1, <1>4, <2>1
<1>7. P[z] - P[a - 1] = SumOver(bull, a..z)
  <2>2. P = CHOOSE it : ShareSums(it, bull, n)
    BY <1>5
  <2>3. \E it : ShareSums(it, bull, n)
    BY <1>3, ShareSumsAre
  <2>4. ShareSums(P, bull, n)
    BY <2>2, <2>3
  <2>5. QED BY <1>3, <2>4, ShareSumsAre
<1>8. R[z] - R[a - 1] = SumOver(bear, a..z)
  <2>2. R = CHOOSE it : ShareSums(it, bear, n)
    BY <1>5
  <2>3. \E it : ShareSums(it, bear, n)
    BY <1>3, ShareSumsAre
  <2>4. ShareSums(R, bear, n)
    BY <2>2, <2>3
  <2>5. QED BY <1>3, <2>4, ShareSumsAre
<1>9. QED BY <1>6, <1>7, <1>8

LEMMA ShareIsShare ==
  ASSUME NEW x \in Nat, NEW y \in Nat
  PROVE  QEq(ShareOf(x, y), Q(x, x + y))
<1>1. CASE x + y > 0
  BY <1>1, EqualToItself DEF ShareOf
<1>2. CASE ~(x + y > 0)
  <2>1. x = 0 /\ y = 0 /\ x + y = 0
    BY <1>2
  <2>2. ShareOf(x, y) = Q(1, 2)
    BY <1>2 DEF ShareOf
  <2>3. Q(1, 2).num = 1 /\ Q(1, 2).den = 2 /\ Q(0, 0).num = 0 /\ Q(0, 0).den = 0
    BY DEF Q
  <2>4. 1 * 0 = 0 * 2
    OBVIOUS
  <2>5. QEq(Q(1, 2), Q(0, 0))
    BY <2>3, <2>4 DEF QEq
  <2>6. QED BY <2>1, <2>2, <2>5
<1>3. QED BY <1>1, <1>2

ShareExactAt(buy, sell, n, w, i) ==
    LET around == Max({1, i - w \div 2})..Min({n, i + w \div 2})
    IN  QEq(RollingShare(buy, sell, w)[i], Q(SumOver(buy, around), PairSum(buy, sell, around)))

LEMMA ShareExact ==
  ASSUME NEW n \in Nat, NEW buy, NEW sell, Len(buy) = n, Counts(buy, n), Counts(sell, n),
         NEW w \in 1..3, NEW i \in 1..n
  PROVE  ShareExactAt(buy, sell, n, w, i)
<1>1. PICK a, z : Around(a, z, i, w, n)
  BY DEF Around
<1>2. a \in 1..n /\ z \in 1..n
  <2>1. PICK h \in Nat : h = w \div 2
    OBVIOUS
  <2>2. i - h \in Int /\ i + h \in Int /\ 1 \in Int /\ n \in Int
    OBVIOUS
  <2>3. Max({1, i - h}) = (IF 1 >= i - h THEN 1 ELSE i - h)
    BY <2>2, OfTwo
  <2>4. Min({n, i + h}) = (IF n <= i + h THEN n ELSE i + h)
    BY <2>2, OfTwo
  <2>5. QED BY <1>1, <2>1, <2>3, <2>4 DEF Around
<1>3. PICK S : S = a..z
  OBVIOUS
<1>4. IsFiniteSet(S) /\ S \subseteq 1..n
  <2>1. a \in Int /\ z \in Int
    BY <1>2
  <2>2. IsFiniteSet(S)
    BY <1>3, <2>1, FS_Interval
  <2>3. S \subseteq 1..n
    BY <1>2, <1>3
  <2>4. QED BY <2>2, <2>3
<1>5. \A k \in S : buy[k] \in Nat /\ sell[k] \in Nat
  BY <1>4 DEF Counts
<1>6. PICK x, y \in Nat : x = SumOver(buy, S) /\ y = SumOver(sell, S)
  <2>1. SumOver(buy, S) \in Nat
    BY <1>4, <1>5, SumOfNaturals
  <2>2. SumOver(sell, S) \in Nat
    BY <1>4, <1>5, SumOfNaturals
  <2>3. QED BY <2>1, <2>2
<1>7. RollingShare(buy, sell, w)[i] = ShareOf(x, y)
  <2>1. RollingShare(buy, sell, w)[i] = ShareOf(SumOver(buy, a..z), SumOver(sell, a..z))
    BY <1>1, ShareIsSums
  <2>2. QED BY <1>3, <1>6, <2>1
<1>8. PairSum(buy, sell, S) = x + y
  <2>1. PICK q : q = PairsOf(buy, sell, S)
    OBVIOUS
  <2>2. \A k \in S : buy[k] \in Int /\ sell[k] \in Int /\ q[k] = buy[k] + sell[k]
    BY <1>5, <2>1 DEF PairsOf
  <2>3. SumOver(q, S) = x + y
    BY <1>4, <1>6, <2>2, SumOfPairs
  <2>4. \A k \in S : (buy[k] + sell[k]) \in Int
    BY <2>2
  <2>5. PairSum(buy, sell, S) = SumOver(q, S)
    BY <1>4, <2>1, <2>4, PairSumIs
  <2>6. QED BY <2>3, <2>5
<1>9. QEq(ShareOf(x, y), Q(x, x + y))
  BY ShareIsShare
<1>10. QED BY <1>1, <1>3, <1>6, <1>7, <1>8, <1>9 DEF ShareExactAt, Around

LEMMA ShareHolds == WellFormed(history) => ShareIsExact
<1> SUFFICES ASSUME WellFormed(history) PROVE ShareIsExact
  OBVIOUS
<1>1. PICK n \in Nat : n = Len(history) /\ DOMAIN history = 1..n
  BY BucketTimes
<1> DEFINE buy  == [k \in DOMAIN history |-> BuyVol(history[k])]
           sell == [k \in DOMAIN history |-> SellVol(history[k])]
<1>3. \A k \in 1..n : buy[k] \in Nat /\ sell[k] \in Nat
  <2>1. \A k \in 1..n : BuyVol(history[k]) \in Nat /\ SellVol(history[k]) \in Nat
    BY <1>1, BucketNumbers
  <2>2. QED BY <1>1, <2>1
<1>4. Len(buy) = n
  <2>1. buy \in Seq(Nat)
    BY <1>1, <1>3
  <2>2. DOMAIN buy = 1..n
    BY <1>1
  <2>3. QED BY <2>1, <2>2
<1>5. Counts(buy, n) /\ Counts(sell, n)
  BY <1>3 DEF Counts
<1> HIDE DEF buy, sell
<1>6. \A w \in 1..3, i \in 1..n : ShareExactAt(buy, sell, n, w, i)
  BY <1>4, <1>5, ShareExact
<1>7. \A w \in 1..3, i \in DOMAIN history : ShareExactAt(buy, sell, Len(history), w, i)
  BY <1>1, <1>6
<1>8. QED BY <1>7 DEF ShareIsExact, ShareExactAt, SumOver, PairSum, buy, sell

-----------------------------------------------------------------------------
(* Suppression is a quotient of [0, 1], and splits the dominant volume.    *)

IsShare(s) == IsQ(s) /\ 0 <= s.num /\ s.num <= s.den

LEMMA QParts ==
  ASSUME NEW x, NEW y
  PROVE  Q(x, y).num = x /\ Q(x, y).den = y
BY DEF Q

LEMMA SuppressionIsShare ==
  ASSUME NEW b, Vol(b) \in Nat, Disp(b) \in Nat, NEW sd \in Nat, NEW scv \in Nat
  PROVE  IsShare(Suppression(b, sd, scv))
<1>1. PICK cv, d \in Nat : cv = Vol(b) /\ d = Disp(b)
  OBVIOUS
<1>2. PICK x, y, num \in Int : x = cv * sd /\ y = d * scv /\ num = x - y
  OBVIOUS
<1>3. y >= 0 /\ (cv # 0 /\ sd # 0 => x > 0)
  BY <1>2
<1>4. Suppression(b, sd, scv) = IF scv = 0 \/ sd = 0 THEN Zero
                                ELSE IF cv = 0 THEN Q(1, 1)
                                ELSE IF num <= 0 THEN Zero ELSE Q(num, x)
  BY <1>1, <1>2 DEF Suppression
<1>5. IsShare(Zero) /\ IsShare(Q(1, 1))
  BY QParts DEF IsShare, IsQ, Zero
<1>6. ASSUME cv # 0, sd # 0, num > 0 PROVE IsShare(Q(num, x))
  <2>1. x > 0 /\ num <= x
    BY <1>2, <1>3, <1>6
  <2>2. QED BY <1>6, <2>1, QParts DEF IsShare, IsQ
<1>7. CASE scv = 0 \/ sd = 0 \/ cv = 0
  BY <1>4, <1>5, <1>7
<1>8. CASE scv # 0 /\ sd # 0 /\ cv # 0
  <2>1. CASE num <= 0
    BY <1>4, <1>5, <1>8, <2>1
  <2>2. CASE num > 0
    BY <1>4, <1>6, <1>8, <2>2
  <2>3. QED BY <2>1, <2>2
<1>9. QED BY <1>7, <1>8

LEMMA SuppressionAtIsShare ==
  ASSUME NEW bk, WellFormed(bk), NEW i \in 1..Len(bk), NEW w \in Nat
  PROVE  IsShare(SuppressionAt(bk, i, w))
<1>1. PICK a, S : a = First(i, w) /\ S = a..(i - 1)
  OBVIOUS
<1>2. i \in Int /\ Len(bk) \in Nat /\ a \in Int /\ 1 <= a
  <2>1. Len(bk) \in Nat
    BY BucketTimes
  <2>2. i \in Int
    BY <2>1
  <2>3. First(i, w) \in Int /\ First(i, w) = (IF i - w <= 1 THEN 1 ELSE i - w)
    <3>1. w \in Int
      OBVIOUS
    <3>2. QED BY <2>2, <3>1, FirstIs
  <2>4. QED BY <1>1, <2>1, <2>2, <2>3
<1>3. IsFiniteSet(S) /\ S \subseteq 1..Len(bk)
  <2>1. i - 1 \in Int
    BY <1>2
  <2>2. IsFiniteSet(S)
    BY <1>1, <1>2, <2>1, FS_Interval
  <2>3. S \subseteq 1..Len(bk)
    BY <1>1, <1>2
  <2>4. QED BY <2>2, <2>3
<1>4. \A k \in S : Vol(bk[k]) \in Nat /\ Disp(bk[k]) \in Nat
  BY <1>3, BucketNumbers
<1>10. \A k \in S : Vol(bk[k]) \in Int /\ Disp(bk[k]) \in Int
  BY <1>4
<1>5. DispSum(bk, S) \in Nat
  <2>1. DispSum(bk, S) = SumOver(Disps(bk, S), S)
    BY <1>3, <1>10, DispSumIs
  <2>2. \A k \in S : Disps(bk, S)[k] \in Nat
    BY <1>4 DEF Disps
  <2>3. QED BY <1>3, <2>1, <2>2, SumOfNaturals
<1>6. VolumeSum(bk, S) \in Nat
  <2>1. VolumeSum(bk, S) = SumOver(Volumes(bk, S), S)
    BY <1>3, <1>10, VolumeSumIs
  <2>2. \A k \in S : Volumes(bk, S)[k] \in Nat
    BY <1>4 DEF Volumes
  <2>3. QED BY <1>3, <2>1, <2>2, SumOfNaturals
<1>7. SuppressionAt(bk, i, w) = Suppression(bk[i], DispSum(bk, S), VolumeSum(bk, S))
  BY <1>1 DEF SuppressionAt, First, DispSum, VolumeSum
<1>8. Vol(bk[i]) \in Nat /\ Disp(bk[i]) \in Nat
  BY BucketNumbers
<1>9. QED BY <1>5, <1>6, <1>7, <1>8, SuppressionIsShare

LEMMA SplitInTwo ==
  ASSUME NEW v \in Int, NEW n \in Int, NEW d \in Int
  PROVE  ((v * n) * d + (v * (d - n)) * d) * 1 = v * (d * d)
<1>1. v * (d - n) = v * d - v * n
  OBVIOUS
<1>2. PICK x, y \in Int : x = v * d /\ y = v * n
  OBVIOUS
<1>3. (y * d + (x - y) * d) * 1 = x * d
  OBVIOUS
<1>4. x * d = v * (d * d)
  BY <1>2
<1>5. QED BY <1>1, <1>2, <1>3, <1>4

Plus(x, y) == Q(x.num * y.den + y.num * x.den, x.den * y.den)

LEMMA ScaledSplit ==
  ASSUME NEW v \in Int, NEW s, IsQ(s)
  PROVE  QEq(Plus(QScale(v, s), QScale(v, OneMinus(s))), Q(v, 1))
<1>1. PICK n, d \in Int : n = s.num /\ d = s.den
  BY DEF IsQ
<1>2. QScale(v, s).num = v * n /\ QScale(v, s).den = d
  BY <1>1, QParts DEF QScale
<1>3. OneMinus(s).num = d - n /\ OneMinus(s).den = d
  BY <1>1, QParts DEF OneMinus
<1>4. QScale(v, OneMinus(s)).num = v * (d - n) /\ QScale(v, OneMinus(s)).den = d
  BY <1>3, QParts DEF QScale
<1>5. PICK p : p = Plus(QScale(v, s), QScale(v, OneMinus(s)))
  OBVIOUS
<1>6. p.num = (v * n) * d + (v * (d - n)) * d /\ p.den = d * d
  BY <1>2, <1>4, <1>5, QParts DEF Plus
<1>7. p.num * 1 = v * p.den
  BY <1>6, SplitInTwo
<1>8. QED BY <1>5, <1>7, QParts DEF QEq

LEMMA SplitsHold == WellFormed(history) => DominantVolumeSplits
<1> SUFFICES ASSUME WellFormed(history), NEW i \in DOMAIN history
             PROVE  LET b == history[i]
                        s == SuppressionAt(history, i, 2)
                    IN  /\ BuyVol(b) > SellVol(b) /\ b.close > b.open =>
                             QEq(Plus(BearAbsorbed(b, s), EffBull(b, s)), Q(BuyVol(b), 1))
                        /\ SellVol(b) > BuyVol(b) /\ b.close < b.open =>
                             QEq(Plus(BullAbsorbed(b, s), EffBear(b, s)), Q(SellVol(b), 1))
                        /\ BullAbsorbed(b, s).num = 0 \/ BearAbsorbed(b, s).num = 0
  BY DEF DominantVolumeSplits, Plus
<1>1. PICK b, s : b = history[i] /\ s = SuppressionAt(history, i, 2)
  OBVIOUS
<1>2. i \in 1..Len(history)
  BY BucketTimes
<1>3. PICK bv, sv \in Nat : bv = BuyVol(b) /\ sv = SellVol(b)
  BY <1>1, <1>2, BucketNumbers
<1>4. IsQ(s)
  <2>1. 2 \in Nat
    OBVIOUS
  <2>2. IsShare(s)
    BY <1>1, <1>2, <2>1, SuppressionAtIsShare
  <2>3. QED BY <2>2 DEF IsShare
<1>5. ASSUME bv > sv, b.close > b.open
      PROVE  QEq(Plus(BearAbsorbed(b, s), EffBull(b, s)), Q(bv, 1))
  <2>1. BearAbsorbed(b, s) = QScale(bv, s) /\ EffBull(b, s) = QScale(bv, OneMinus(s))
    BY <1>3, <1>5 DEF BearAbsorbed, EffBull
  <2>2. QED BY <1>4, <2>1, ScaledSplit
<1>6. ASSUME sv > bv, b.close < b.open
      PROVE  QEq(Plus(BullAbsorbed(b, s), EffBear(b, s)), Q(sv, 1))
  <2>1. BullAbsorbed(b, s) = QScale(sv, s) /\ EffBear(b, s) = QScale(sv, OneMinus(s))
    BY <1>3, <1>6 DEF BullAbsorbed, EffBear
  <2>2. QED BY <1>4, <2>1, ScaledSplit
<1>7. BullAbsorbed(b, s).num = 0 \/ BearAbsorbed(b, s).num = 0
  <2>1. Zero.num = 0
    BY QParts DEF Zero
  <2>2. CASE bv > sv
    BY <1>3, <2>1, <2>2 DEF BullAbsorbed
  <2>3. CASE ~(bv > sv)
    BY <1>3, <2>1, <2>3 DEF BearAbsorbed
  <2>4. QED BY <2>2, <2>3
<1>8. QED BY <1>1, <1>3, <1>5, <1>6, <1>7

-----------------------------------------------------------------------------
(* The balance flip of a series without zeros, and of its negation.        *)

Negated(m, s, n) ==
    /\ n \in Nat /\ Len(s) = n /\ DOMAIN s = 1..n /\ Len(m) = n /\ DOMAIN m = 1..n
    /\ \A k \in 1..n : s[k] \in Int /\ s[k] # 0 /\ m[k] = -s[k]

LEMMA NegatedSides ==
  ASSUME NEW m, NEW s, NEW n, Negated(m, s, n), NEW j \in 1..n, NEW k \in 1..n
  PROVE  /\ SameSide(m[j], m[k]) <=> SameSide(s[j], s[k])
         /\ m[j] # 0 /\ s[j] # 0 /\ m[j] \in Int /\ s[j] \in Int
         /\ (m[j] > 0 <=> s[j] < 0) /\ (m[j] < 0 <=> s[j] > 0)
         /\ AbsOf(m[j]) = AbsOf(s[j])
<1>1. PICK x, y \in Int : x = s[j] /\ y = s[k]
  BY DEF Negated
<1>2. m[j] = -x /\ m[k] = -y /\ x # 0 /\ y # 0
  BY <1>1 DEF Negated
<1>3. SameSide(-x, -y) <=> SameSide(x, y)
  BY <1>2 DEF SameSide
<1>4. AbsOf(-x) = AbsOf(x)
  BY DEF AbsOf
<1>5. -x # 0 /\ -x \in Int /\ (-x > 0 <=> x < 0) /\ (-x < 0 <=> x > 0)
  BY <1>2
<1>6. QED BY <1>1, <1>2, <1>3, <1>4, <1>5

LEMMA NegatedTurns ==
  ASSUME NEW m, NEW s, NEW n, Negated(m, s, n), NEW dir \in {-1, 0, 1}
  PROVE  Relevant(m, -dir) = Relevant(s, dir) /\ Relevant(s, dir) \subseteq 2..n
<1>1. n \in Nat /\ Len(s) = n /\ Len(m) = n
  BY DEF Negated
<1>2. \A k \in 2..n : k \in 1..n /\ k - 1 \in 1..n
  BY <1>1
<1>3. Crossings(s) = {k \in 2..n : ~SameSide(s[k - 1], s[k])}
  <2>1. \A k \in 2..n : s[k - 1] # 0 /\ s[k] # 0
    BY <1>2, NegatedSides
  <2>2. QED BY <1>1, <2>1 DEF Crossings
<1>4. Crossings(m) = {k \in 2..n : ~SameSide(s[k - 1], s[k])}
  <2>1. \A k \in 2..n : m[k - 1] # 0 /\ m[k] # 0
                        /\ (SameSide(m[k - 1], m[k]) <=> SameSide(s[k - 1], s[k]))
    BY <1>2, NegatedSides
  <2>2. QED BY <1>1, <2>1 DEF Crossings
<1>5. PICK C : C = Crossings(s) /\ C = Crossings(m) /\ C \subseteq 2..n
  BY <1>3, <1>4
<1>6. \A k \in C : (m[k] > 0 <=> s[k] < 0) /\ (m[k] < 0 <=> s[k] > 0)
  BY <1>2, <1>5, NegatedSides
<1>7. (-dir = 0 <=> dir = 0) /\ (-dir < 0 <=> dir > 0) /\ (-dir > 0 <=> dir < 0)
  OBVIOUS
<1>8. Relevant(m, -dir) = Relevant(s, dir)
  BY <1>5, <1>6, <1>7 DEF Relevant
<1>9. Relevant(s, dir) \subseteq C
  BY <1>5 DEF Relevant
<1>10. QED BY <1>5, <1>8, <1>9

LEMMA NegatedHolds ==
  ASSUME NEW m, NEW s, NEW n, Negated(m, s, n), NEW k \in 2..n
  PROVE  /\ PostHeld(m, k) = PostHeld(s, k) /\ PreHeld(m, k) = PreHeld(s, k)
         /\ PostN(m, k) = PostN(s, k)
         /\ PreOk(m, k) <=> PreOk(s, k)
         /\ PostOk(m, k) <=> PostOk(s, k)
<1>1. n \in Nat /\ Len(s) = n /\ Len(m) = n
  BY DEF Negated
<1>2. k \in 1..n /\ k - 1 \in 1..n
  BY <1>1
<1>3. (k..n) \subseteq 1..n /\ (1..(k - 1)) \subseteq 1..n
  BY <1>1
<1>4. {j \in k..n : SameSide(m[j], m[k])} = {j \in k..n : SameSide(s[j], s[k])}
  <2>1. \A j \in k..n : SameSide(m[j], m[k]) <=> SameSide(s[j], s[k])
    BY <1>2, <1>3, NegatedSides
  <2>2. QED BY <2>1
<1>5. {j \in 1..(k - 1) : SameSide(m[j], m[k - 1])} = {j \in 1..(k - 1) : SameSide(s[j], s[k - 1])}
  <2>1. \A j \in 1..(k - 1) : SameSide(m[j], m[k - 1]) <=> SameSide(s[j], s[k - 1])
    BY <1>2, <1>3, NegatedSides
  <2>2. QED BY <2>1
<1>6. PostHeld(m, k) = PostHeld(s, k)
  BY <1>1, <1>4 DEF PostHeld
<1>7. PreHeld(m, k) = PreHeld(s, k)
  BY <1>5 DEF PreHeld
<1>8. PostN(m, k) = PostN(s, k)
  BY <1>1 DEF PostN
<1>9. PreOk(m, k) <=> PreOk(s, k)
  BY <1>7 DEF PreOk
<1>10. PostOk(m, k) <=> PostOk(s, k)
  BY <1>6, <1>8 DEF PostOk
<1>11. QED BY <1>6, <1>7, <1>8, <1>9, <1>10

LEMMA FlipOfNegated ==
  ASSUME NEW m, NEW s, NEW n, Negated(m, s, n), NEW dir \in {-1, 0, 1}
  PROVE  BalanceFlip(s, dir) = BalanceFlip(m, -dir)
<1>1. n \in Nat /\ Len(s) = n /\ Len(m) = n /\ DOMAIN s = 1..n /\ DOMAIN m = 1..n
  BY DEF Negated
<1> DEFINE Pre(q, d)       == {k \in Relevant(q, d) : PreOk(q, k)}
           Judged(q, d) == {k \in Pre(q, d) : PostN(q, k) >= MinRemainder /\ PostOk(q, k)}
           Short(q, d)   == {k \in Pre(q, d) : PostN(q, k) < MinRemainder}
           Nearest(q)      == {k \in DOMAIN q : \A j \in DOMAIN q : AbsOf(q[k]) <= AbsOf(q[j])}
<1>2. PICK P : P = Pre(s, dir) /\ P = Pre(m, -dir) /\ P \subseteq 2..n
  <2>1. Relevant(m, -dir) = Relevant(s, dir) /\ Relevant(s, dir) \subseteq 2..n
    BY NegatedTurns
  <2>2. \A k \in 2..n : PreOk(m, k) <=> PreOk(s, k)
    BY NegatedHolds
  <2>3. QED BY <2>1, <2>2
<1>3. \A k \in P : /\ PostHeld(m, k) = PostHeld(s, k) /\ PostN(m, k) = PostN(s, k)
                   /\ PostOk(m, k) <=> PostOk(s, k)
  BY <1>2, NegatedHolds
<1>4. PICK A : A = Judged(s, dir) /\ A = Judged(m, -dir) /\ A \subseteq P
  <2>1. Judged(s, dir) = {k \in P : PostN(s, k) >= MinRemainder /\ PostOk(s, k)}
    BY <1>2
  <2>2. Judged(m, -dir) = {k \in P : PostN(m, k) >= MinRemainder /\ PostOk(m, k)}
    BY <1>2
  <2>3. QED BY <1>3, <2>1, <2>2
<1>5. PICK B : B = Short(s, dir) /\ B = Short(m, -dir) /\ B \subseteq P
  <2>1. Short(s, dir) = {k \in P : PostN(s, k) < MinRemainder}
    BY <1>2
  <2>2. Short(m, -dir) = {k \in P : PostN(m, k) < MinRemainder}
    BY <1>2
  <2>3. QED BY <1>3, <2>1, <2>2
<1>6. Nearest(s) = Nearest(m)
  <2>1. \A k \in 1..n : AbsOf(m[k]) = AbsOf(s[k])
    BY NegatedSides
  <2>2. QED BY <1>1, <2>1
<1>7. (\A k \in DOMAIN s : s[k] = 0) <=> (\A k \in DOMAIN m : m[k] = 0)
  <2>1. \A k \in 1..n : m[k] # 0 /\ s[k] # 0
    BY NegatedSides
  <2>2. QED BY <1>1, <2>1
<1>8. A # {} => PostHeld(m, Min(A)) = PostHeld(s, Min(A))
  <2>1. A # {} => Min(A) \in A
    <3>1. A \subseteq Nat
      BY <1>1, <1>2, <1>4
    <3>2. QED BY <3>1, LeastOf
  <2>2. QED BY <1>3, <1>4, <2>1
<1>9. B # {} => PostHeld(m, Max(B)) = PostHeld(s, Max(B))
  <2>1. B # {} => Max(B) \in B
    <3>1. B \subseteq 1..n
      BY <1>1, <1>2, <1>5
    <3>2. QED BY <1>1, <3>1, GreatestOf
  <2>2. QED BY <1>3, <1>5, <2>1
<1> DEFINE Verdict(q, n0, a, b, near) ==
      IF n0 < 2 \/ \A k \in DOMAIN q : q[k] = 0 THEN NoReading
      ELSE IF a # {} THEN [kind |-> "flip", k |-> Min(a), held |-> PostHeld(q, Min(a))]
      ELSE IF b # {} THEN [kind |-> "forming", k |-> Max(b), held |-> PostHeld(q, Max(b))]
      ELSE [kind |-> "none", k |-> Min(near), held |-> 0]
<1>10. BalanceFlip(s, dir) = Verdict(s, Len(s), Judged(s, dir), Short(s, dir), Nearest(s))
  BY DEF BalanceFlip
<1>11. BalanceFlip(m, -dir) = Verdict(m, Len(m), Judged(m, -dir), Short(m, -dir), Nearest(m))
  BY DEF BalanceFlip
<1> HIDE DEF Pre, Judged, Short, Nearest
<1>12. Verdict(s, n, A, B, Nearest(s)) = Verdict(m, n, A, B, Nearest(s))
  <2>1. CASE n < 2 \/ \A k \in DOMAIN s : s[k] = 0
    BY <1>7, <2>1
  <2>2. CASE ~(n < 2 \/ \A k \in DOMAIN s : s[k] = 0)
    BY <1>7, <1>8, <1>9, <2>2
  <2>3. QED BY <2>1, <2>2
<1> HIDE DEF Verdict
<1>13. BalanceFlip(s, dir) = Verdict(s, n, A, B, Nearest(s))
  BY <1>1, <1>4, <1>5, <1>10
<1>14. BalanceFlip(m, -dir) = Verdict(m, n, A, B, Nearest(s))
  BY <1>1, <1>4, <1>5, <1>6, <1>11
<1>15. QED BY <1>12, <1>13, <1>14

LEMMA MirroredFlips == WellFormed(history) => FlipIsMirrored
<1> SUFFICES ASSUME WellFormed(history), \A k \in DOMAIN Deltas(history) : Deltas(history)[k] # 0,
                    NEW dir \in {-1, 0, 1}
             PROVE  BalanceFlip(Deltas(history), dir)
                      = BalanceFlip([k \in DOMAIN Deltas(history) |-> -Deltas(history)[k]], -dir)
  BY DEF FlipIsMirrored
<1>1. PICK n \in Nat : n = Len(history) /\ DOMAIN history = 1..n
  BY BucketTimes
<1>2. PICK s, m : s = Deltas(history) /\ m = [k \in DOMAIN s |-> -s[k]]
  OBVIOUS
<1>3. DOMAIN s = 1..n /\ DOMAIN m = 1..n /\ \A k \in 1..n : s[k] = BuyVol(history[k]) - SellVol(history[k])
  BY <1>1, <1>2 DEF Deltas
<1>4. \A k \in 1..n : s[k] \in Int /\ s[k] # 0 /\ m[k] = -s[k] /\ m[k] \in Int
  <2>1. \A k \in 1..n : BuyVol(history[k]) \in Nat /\ SellVol(history[k]) \in Nat
    BY <1>1, BucketNumbers
  <2>2. \A k \in 1..n : s[k] \in Int
    BY <1>3, <2>1
  <2>3. QED BY <1>2, <1>3, <2>2
<1>5. Len(s) = n
  <2>1. s \in Seq(Int)
    <3>1. s = [k \in 1..n |-> s[k]]
      BY <1>2, <1>3 DEF Deltas
    <3>2. QED BY <1>1, <1>4, <3>1
  <2>2. QED BY <1>3, <2>1
<1>6. Len(m) = n
  <2>1. m \in Seq(Int)
    <3>1. m = [k \in 1..n |-> m[k]]
      BY <1>2, <1>3
    <3>2. QED BY <1>1, <1>4, <3>1
  <2>2. QED BY <1>3, <2>1
<1>7. Negated(m, s, n)
  BY <1>3, <1>4, <1>5, <1>6 DEF Negated
<1>8. BalanceFlip(s, dir) = BalanceFlip(m, -dir)
  BY <1>7, FlipOfNegated
<1>9. QED BY <1>2, <1>8

-----------------------------------------------------------------------------
(* The zones of the two sides.                                             *)

LEMMA SeriesAt ==
  ASSUME NEW bk, WellFormed(bk), NEW lo \in 1..Len(bk), NEW hi \in 1..Len(bk), NEW i \in lo..hi,
         NEW w \in Nat
  PROVE  AbsorptionSeries(bk, lo, hi, w)[i] = SuppressionAt(bk, i, w)
<1>1. PICK base, a : base = First(lo, w) /\ a = First(i, w)
  OBVIOUS
<1>2. Len(bk) \in Nat /\ lo \in Int /\ 1 <= lo /\ lo <= hi
  <2>1. Len(bk) \in Nat
    BY BucketTimes
  <2>2. QED BY <2>1
<1>3. base \in 1..lo
  <2>1. w \in Int
    OBVIOUS
  <2>2. base \in Int /\ base = (IF lo - w <= 1 THEN 1 ELSE lo - w)
    BY <1>1, <1>2, <2>1, FirstIs
  <2>3. QED BY <1>2, <2>2
<1>4. base <= First(lo, w)
  <2>1. base \in Int
    BY <1>2, <1>3
  <2>2. QED BY <1>1, <2>1
<1>5. Bounds(bk, lo, hi, w, base, i, a)
  BY <1>1, <1>2, <1>3, <1>4 DEF Bounds
<1>6. SuppressionFrom(bk, base, hi, i, w) = SuppressionAt(bk, i, w)
  BY <1>5, SuppressionFromIs
<1>7. AbsorptionSeries(bk, lo, hi, w)[i] = SuppressionFrom(bk, base, hi, i, w)
  BY <1>1, AbsorptionSeriesIs
<1>8. QED BY <1>6, <1>7

(* A maximal run of on around g.                                           *)
Run(on, a, b) == a \in on /\ b \in on /\ a <= b /\ a..b \subseteq on /\ a - 1 \notin on /\ b + 1 \notin on

LEMMA RunAround ==
  ASSUME NEW n \in Nat, NEW on, on \subseteq 1..n, NEW g \in on
  PROVE  \E a, b : Run(on, a, b)
<1>1. g \in 1..n /\ g \in Nat
  OBVIOUS
<1>2. PICK A : A = {x \in 1..g : x..g \subseteq on}
  OBVIOUS
<1>3. PICK B : B = {y \in g..n : g..y \subseteq on}
  OBVIOUS
<1>4. g \in A /\ g \in B
  BY <1>1, <1>2, <1>3
<1>5. PICK a : a \in A /\ \A x \in A : a <= x
  <2>1. A \subseteq Nat
    BY <1>1, <1>2
  <2>2. QED BY <1>4, <2>1, LeastOf
<1>6. PICK b : b \in B /\ \A y \in B : y <= b
  <2>1. B \subseteq 1..n
    BY <1>1, <1>3
  <2>2. QED BY <1>4, <2>1, GreatestOf
<1>7. a \in 1..g /\ a..g \subseteq on /\ b \in g..n /\ g..b \subseteq on
  BY <1>2, <1>3, <1>5, <1>6
<1>8. a \in Int /\ b \in Int /\ a <= g /\ g <= b /\ 1 <= a /\ b <= n
  BY <1>1, <1>7
<1>9. a..b \subseteq on
  <2>1. ASSUME NEW x \in a..b PROVE x \in a..g \/ x \in g..b
    BY <1>1, <1>8
  <2>2. QED BY <1>7, <2>1
<1>10. a - 1 \notin on
  <2>1. SUFFICES ASSUME a - 1 \in on PROVE FALSE
    OBVIOUS
  <2>2. a - 1 \in 1..n
    BY <2>1
  <2>3. a - 1 \in 1..g
    BY <1>1, <1>8, <2>2
  <2>4. ASSUME NEW x \in (a - 1)..g PROVE x = a - 1 \/ x \in a..g
    BY <1>1, <1>8
  <2>5. (a - 1)..g \subseteq on
    BY <1>7, <2>1, <2>4
  <2>6. a - 1 \in A
    BY <1>2, <2>3, <2>5
  <2>7. a <= a - 1
    BY <1>5, <2>6
  <2>8. QED BY <1>8, <2>7
<1>11. b + 1 \notin on
  <2>1. SUFFICES ASSUME b + 1 \in on PROVE FALSE
    OBVIOUS
  <2>2. b + 1 \in 1..n
    BY <2>1
  <2>3. b + 1 \in g..n
    BY <1>1, <1>8, <2>2
  <2>4. ASSUME NEW x \in g..(b + 1) PROVE x = b + 1 \/ x \in g..b
    BY <1>1, <1>8
  <2>5. g..(b + 1) \subseteq on
    BY <1>7, <2>1, <2>4
  <2>6. b + 1 \in B
    BY <1>3, <2>3, <2>5
  <2>7. b + 1 <= b
    BY <1>6, <2>6
  <2>8. QED BY <1>8, <2>7
<1>12. a \in on /\ b \in on /\ a <= b
  BY <1>1, <1>7, <1>8
<1>13. QED BY <1>9, <1>10, <1>11, <1>12 DEF Run

(* The buckets where a side stands at the threshold.                       *)
OnSide(side, val, thr) == {i \in DOMAIN side : side[i].num > 0 /\ QLeq(thr, val[i])}

LEMMA ZonesAreRuns ==
  ASSUME NEW side, NEW val, NEW thr, NEW n \in Nat, DOMAIN side = 1..n
  PROVE  /\ \A z \in Zones(side, val, thr, 1) :
              z[1] \in Int /\ z[2] \in Int /\ z[1] <= z[2] /\ z[1]..z[2] \subseteq OnSide(side, val, thr)
         /\ OnSide(side, val, thr) # {} => Zones(side, val, thr, 1) # {}
<1>1. PICK on : on = OnSide(side, val, thr)
  OBVIOUS
<1>2. on \subseteq 1..n
  BY <1>1 DEF OnSide
<1>3. Zones(side, val, thr, 1)
        = {z \in {ab \in on \X on : ab[1] <= ab[2]} :
              /\ z[1]..z[2] \subseteq on
              /\ z[1] - 1 \notin on /\ z[2] + 1 \notin on
              /\ z[2] - z[1] + 1 >= 1}
  BY <1>1 DEF Zones, OnSide
<1>4. \A z \in Zones(side, val, thr, 1) : z[1] \in Int /\ z[2] \in Int /\ z[1] <= z[2] /\ z[1]..z[2] \subseteq on
  <2>1. ASSUME NEW z \in on \X on PROVE z[1] \in Int /\ z[2] \in Int
    <3>1. z[1] \in on /\ z[2] \in on
      OBVIOUS
    <3>2. \A x \in on : x \in Int
      BY <1>2
    <3>3. QED BY <3>1, <3>2
  <2>2. \A z \in Zones(side, val, thr, 1) : z \in on \X on /\ z[1] <= z[2] /\ z[1]..z[2] \subseteq on
    BY <1>3
  <2>3. QED BY <2>1, <2>2
<1>5. ASSUME on # {} PROVE Zones(side, val, thr, 1) # {}
  <2>1. PICK g : g \in on
    BY <1>5
  <2>2. PICK a, b : Run(on, a, b)
    BY <1>2, <2>1, RunAround
  <2>3. a \in Int /\ b \in Int
    BY <1>2, <2>2 DEF Run
  <2>4. PICK z : z = <<a, b>>
    OBVIOUS
  <2>5. z \in on \X on /\ z[1] = a /\ z[2] = b
    BY <2>2, <2>4 DEF Run
  <2>6. b - a + 1 >= 1
    BY <2>2, <2>3 DEF Run
  <2>7. z[1] <= z[2] /\ z[1]..z[2] \subseteq on /\ z[1] - 1 \notin on /\ z[2] + 1 \notin on
        /\ z[2] - z[1] + 1 >= 1
    BY <2>2, <2>5, <2>6 DEF Run
  <2>8. z \in Zones(side, val, thr, 1)
    BY <1>3, <2>5, <2>7
  <2>9. QED BY <2>8
<1>6. QED BY <1>1, <1>4, <1>5

(* The upper median is one of the positive values it is taken of.          *)
LEMMA MedianIsReached ==
  ASSUME NEW n \in Nat, NEW d, DOMAIN d = 1..n, \A i \in 1..n : IsQ(d[i]),
         NEW j \in 1..n, d[j].num > 0
  PROVE  \E g \in 1..n : d[g].num > 0 /\ QLeq(UpperMedian(d), d[g])
<1>1. PICK nz, v, c : nz = {i \in DOMAIN d : d[i].num > 0} /\ v = [i \in nz |-> d[i]] /\ c = Cardinality(nz)
  OBVIOUS
<1>2. j \in nz /\ nz \subseteq 1..n
  BY <1>1
<1>3. IsFiniteSet(nz)
  <2>1. IsFiniteSet(1..n)
    <3>1. 1 \in Int /\ n \in Int
      OBVIOUS
    <3>2. QED BY <3>1, FS_Interval
  <2>2. QED BY <1>2, <2>1, FS_Subset
<1>4. c \in Nat /\ c > 0
  <2>1. c \in Nat
    BY <1>1, <1>3, FS_CardinalityType
  <2>2. c # 0
    BY <1>1, <1>2, <1>3, FS_EmptySet
  <2>3. QED BY <2>1, <2>2
<1>5. PICK k \in Nat : k = c \div 2 + 1 /\ k > 0 /\ k <= c
  BY <1>4
<1>6. Quotients(v, nz)
  BY <1>1, <1>2, <1>3 DEF Quotients
<1>7. Ranking(v, nz, k, KthOf(v, k))
  BY <1>1, <1>5, <1>6, KthRanks
<1>8. PICK g \in nz : KthOf(v, k) = v[g]
  BY <1>7 DEF Ranking
<1>9. nz # {}
  BY <1>2
<1>10. UpperMedian(d) = KthOf(v, k)
  BY <1>1, <1>5, <1>9 DEF UpperMedian
<1>11. QLeq(d[g], d[g])
  <2>1. IsQ(d[g])
    BY <1>2, <1>8
  <2>2. QED BY <2>1, QuotientOrder
<1>12. v[g] = d[g]
  BY <1>1, <1>8
<1>13. QED BY <1>1, <1>2, <1>8, <1>10, <1>11, <1>12

LEMMA OneSideAbsorbs ==
  ASSUME NEW b, BuyVol(b) \in Nat, SellVol(b) \in Nat, NEW s, IsShare(s)
  PROVE  /\ BullAbsorbed(b, s).num > 0 => ~(BearAbsorbed(b, s).num > 0)
         /\ BullAbsorbed(b, s).num > 0 \/ BearAbsorbed(b, s).num > 0 => s.num > 0
<1>1. PICK x, y, m \in Nat : x = BuyVol(b) /\ y = SellVol(b) /\ m = s.num
  BY DEF IsShare, IsQ
<1>2. Zero.num = 0
  BY QParts DEF Zero
<1>3. QScale(x, s).num = x * m /\ QScale(y, s).num = y * m
  BY <1>1, QParts DEF QScale
<1>4. m = 0 => x * m = 0 /\ y * m = 0
  OBVIOUS
<1>5. BullAbsorbed(b, s).num = (IF y > x THEN y * m ELSE 0)
  BY <1>1, <1>2, <1>3 DEF BullAbsorbed
<1>6. BearAbsorbed(b, s).num = (IF x > y THEN x * m ELSE 0)
  BY <1>1, <1>2, <1>3 DEF BearAbsorbed
<1>7. CASE m = 0
  BY <1>4, <1>5, <1>6, <1>7
<1>8. CASE m > 0
  <2>1. BullAbsorbed(b, s).num > 0 => y > x
    BY <1>5
  <2>2. BearAbsorbed(b, s).num > 0 => x > y
    BY <1>6
  <2>3. QED BY <1>1, <1>8, <2>1, <2>2
<1>9. QED BY <1>7, <1>8

LEMMA ZonesHold == WellFormed(history) => ZonesTellTheSidesApart
<1> SUFFICES ASSUME WellFormed(history), history # <<>>
             PROVE  LET bull == SideZones(BullAbsorbed, 1)
                        bear == SideZones(BearAbsorbed, 1)
                    IN  /\ \A x \in bull, y \in bear : x[2] < y[1] \/ y[2] < x[1]
                        /\ (\E i \in DOMAIN history : LET s == SuppressionAt(history, i, 2) IN
                               BullAbsorbed(history[i], s).num > 0 \/ BearAbsorbed(history[i], s).num > 0)
                             => bull \cup bear # {}
  BY DEF ZonesTellTheSidesApart
<1>1. PICK n \in Nat : n = Len(history) /\ DOMAIN history = 1..n
  BY BucketTimes
<1>2. n > 0
  BY <1>1, BucketTimes DEF WellFormed
<1>3. PICK s, d, u, e : /\ s = AbsorptionSeries(history, 1, Len(history), 2)
                        /\ u = [i \in DOMAIN history |-> BullAbsorbed(history[i], s[i])]
                        /\ e = [i \in DOMAIN history |-> BearAbsorbed(history[i], s[i])]
                        /\ d = [i \in DOMAIN history |->
                                  IF BullAbsorbed(history[i], s[i]).num > 0
                                     \/ BearAbsorbed(history[i], s[i]).num > 0 THEN s[i] ELSE Zero]
  OBVIOUS
<1>4. PICK thr : thr = UpperMedian(d)
  OBVIOUS
<1>5. SideZones(BullAbsorbed, 1) = Zones(u, s, thr, 1)
  BY <1>3, <1>4 DEF SideZones
<1>6. SideZones(BearAbsorbed, 1) = Zones(e, s, thr, 1)
  BY <1>3, <1>4 DEF SideZones
<1>7. \A i \in 1..n : s[i] = SuppressionAt(history, i, 2) /\ IsShare(s[i])
  <2>1. 1 \in 1..Len(history) /\ Len(history) \in 1..Len(history) /\ 2 \in Nat
    BY <1>1, <1>2
  <2>2. \A i \in 1..Len(history) : s[i] = SuppressionAt(history, i, 2)
    BY <1>3, <2>1, SeriesAt
  <2>3. \A i \in 1..Len(history) : IsShare(SuppressionAt(history, i, 2))
    BY <2>1, SuppressionAtIsShare
  <2>4. QED BY <1>1, <2>2, <2>3
<1>8. \A i \in 1..n : /\ u[i].num > 0 => ~(e[i].num > 0)
                      /\ u[i].num > 0 \/ e[i].num > 0 => s[i].num > 0
  <2>1. \A i \in 1..n : BuyVol(history[i]) \in Nat /\ SellVol(history[i]) \in Nat
    BY <1>1, BucketNumbers
  <2>2. \A i \in 1..n : /\ BullAbsorbed(history[i], s[i]).num > 0 => ~(BearAbsorbed(history[i], s[i]).num > 0)
                        /\ BullAbsorbed(history[i], s[i]).num > 0 \/ BearAbsorbed(history[i], s[i]).num > 0
                             => s[i].num > 0
    BY <1>7, <2>1, OneSideAbsorbs
  <2>3. \A i \in 1..n : u[i] = BullAbsorbed(history[i], s[i]) /\ e[i] = BearAbsorbed(history[i], s[i])
    BY <1>1, <1>3
  <2>4. QED BY <2>2, <2>3
<1>9. DOMAIN u = 1..n /\ DOMAIN e = 1..n /\ DOMAIN d = 1..n
  BY <1>1, <1>3
<1>10. OnSide(u, s, thr) \cap OnSide(e, s, thr) = {}
  BY <1>8, <1>9 DEF OnSide
<1>11. \A z \in Zones(u, s, thr, 1) : z[1] \in Int /\ z[2] \in Int /\ z[1] <= z[2]
                                     /\ z[1]..z[2] \subseteq OnSide(u, s, thr)
  BY <1>9, ZonesAreRuns
<1>12. \A z \in Zones(e, s, thr, 1) : z[1] \in Int /\ z[2] \in Int /\ z[1] <= z[2]
                                     /\ z[1]..z[2] \subseteq OnSide(e, s, thr)
  BY <1>9, ZonesAreRuns
<1>13. ASSUME NEW x \in Zones(u, s, thr, 1), NEW y \in Zones(e, s, thr, 1)
       PROVE  x[2] < y[1] \/ y[2] < x[1]
  <2>1. SUFFICES ASSUME ~(x[2] < y[1] \/ y[2] < x[1]) PROVE FALSE
    OBVIOUS
  <2>2. PICK a, b, p, q \in Int : a = x[1] /\ b = x[2] /\ p = y[1] /\ q = y[2]
    BY <1>11, <1>12
  <2>3. a <= b /\ p <= q /\ a..b \subseteq OnSide(u, s, thr) /\ p..q \subseteq OnSide(e, s, thr)
    BY <1>11, <1>12, <2>2
  <2>4. p <= b /\ a <= q
    BY <2>1, <2>2
  <2>5. \E c \in Int : c \in a..b /\ c \in p..q
    <3>1. CASE a <= p
      <4>1. p \in a..b /\ p \in p..q
        BY <2>3, <2>4, <3>1
      <4>2. QED BY <4>1
    <3>2. CASE p <= a
      <4>1. a \in a..b /\ a \in p..q
        BY <2>3, <2>4, <3>2
      <4>2. QED BY <4>1
    <3>3. QED BY <3>1, <3>2
  <2>6. QED BY <1>10, <2>3, <2>5
<1>14. ASSUME NEW i \in DOMAIN history,
              \/ BullAbsorbed(history[i], SuppressionAt(history, i, 2)).num > 0
              \/ BearAbsorbed(history[i], SuppressionAt(history, i, 2)).num > 0
       PROVE  Zones(u, s, thr, 1) # {} \/ Zones(e, s, thr, 1) # {}
  <2>1. i \in 1..n /\ (u[i].num > 0 \/ e[i].num > 0)
    BY <1>1, <1>3, <1>7, <1>14
  <2>2. \A k \in 1..n : d[k] = IF u[k].num > 0 \/ e[k].num > 0 THEN s[k] ELSE Zero
    BY <1>1, <1>3
  <2>3. \A k \in 1..n : IsQ(d[k]) /\ (d[k].num > 0 => d[k] = s[k] /\ (u[k].num > 0 \/ e[k].num > 0))
    <3>1. Zero.num = 0 /\ IsQ(Zero)
      BY QParts DEF Zero, IsQ
    <3>2. \A k \in 1..n : IsQ(s[k])
      BY <1>7 DEF IsShare
    <3>3. QED BY <2>2, <3>1, <3>2
  <2>4. d[i].num > 0
    BY <1>8, <2>1, <2>2
  <2>5. PICK g \in 1..n : d[g].num > 0 /\ QLeq(thr, d[g])
    BY <1>4, <1>9, <2>1, <2>3, <2>4, MedianIsReached
  <2>6. QLeq(thr, s[g]) /\ (u[g].num > 0 \/ e[g].num > 0)
    BY <2>3, <2>5
  <2>7. g \in OnSide(u, s, thr) \/ g \in OnSide(e, s, thr)
    BY <1>9, <2>5, <2>6 DEF OnSide
  <2>8. /\ OnSide(u, s, thr) # {} => Zones(u, s, thr, 1) # {}
        /\ OnSide(e, s, thr) # {} => Zones(e, s, thr, 1) # {}
    BY <1>9, ZonesAreRuns
  <2>9. QED BY <2>7, <2>8
<1>15. QED BY <1>5, <1>6, <1>13, <1>14

-----------------------------------------------------------------------------
(* The rolling VPIN is a quotient.                                         *)

AddsImbalance(g, bk, S) ==
    g = [s \in SUBSET S |-> IF s = {} THEN 0
            ELSE AbsOf(BuyVol(bk[CHOOSE x \in s : TRUE]) - SellVol(bk[CHOOSE x \in s : TRUE]))
                 + g[s \ {CHOOSE x \in s : TRUE}]]
ImbalanceSum(bk, S) == MapThenSumSet(LAMBDA k : AbsOf(BuyVol(bk[k]) - SellVol(bk[k])), S)
Imbalances(bk, S) == [k \in S |-> AbsOf(BuyVol(bk[k]) - SellVol(bk[k]))]

LEMMA ImbalanceSumIs ==
  ASSUME NEW bk, NEW S, IsFiniteSet(S), \A k \in S : AbsOf(BuyVol(bk[k]) - SellVol(bk[k])) \in Int
  PROVE  ImbalanceSum(bk, S) = SumOver(Imbalances(bk, S), S)
<1>1. PICK w : w = Imbalances(bk, S)
  OBVIOUS
<1>2. \A k \in S : w[k] \in Int /\ w[k] = AbsOf(BuyVol(bk[k]) - SellVol(bk[k]))
  BY <1>1 DEF Imbalances
<1>3. PICK h : Sums(h, w, S)
  BY <1>2, SumsExist
<1>4. Adds(h, w, S)
  BY <1>2, <1>3, SumsAdd
<1>5. \A s \in SUBSET S : s # {} => w[CHOOSE x \in s : TRUE]
                                      = AbsOf(BuyVol(bk[CHOOSE x \in s : TRUE]) - SellVol(bk[CHOOSE x \in s : TRUE]))
  BY <1>2
<1>6. AddsImbalance(h, bk, S)
  BY <1>4, <1>5 DEF Adds, AddsImbalance
<1>7. PICK g : g = CHOOSE it : AddsImbalance(it, bk, S)
  OBVIOUS
<1>8. ImbalanceSum(bk, S) = g[S]
  BY <1>7 DEF ImbalanceSum, MapThenSumSet, MapThenFoldSet, AddsImbalance
<1>9. AddsImbalance(g, bk, S)
  BY <1>6, <1>7
<1>10. Adds(g, w, S)
  <2>1. g = [s \in SUBSET S |-> g[s]] /\ g[{}] = 0
    BY <1>9 DEF AddsImbalance
  <2>2. \A s \in SUBSET S : s # {} => g[s] = w[CHOOSE x \in s : TRUE] + g[s \ {CHOOSE x \in s : TRUE}]
    BY <1>5, <1>9 DEF AddsImbalance
  <2>3. QED BY <2>1, <2>2, AddsFrom
<1>11. g[S] = h[S] /\ SumOver(w, S) = h[S]
  BY <1>2, <1>3, <1>10, SumIsUnique, SumIs
<1>12. QED BY <1>1, <1>8, <1>11

LEMMA VpinIsQuotient ==
  ASSUME NEW bk, WellFormed(bk), NEW m \in Nat, NEW i \in 1..Len(bk)
  PROVE  IsQ(RollingVpin(bk, m)[i])
<1>1. PICK a, S : a = Max({1, i - m + 1}) /\ S = a..i
  OBVIOUS
<1>2. Len(bk) \in Nat /\ DOMAIN bk = 1..Len(bk)
  BY BucketTimes
<1>3. i \in Int /\ a \in Int /\ 1 <= a
  <2>1. PICK x \in Int : x = i - m + 1
    BY <1>2
  <2>2. 1 \in Int
    OBVIOUS
  <2>3. Max({1, x}) = (IF 1 >= x THEN 1 ELSE x)
    BY <2>1, <2>2, OfTwo
  <2>4. QED BY <1>1, <1>2, <2>1, <2>3
<1>4. IsFiniteSet(S) /\ S \subseteq 1..Len(bk)
  <2>1. IsFiniteSet(S)
    BY <1>1, <1>3, FS_Interval
  <2>2. S \subseteq 1..Len(bk)
    BY <1>1, <1>2, <1>3
  <2>3. QED BY <2>1, <2>2
<1>5. \A k \in S : Vol(bk[k]) \in Nat /\ BuyVol(bk[k]) \in Nat /\ SellVol(bk[k]) \in Nat
  BY <1>4, BucketNumbers
<1>6. \A k \in S : Vol(bk[k]) \in Int /\ AbsOf(BuyVol(bk[k]) - SellVol(bk[k])) \in Int
  BY <1>5 DEF AbsOf
<1>7. VolumeSum(bk, S) \in Int
  <2>1. VolumeSum(bk, S) = SumOver(Volumes(bk, S), S)
    BY <1>4, <1>6, VolumeSumIs
  <2>2. \A k \in S : Volumes(bk, S)[k] \in Int
    BY <1>6 DEF Volumes
  <2>3. QED BY <1>4, <2>1, <2>2, SumOfFunction
<1>8. ImbalanceSum(bk, S) \in Int
  <2>1. ImbalanceSum(bk, S) = SumOver(Imbalances(bk, S), S)
    BY <1>4, <1>6, ImbalanceSumIs
  <2>2. \A k \in S : Imbalances(bk, S)[k] \in Int
    BY <1>6 DEF Imbalances
  <2>3. QED BY <1>4, <2>1, <2>2, SumOfFunction
<1>9. RollingVpin(bk, m)[i] = IF VolumeSum(bk, S) > 0 THEN Q(ImbalanceSum(bk, S), VolumeSum(bk, S)) ELSE Zero
  BY <1>1, <1>2 DEF RollingVpin, Imbalance, ImbalanceSum, VolumeSum
<1>10. IsQ(Zero)
  BY QParts DEF Zero, IsQ
<1>11. VolumeSum(bk, S) > 0 => IsQ(Q(ImbalanceSum(bk, S), VolumeSum(bk, S)))
  BY <1>7, <1>8, QParts DEF IsQ
<1>12. QED BY <1>9, <1>10, <1>11

-----------------------------------------------------------------------------
(* Between two quotients.                                                  *)

Mix(x, y, f) ==
    Q(100 * x.num * y.den + (y.num * x.den - x.num * y.den) * f, 100 * x.den * y.den)

LEMMA MixIs ==
  ASSUME NEW x, IsQ(x), NEW y, IsQ(y), QLeq(x, y), NEW f \in Int, 0 <= f, f <= 100
  PROVE  IsQ(Mix(x, y, f)) /\ QLeq(x, Mix(x, y, f)) /\ QLeq(Mix(x, y, f), y)
<1>1. PICK a, b, c, d \in Int : a = x.num /\ b = x.den /\ c = y.num /\ d = y.den /\ b > 0 /\ d > 0
  BY DEF IsQ
<1>2. PICK A, B, D \in Int : A = a * d /\ B = c * b /\ D = b * d
  OBVIOUS
<1>3. A <= B /\ D > 0
  <2>1. A <= B
    BY <1>1, <1>2 DEF QLeq
  <2>2. D > 0
    BY <1>1, <1>2
  <2>3. QED BY <2>1, <2>2
<1>4. PICK M \in Int : M = (B - A) * f /\ 0 <= M /\ M <= 100 * (B - A)
  <2>1. PICK e \in Nat : e = B - A
    BY <1>3
  <2>2. e * f \in Int /\ 0 <= e * f /\ e * f <= 100 * e
    <3>1. PICK g \in Nat : f + g = 100
      BY f \in Int, f <= 100
    <3>2. e * f + e * g = 100 * e
      <4>1. e * (f + g) = e * f + e * g
        OBVIOUS
      <4>2. QED BY <3>1, <4>1
    <3>3. e * f >= 0 /\ e * g >= 0 /\ e * f \in Int /\ e * g \in Int
      OBVIOUS
    <3>4. PICK p, q \in Int : p = e * f /\ q = e * g
      OBVIOUS
    <3>5. QED BY <3>2, <3>3, <3>4
  <2>3. QED BY <2>1, <2>2
<1>5. Mix(x, y, f).num = 100 * A + M /\ Mix(x, y, f).den = 100 * D
  <2>1. 100 * a * d = 100 * A /\ 100 * b * d = 100 * D
    BY <1>2
  <2>2. Mix(x, y, f).num = 100 * a * d + (c * b - a * d) * f /\ Mix(x, y, f).den = 100 * b * d
    BY <1>1, QParts DEF Mix
  <2>3. QED BY <1>2, <1>4, <2>1, <2>2
<1>6. IsQ(Mix(x, y, f))
  BY <1>3, <1>5 DEF IsQ
<1>7. QLeq(x, Mix(x, y, f))
  <2>1. b * (100 * A) <= b * (100 * A + M)
    BY <1>1, <1>4, TimesKeepsOrder
  <2>2. a * (100 * D) = b * (100 * A)
    BY <1>2
  <2>3. (100 * A + M) * b = b * (100 * A + M)
    OBVIOUS
  <2>4. QED BY <1>1, <1>5, <2>1, <2>2, <2>3 DEF QLeq
<1>8. QLeq(Mix(x, y, f), y)
  <2>1. 100 * A + M <= 100 * B
    BY <1>4
  <2>2. 100 * A + M \in Int /\ 100 * B \in Int
    OBVIOUS
  <2>3. d * (100 * A + M) <= d * (100 * B)
    BY <1>1, <2>1, <2>2, TimesKeepsOrder
  <2>4. c * (100 * D) = d * (100 * B)
    BY <1>2
  <2>5. (100 * A + M) * d = d * (100 * A + M)
    OBVIOUS
  <2>6. QED BY <1>1, <1>5, <2>3, <2>4, <2>5 DEF QLeq
<1>9. QED BY <1>6, <1>7, <1>8

LEMMA MixGrows ==
  ASSUME NEW x, IsQ(x), NEW y, IsQ(y), QLeq(x, y), NEW f \in Int, NEW g \in Int, f <= g
  PROVE  QLeq(Mix(x, y, f), Mix(x, y, g))
<1>1. PICK a, b, c, d \in Int : a = x.num /\ b = x.den /\ c = y.num /\ d = y.den /\ b > 0 /\ d > 0
  BY DEF IsQ
<1>2. PICK A, B, E \in Int : A = 100 * a * d /\ B = c * b - a * d /\ E = 100 * b * d
  OBVIOUS
<1>3. B >= 0 /\ E > 0
  <2>1. a * d <= c * b
    BY <1>1 DEF QLeq
  <2>2. PICK p, q \in Int : p = a * d /\ q = c * b
    OBVIOUS
  <2>3. B >= 0
    BY <1>2, <2>1, <2>2
  <2>4. b * d > 0
    BY <1>1
  <2>5. PICK h \in Int : h = b * d
    OBVIOUS
  <2>6. E = 100 * h
    BY <1>2, <2>5
  <2>7. QED BY <2>3, <2>4, <2>5, <2>6
<1>4. B * f <= B * g
  <2>1. CASE B = 0
    BY <2>1
  <2>2. CASE B > 0
    BY <2>2, TimesKeepsOrder
  <2>3. QED BY <1>3, <2>1, <2>2
<1>5. PICK U, V \in Int : U = A + B * f /\ V = A + B * g /\ U <= V
  <2>1. PICK p, q \in Int : p = B * f /\ q = B * g
    OBVIOUS
  <2>2. QED BY <1>4, <2>1
<1>6. Mix(x, y, f).num = U /\ Mix(x, y, f).den = E /\ Mix(x, y, g).num = V /\ Mix(x, y, g).den = E
  BY <1>1, <1>2, <1>5, QParts DEF Mix
<1>7. E * U <= E * V /\ E * U = U * E /\ E * V = V * E
  BY <1>3, <1>5, TimesKeepsOrder
<1>8. QED BY <1>6, <1>7 DEF QLeq

LEMMA ReducedIsRecord ==
  ASSUME NEW x, IsQ(x)
  PROVE  Reduced(x) \in [num : Int, den : Int]
<1>1. \E a, b : Reduced(x) = Q(a, b)
  BY DEF Reduced
<1>2. PICK a, b : Reduced(x) = [num |-> a, den |-> b]
  BY <1>1 DEF Q
<1>3. IsQ(Reduced(x))
  BY ReducedIsEqual
<1>4. a \in Int /\ b \in Int
  BY <1>2, <1>3 DEF IsQ
<1>5. QED BY <1>2, <1>4

-----------------------------------------------------------------------------
(* A percentile lies between two neighbours of the sorted samples.         *)

Samples(v, n) == n \in Nat /\ n > 0 /\ Len(v) = n /\ Quotients(v, 1..n)

Place(v, n, p, lo, f) == lo \in Nat /\ f \in 0..99 /\ 100 * lo + f = p * (n - 1) /\ lo + 1 <= n

LowOf(v, lo)     == KthOf(v, lo + 1)
HighOf(v, n, lo) == KthOf(v, Min({lo + 2, n}))

Between3(v, n, lo, f, c) ==
    /\ IsQ(LowOf(v, lo)) /\ IsQ(HighOf(v, n, lo)) /\ IsQ(c)
    /\ QLeq(LowOf(v, lo), HighOf(v, n, lo))
    /\ QEq(c, Mix(LowOf(v, lo), HighOf(v, n, lo), f))
    /\ QLeq(LowOf(v, lo), c) /\ QLeq(c, HighOf(v, n, lo))

LEMMA SamplesAre ==
  ASSUME NEW v, NEW n, Samples(v, n)
  PROVE  n \in Nat /\ n > 0 /\ IsFiniteSet(1..n) /\ Cardinality(1..n) = n /\ DOMAIN v = 1..n
         /\ \A i \in 1..n : IsQ(v[i])
<1>1. n \in Nat /\ n > 0 /\ DOMAIN v = 1..n /\ \A i \in 1..n : IsQ(v[i])
  BY DEF Samples, Quotients
<1>2. IsFiniteSet(1..n) /\ Cardinality(1..n) = n
  <2>1. 1 \in Int /\ n \in Int /\ 1 <= n
    BY <1>1
  <2>2. IsFiniteSet(1..n) /\ Cardinality(1..n) = n - 1 + 1
    BY <2>1, FS_Interval
  <2>3. QED BY <1>1, <2>2
<1>3. QED BY <1>1, <1>2

LEMMA NeighboursRank ==
  ASSUME NEW v, NEW n, Samples(v, n), NEW lo \in Nat, lo + 1 <= n
  PROVE  /\ Ranking(v, 1..n, lo + 1, LowOf(v, lo))
         /\ Min({lo + 2, n}) = (IF lo + 2 <= n THEN lo + 2 ELSE n)
         /\ Ranking(v, 1..n, Min({lo + 2, n}), HighOf(v, n, lo))
         /\ QLeq(LowOf(v, lo), HighOf(v, n, lo))
<1>1. n \in Nat /\ n > 0 /\ Cardinality(1..n) = n
  BY SamplesAre
<1>2. PICK I : I = 1..n
  OBVIOUS
<1>3. Quotients(v, I)
  BY <1>2 DEF Samples
<1>4. PICK k, l \in Nat : k = lo + 1 /\ l = (IF lo + 2 <= n THEN lo + 2 ELSE n)
  BY <1>1
<1>5. k > 0 /\ l > 0 /\ k <= l /\ k <= n /\ l <= n
  BY <1>1, <1>4
<1>6. Min({lo + 2, n}) = l
  <2>1. lo + 2 \in Int /\ n \in Int
    BY <1>1
  <2>2. QED BY <1>4, <2>1, OfTwo
<1>7. Ranking(v, I, k, KthOf(v, k)) /\ Ranking(v, I, l, KthOf(v, l))
  BY <1>1, <1>2, <1>3, <1>5, KthRanks
<1>8. QLeq(KthOf(v, k), KthOf(v, l))
  BY <1>3, <1>5, <1>7, RanksInOrder
<1>9. QED BY <1>2, <1>4, <1>6, <1>7, <1>8 DEF LowOf, HighOf

LEMMA EqualIsBothWays ==
  ASSUME NEW c, IsQ(c), NEW m, IsQ(m), QEq(c, m)
  PROVE  QLeq(c, m) /\ QLeq(m, c)
BY QuotientOrder

LEMMA PercentileIs ==
  ASSUME NEW v, NEW n, Samples(v, n), NEW p \in 0..100
  PROVE  \E lo, f : /\ Place(v, n, p, lo, f) /\ Between3(v, n, lo, f, Percentile(v, p))
                    /\ Percentile(v, p) \in [num : Int, den : Int]
<1>1. n \in Nat /\ n > 0 /\ Len(v) = n
  BY DEF Samples
<1>2. PICK r \in Nat : r = p * (n - 1)
  BY <1>1
<1>3. r <= 100 * (n - 1)
  <2>1. PICK m \in Nat : m = n - 1
    BY <1>1
  <2>2. PICK g \in Nat : p + g = 100
    OBVIOUS
  <2>3. p * m + g * m = 100 * m
    <3>1. (p + g) * m = p * m + g * m
      OBVIOUS
    <3>2. QED BY <2>2, <3>1
  <2>4. g * m >= 0 /\ p * m \in Int /\ g * m \in Int
    OBVIOUS
  <2>5. QED BY <1>2, <2>1, <2>3, <2>4
<1>4. PICK lo, f \in Nat : lo = r \div 100 /\ f = r % 100
  OBVIOUS
<1>5. 100 * lo + f = r /\ f <= 99
  BY <1>4
<1>6. lo + 1 <= n
  BY <1>1, <1>3, <1>5
<1>7. Place(v, n, p, lo, f)
  BY <1>2, <1>5, <1>6 DEF Place
<1>8. PICK x, y : x = LowOf(v, lo) /\ y = HighOf(v, n, lo)
  OBVIOUS
<1>9. IsQ(x) /\ IsQ(y) /\ QLeq(x, y)
  BY <1>6, <1>8, NeighboursRank DEF Ranking
<1>10. IsQ(Mix(x, y, f)) /\ QLeq(x, Mix(x, y, f)) /\ QLeq(Mix(x, y, f), y)
  <2>1. f \in Int /\ 0 <= f /\ f <= 100
    BY <1>5
  <2>2. QED BY <1>9, <2>1, MixIs
<1>11. PICK c : c = Percentile(v, p)
  OBVIOUS
<1>12. c = Reduced(Mix(x, y, f))
  BY <1>1, <1>2, <1>4, <1>8, <1>11 DEF Percentile, Mix, LowOf, HighOf
<1>13. IsQ(c) /\ QEq(c, Mix(x, y, f)) /\ c \in [num : Int, den : Int]
  BY <1>10, <1>12, ReducedIsEqual, ReducedIsRecord
<1>14. QLeq(c, Mix(x, y, f)) /\ QLeq(Mix(x, y, f), c)
  BY <1>10, <1>13, EqualIsBothWays
<1>15. QLeq(x, c)
  BY <1>9, <1>10, <1>13, <1>14, QuotientsInTurn
<1>16. QLeq(c, y)
  BY <1>9, <1>10, <1>13, <1>14, QuotientsInTurn
<1>17. Between3(v, n, lo, f, c)
  BY <1>8, <1>9, <1>13, <1>15, <1>16 DEF Between3
<1>18. QED BY <1>7, <1>11, <1>13, <1>17

(* A higher percentile is not a smaller one.                               *)
LEMMA PercentilesInOrder ==
  ASSUME NEW v, NEW n, Samples(v, n), NEW p \in 0..100, NEW q \in 0..100, p <= q
  PROVE  QLeq(Percentile(v, p), Percentile(v, q))
<1>1. PICK lo, f : Place(v, n, p, lo, f) /\ Between3(v, n, lo, f, Percentile(v, p))
  BY PercentileIs
<1>2. PICK l2, g : Place(v, n, q, l2, g) /\ Between3(v, n, l2, g, Percentile(v, q))
  BY PercentileIs
<1>3. PICK c, d : c = Percentile(v, p) /\ d = Percentile(v, q)
  OBVIOUS
<1>4. /\ lo \in Nat /\ f \in 0..99 /\ 100 * lo + f = p * (n - 1) /\ lo + 1 <= n
      /\ l2 \in Nat /\ g \in 0..99 /\ 100 * l2 + g = q * (n - 1) /\ l2 + 1 <= n
  BY <1>1, <1>2 DEF Place
<1>5. n \in Nat /\ n > 0
  BY DEF Samples
<1>6. p * (n - 1) <= q * (n - 1)
  <2>1. PICK m \in Nat : m = n - 1
    BY <1>5
  <2>2. PICK e \in Nat : p + e = q
    OBVIOUS
  <2>3. q * m = p * m + e * m
    BY <2>2
  <2>4. e * m >= 0 /\ e * m \in Int /\ p * m \in Int
    OBVIOUS
  <2>5. QED BY <2>1, <2>3, <2>4
<1>7. lo < l2 \/ (lo = l2 /\ f <= g)
  <2>1. PICK r, t \in Int : r = p * (n - 1) /\ t = q * (n - 1)
    BY <1>5
  <2>2. QED BY <1>4, <1>6, <2>1
<1>8. CASE lo = l2 /\ f <= g
  <2>1. PICK x, y : x = LowOf(v, lo) /\ y = HighOf(v, n, lo)
    OBVIOUS
  <2>2. /\ IsQ(x) /\ IsQ(y) /\ QLeq(x, y) /\ IsQ(c) /\ IsQ(d)
        /\ QEq(c, Mix(x, y, f)) /\ QEq(d, Mix(x, y, g))
    BY <1>1, <1>2, <1>3, <1>8, <2>1 DEF Between3
  <2>3. f \in Int /\ g \in Int /\ 0 <= f /\ f <= 100 /\ 0 <= g /\ g <= 100
    BY <1>4
  <2>4. IsQ(Mix(x, y, f)) /\ IsQ(Mix(x, y, g))
    BY <2>2, <2>3, MixIs
  <2>5. QLeq(Mix(x, y, f), Mix(x, y, g))
    BY <1>8, <2>2, <2>3, MixGrows
  <2>6. QLeq(c, Mix(x, y, f)) /\ QLeq(Mix(x, y, g), d)
    BY <2>2, <2>4, EqualIsBothWays
  <2>7. QLeq(c, Mix(x, y, g))
    BY <2>2, <2>4, <2>5, <2>6, QuotientsInTurn
  <2>8. QED BY <1>3, <2>2, <2>4, <2>6, <2>7, QuotientsInTurn
<1>9. CASE lo < l2
  <2>1. PICK y, z : y = HighOf(v, n, lo) /\ z = LowOf(v, l2)
    OBVIOUS
  <2>2. IsQ(y) /\ IsQ(z) /\ IsQ(c) /\ IsQ(d) /\ QLeq(c, y) /\ QLeq(z, d)
    BY <1>1, <1>2, <1>3, <2>1 DEF Between3
  <2>3. /\ Min({lo + 2, n}) = (IF lo + 2 <= n THEN lo + 2 ELSE n)
        /\ Ranking(v, 1..n, Min({lo + 2, n}), y) /\ Ranking(v, 1..n, l2 + 1, z)
    BY <1>4, <2>1, NeighboursRank
  <2>4. PICK k, l \in Nat : k = lo + 2 /\ l = l2 + 1
    BY <1>4
  <2>5. Ranking(v, 1..n, k, y) /\ Ranking(v, 1..n, l, z) /\ k <= l
    <3>1. lo + 2 <= n /\ k <= l
      BY <1>4, <1>5, <1>9, <2>4
    <3>2. QED BY <2>3, <2>4, <3>1
  <2>6. Quotients(v, 1..n)
    BY DEF Samples
  <2>7. QLeq(y, z)
    BY <2>5, <2>6, RanksInOrder
  <2>8. QLeq(c, z)
    BY <2>2, <2>7, QuotientsInTurn
  <2>9. QED BY <1>3, <2>2, <2>8, QuotientsInTurn
<1>10. QED BY <1>7, <1>8, <1>9

AboveOf(v, n, c) == {k \in 1..n : QLess(c, v[k])}

(* Few samples are above a percentile.                                     *)
LEMMA FewAbove ==
  ASSUME NEW v, NEW n, Samples(v, n), NEW p \in 0..100, NEW c, c = Percentile(v, p)
  PROVE  100 * Cardinality(AboveOf(v, n, c)) < (100 - p) * (n - 1) + 100
<1>1. PICK lo, f : Place(v, n, p, lo, f) /\ Between3(v, n, lo, f, c)
  BY PercentileIs
<1>2. PICK x : x = LowOf(v, lo)
  OBVIOUS
<1>3. lo \in Nat /\ f \in 0..99 /\ 100 * lo + f = p * (n - 1) /\ lo + 1 <= n
  BY <1>1 DEF Place
<1>4. IsQ(x) /\ IsQ(c) /\ QLeq(x, c)
  BY <1>1, <1>2 DEF Between3
<1>5. n \in Nat /\ n > 0 /\ IsFiniteSet(1..n) /\ Cardinality(1..n) = n /\ \A i \in 1..n : IsQ(v[i])
  BY SamplesAre
<1>6. PICK I, U, A : I = 1..n /\ U = UpTo(v, I, x) /\ A = AboveOf(v, n, c)
  OBVIOUS
<1>7. lo + 1 <= Cardinality(U)
  BY <1>2, <1>3, <1>6, NeighboursRank DEF Ranking
<1>8. A \cap U = {} /\ A \subseteq I /\ U \subseteq I
  <2>1. ASSUME NEW k \in 1..n, QLess(c, v[k]), QLeq(v[k], x) PROVE FALSE
    <3>1. IsQ(v[k])
      BY <1>5
    <3>2. QLeq(v[k], c)
      BY <1>4, <2>1, <3>1, QuotientsInTurn
    <3>3. QED BY <1>4, <2>1, <3>1, <3>2, QuotientOrder
  <2>2. QED BY <1>6, <2>1 DEF AboveOf, UpTo
<1>9. IsFiniteSet(A) /\ IsFiniteSet(U) /\ IsFiniteSet(A \cup U)
  <2>1. IsFiniteSet(I)
    BY <1>5, <1>6
  <2>2. A \cup U \subseteq I
    BY <1>8
  <2>3. QED BY <1>8, <2>1, <2>2, FS_Subset
<1>10. PICK a, u, w \in Nat : a = Cardinality(A) /\ u = Cardinality(U) /\ w = Cardinality(A \cup U)
  BY <1>9, FS_CardinalityType
<1>11. w = a + u
  <2>1. w = a + u - Cardinality(A \cap U)
    BY <1>9, <1>10, FS_Union
  <2>2. Cardinality(A \cap U) = 0
    BY <1>8, FS_EmptySet
  <2>3. QED BY <2>1, <2>2
<1>12. w <= n
  <2>1. A \cup U \subseteq I /\ IsFiniteSet(I)
    BY <1>5, <1>6, <1>8
  <2>2. Cardinality(A \cup U) <= Cardinality(I)
    BY <2>1, FS_Subset
  <2>3. QED BY <1>5, <1>6, <1>10, <2>2
<1>13. a <= n - 1 - lo
  BY <1>3, <1>5, <1>7, <1>10, <1>11, <1>12
<1>14. PICK m \in Nat : m = n - 1
  BY <1>5
<1>15. (100 - p) * m = 100 * m - p * m
  OBVIOUS
<1>16. PICK t \in Int : t = p * m
  OBVIOUS
<1>17. 100 * a < (100 * m - t) + 100
  BY <1>3, <1>13, <1>14, <1>16
<1>18. QED BY <1>6, <1>10, <1>14, <1>15, <1>16, <1>17

(* Some sample reaches it.                                                 *)
LEMMA SomeReach ==
  ASSUME NEW v, NEW n, Samples(v, n), NEW p \in 0..100
  PROVE  \E k \in 1..n : QLeq(Percentile(v, p), v[k])
<1>1. PICK lo, f : Place(v, n, p, lo, f) /\ Between3(v, n, lo, f, Percentile(v, p))
  BY PercentileIs
<1>2. lo \in Nat /\ lo + 1 <= n
  BY <1>1 DEF Place
<1>3. Ranking(v, 1..n, Min({lo + 2, n}), HighOf(v, n, lo))
  BY <1>2, NeighboursRank
<1>4. PICK k \in 1..n : HighOf(v, n, lo) = v[k]
  BY <1>3 DEF Ranking
<1>5. QED BY <1>1, <1>4 DEF Between3

LEMMA TiersHold == WellFormed(history) => TiersAreCalibrated
<1> SUFFICES ASSUME WellFormed(history) PROVE TiersAreCalibrated
  OBVIOUS
<1>1. PICK n \in Nat : n = Len(history) /\ DOMAIN history = 1..n
  BY BucketTimes
<1>2. PICK v, cuts : v = RollingVpin(history, 2) /\ cuts = Cutpoints(v, 75, 90)
  OBVIOUS
<1>3. DOMAIN v = 1..n /\ v = [i \in 1..n |-> v[i]]
  BY <1>1, <1>2 DEF RollingVpin
<1>4. \A i \in 1..n : IsQ(v[i])
  <2>1. 2 \in Nat
    OBVIOUS
  <2>2. \A i \in 1..Len(history) : IsQ(RollingVpin(history, 2)[i])
    BY <2>1, VpinIsQuotient
  <2>3. QED BY <1>1, <1>2, <2>2
<1>5. Len(v) = n
  <2>1. PICK T : T = {v[i] : i \in 1..n}
    OBVIOUS
  <2>2. v \in [1..n -> T]
    BY <1>3, <2>1
  <2>3. v \in Seq(T)
    BY <1>1, <2>2
  <2>4. QED BY <1>3, <2>3
<1>6. AdaptMin \in Nat /\ AdaptMin > 0
  BY RegionStateAssumption
<1>7. CASE n < AdaptMin
  <2>1. cuts = NoReading
    BY <1>2, <1>5, <1>7 DEF Cutpoints
  <2>2. \A k \in DOMAIN v : VpinTier(v[k], cuts) = 0
    BY <2>1 DEF VpinTier
  <2>3. QED BY <1>2, <1>5, <1>7, <2>2 DEF TiersAreCalibrated
<1>8. CASE n >= AdaptMin
  <2>1. n > 0 /\ ~(Len(v) < AdaptMin)
    BY <1>5, <1>6, <1>8
  <2>2. Samples(v, n)
    <3>1. IsFiniteSet(1..n)
      <4>1. 1 \in Int /\ n \in Int
        OBVIOUS
      <4>2. QED BY <4>1, FS_Interval
    <3>2. QED BY <1>3, <1>4, <1>5, <2>1, <3>1 DEF Samples, Quotients
  <2>3. cuts = [warn |-> Percentile(v, 75), toxic |-> Percentile(v, 90)]
    BY <1>2, <2>1 DEF Cutpoints
  <2>4. cuts.warn = Percentile(v, 75) /\ cuts.toxic = Percentile(v, 90)
    BY <2>3
  <2>5. 75 \in 0..100 /\ 90 \in 0..100 /\ 75 <= 90 /\ 100 - 75 = 25 /\ 100 - 90 = 10
    OBVIOUS
  <2>6. cuts # NoReading
    <3>1. Percentile(v, 75) \in [num : Int, den : Int] /\ Percentile(v, 90) \in [num : Int, den : Int]
      BY <2>2, <2>5, PercentileIs
    <3>2. cuts \in [warn : [num : Int, den : Int], toxic : [num : Int, den : Int]]
      BY <2>3, <3>1
    <3>3. QED BY <3>2, RegionStateAssumption
  <2>7. QLeq(cuts.warn, cuts.toxic)
    <3>1. QLeq(Percentile(v, 75), Percentile(v, 90))
      BY <2>2, <2>5, PercentilesInOrder
    <3>2. QED BY <2>4, <3>1
  <2>8. 100 * Cardinality(AboveOf(v, n, cuts.warn)) < (100 - 75) * (n - 1) + 100
    BY <2>2, <2>4, <2>5, FewAbove
  <2>9. 100 * Cardinality(AboveOf(v, n, cuts.toxic)) < (100 - 90) * (n - 1) + 100
    BY <2>2, <2>4, <2>5, FewAbove
  <2>10. \E k \in DOMAIN v : VpinTier(v[k], cuts) = 2
    <3>1. PICK k \in 1..n : QLeq(cuts.toxic, v[k])
      BY <2>2, <2>4, <2>5, SomeReach
    <3>2. VpinTier(v[k], cuts) = 2
      BY <2>6, <3>1 DEF VpinTier
    <3>3. QED BY <1>3, <3>2
  <2>11. \A c : {k \in DOMAIN v : QLess(c, v[k])} = AboveOf(v, n, c)
    BY <1>3 DEF AboveOf
  <2>12. /\ 100 * Cardinality({k \in DOMAIN v : QLess(cuts.warn, v[k])}) < 25 * (Len(v) - 1) + 100
         /\ 100 * Cardinality({k \in DOMAIN v : QLess(cuts.toxic, v[k])}) < 10 * (Len(v) - 1) + 100
    BY <1>5, <2>5, <2>8, <2>9, <2>11
  <2>13. QED BY <1>2, <2>1, <2>7, <2>10, <2>12 DEF TiersAreCalibrated
<1>9. QED
  <2>1. n < AdaptMin \/ n >= AdaptMin
    BY <1>6
  <2>2. QED BY <1>7, <1>8, <2>1

(* The series and thresholds of a selection are those of their per-bucket
   definitions, whatever buckets a scan reads.                             *)
THEOREM SeriesHold == AnalyticsSpec => []SeriesAgree
<1>1. ScanIInv => SeriesAgree
  BY AbsorptionSeriesHold, ShareHolds, SplitsHold, ZonesHold, MirroredFlips, TiersHold
     DEF ScanIInv, SeriesAgree, PrefixSumsAreExact
<1>2. QED BY <1>1, ScansKeepTheirBuckets, PTL
=============================================================================
