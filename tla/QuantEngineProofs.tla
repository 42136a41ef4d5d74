-------------------------- MODULE QuantEngineProofs --------------------------
(***************************************************************************)
(* Theorems about QuantEngine, for every value of its constants.           *)
(***************************************************************************)
EXTENDS QuantEngine, SequenceTheorems, TLAPS

(* What keeping the last n elements keeps.                                 *)
LEMMA LastNProperties ==
  ASSUME NEW S, NEW s \in Seq(S), NEW n \in Nat \ {0}
  PROVE  /\ LastN(s, n) \in Seq(S)
         /\ Len(LastN(s, n)) = Least(Len(s), n)
         /\ \A i \in 1..Least(Len(s), n) :
               LastN(s, n)[i] = s[Len(s) - Least(Len(s), n) + i]
  <1>1. Len(s) \in Nat
    BY LenProperties
  <1>2. CASE Len(s) =< n
    <2>1. LastN(s, n) = s
      BY <1>2 DEF LastN
    <2>2. Least(Len(s), n) = Len(s)
      BY <1>1, <1>2 DEF Least
    <2>3. \A i \in 1..Len(s) : Len(s) - Len(s) + i = i
      BY <1>1
    <2> QED
      BY <2>1, <2>2, <2>3
  <1>3. CASE Len(s) > n
    <2> DEFINE m == Len(s) - n + 1
    <2>1. m \in 1..Len(s) /\ m =< Len(s) + 1
      BY <1>1, <1>3
    <2>2. LastN(s, n) = SubSeq(s, m, Len(s))
      BY <1>1, <1>3 DEF LastN
    <2>3. /\ SubSeq(s, m, Len(s)) \in Seq(S)
          /\ Len(SubSeq(s, m, Len(s))) = n
          /\ \A i \in 1..n : SubSeq(s, m, Len(s))[i] = s[m + i - 1]
      BY <1>1, <1>3, <2>1, SubSeqProperties
    <2>4. Least(Len(s), n) = n
      BY <1>1, <1>3 DEF Least
    <2>5. \A i \in 1..n : m + i - 1 = Len(s) - n + i
      BY <1>1
    <2> QED
      BY <2>2, <2>3, <2>4, <2>5
  <1> QED
    BY <1>1, <1>2, <1>3

(* What appending to a capped list gives: deque(maxlen=n).append, and the  *)
(* append and pop(0) of closed_buckets.                                    *)
LEMMA CappedAppend ==
  ASSUME NEW S, NEW s \in Seq(S), NEW e \in S, NEW n \in Nat \ {0}, Len(s) =< n
  PROVE  /\ LastN(Append(s, e), n) \in Seq(S)
         /\ Len(LastN(Append(s, e), n)) \in 1..n
         /\ Len(LastN(Append(s, e), n)) =< Len(s) + 1
         /\ Len(s) < n => Len(LastN(Append(s, e), n)) = Len(s) + 1
         /\ Len(s) = n => Len(LastN(Append(s, e), n)) = n
         /\ LastN(Append(s, e), n)[Len(LastN(Append(s, e), n))] = e
         /\ \A i \in 1..(Len(LastN(Append(s, e), n)) - 1) :
               LastN(Append(s, e), n)[i] = s[Len(s) + 1 - Len(LastN(Append(s, e), n)) + i]
         /\ \A i \in 1..Len(LastN(Append(s, e), n)) :
               \/ LastN(Append(s, e), n)[i] = e
               \/ \E j \in 1..Len(s) : LastN(Append(s, e), n)[i] = s[j]
  <1> DEFINE a == Append(s, e)
             r == LastN(a, n)
             k == Least(Len(s) + 1, n)
  <1>1. Len(s) \in Nat
    BY LenProperties
  <1>2. /\ a \in Seq(S) /\ Len(a) = Len(s) + 1 /\ a[Len(s) + 1] = e
        /\ \A i \in 1..Len(s) : a[i] = s[i]
    BY <1>1, AppendProperties
  <1> HIDE DEF a
  <1>3. /\ k \in Nat /\ k >= 1 /\ k =< Len(s) + 1 /\ k =< n
        /\ Len(s) < n => k = Len(s) + 1
        /\ Len(s) = n => k = n
    BY <1>1 DEF Least
  <1>4. /\ r \in Seq(S) /\ Len(r) = k
        /\ \A i \in 1..k : r[i] = a[Len(s) + 1 - k + i]
    <2>1. /\ r \in Seq(S) /\ Len(r) = Least(Len(a), n)
          /\ \A i \in 1..Least(Len(a), n) : r[i] = a[Len(a) - Least(Len(a), n) + i]
      BY <1>2, LastNProperties
    <2> QED
      BY <1>2, <2>1
  <1> HIDE DEF r, k
  <1>5. r[k] = e
    BY <1>1, <1>2, <1>3, <1>4
  <1>6. \A i \in 1..(k - 1) : Len(s) + 1 - k + i \in 1..Len(s)
    BY <1>1, <1>3
  <1>7. ASSUME NEW i \in 1..(k - 1)
        PROVE  Len(s) + 1 - k + i \in 1..Len(s) /\ r[i] = s[Len(s) + 1 - k + i]
    <2>1. i \in 1..k
      BY <1>3
    <2>2. r[i] = a[Len(s) + 1 - k + i]
      BY <1>4, <2>1
    <2> QED
      BY <1>2, <1>6, <2>2
  <1>8. ASSUME NEW i \in 1..k
        PROVE  r[i] = e \/ \E j \in 1..Len(s) : r[i] = s[j]
    <2>1. i = k \/ i \in 1..(k - 1)
      BY <1>3
    <2> QED
      BY <1>5, <1>7, <2>1
  <1>9. /\ r \in Seq(S) /\ Len(r) \in 1..n /\ Len(r) =< Len(s) + 1
        /\ Len(s) < n => Len(r) = Len(s) + 1
        /\ Len(s) = n => Len(r) = n
        /\ r[Len(r)] = e
    BY <1>3, <1>4, <1>5
  <1>10. \A i \in 1..(Len(r) - 1) : r[i] = s[Len(s) + 1 - Len(r) + i]
    BY <1>4, <1>7
  <1>11. \A i \in 1..Len(r) : r[i] = e \/ \E j \in 1..Len(s) : r[i] = s[j]
    BY <1>4, <1>8
  <1> QED
    BY <1>9, <1>10, <1>11 DEF r, a

-----------------------------------------------------------------------------
(* A bucket just built has its type and conserves what it does not hold.   *)
LEMMA NewBucketProperties ==
  ASSUME NEW start \in Nat \cup {None}, NEW n \in Nat \ {0}
  PROVE  /\ NewBucket(start, n) \in Bucket
         /\ Conserves(NewBucket(start, n))
         /\ NewBucket(start, n).vol = 0
         /\ NewBucket(start, n).ordinal = n
         /\ NewBucket(start, n).start = start
         /\ NetOi(NewBucket(start, n)) = 0
  BY DenAssumption DEF NewBucket, Bucket, Conserves, VectorSum, NetOi

(* The OI-confirmed part of a trade is a part of the trade.                *)
LEMMA OiMagRange ==
  ASSUME NEW t, t.oi \in Int
  PROVE  OiMag(t) \in 0..Den
  BY DenAssumption DEF OiMag, Least, Abs

(* A chunk splits into its OI-confirmed part and churn.                    *)
LEMMA ChunkSplit ==
  ASSUME NEW c \in Nat, NEW m \in 0..Den
  PROVE  /\ c * m \in Nat /\ c * (Den - m) \in Nat /\ c * Den \in Nat
         /\ c * m + c * (Den - m) = c * Den
  <1>1. m \in Nat /\ Den - m \in Nat /\ Den \in Nat
    BY DenAssumption
  <1>2. \A x, y \in Nat : x * y \in Nat
    BY SMT
  <1>3. \A x \in Nat, y, z \in Int : x * y + x * (z - y) = x * z
    BY SMT
  <1> QED
    BY <1>1, <1>2, <1>3

(* Adding a chunk of a trade to a bucket keeps the conservation law and    *)
(* moves exactly the chunk's volume and signed OI into the bucket.         *)
LEMMA AddProperties ==
  ASSUME NEW b \in Bucket, Conserves(b), NEW t \in Tick, NEW c \in Nat
  PROVE  LET r == AddToBucket(b, t, c) IN
         /\ r \in Bucket /\ Conserves(r)
         /\ r.ordinal = b.ordinal /\ r.start = b.start /\ r.vol = b.vol + c
         /\ NetOi(r) = NetOi(b) + SignedOi(t, c)
  <1> DEFINE r == AddToBucket(b, t, c)
             m == OiMag(t)
             o == c * OiMag(t)
             h == c * (Den - OiMag(t))
  <1>1. t.oi \in Int /\ t.buyer \in BOOLEAN
    BY DEF Tick
  <1>2. m \in 0..Den
    BY <1>1, OiMagRange
  <1>3. o \in Nat /\ h \in Nat /\ o + h = c * Den /\ c * Den \in Nat
    BY <1>2, ChunkSplit
  <1>4. /\ b.vol \in Nat /\ b.buy \in Nat /\ b.sell \in Nat /\ Den \in Nat
        /\ b.opL \in Int /\ b.opS \in Int /\ b.clL \in Int /\ b.clS \in Int
        /\ b.churn \in Int
    BY DenAssumption DEF Bucket
  <1>5. /\ r.ordinal = b.ordinal /\ r.start = b.start /\ r.end = b.end
        /\ r.vol = b.vol + c
        /\ r.buy = (IF t.buyer THEN b.buy + c ELSE b.buy)
        /\ r.sell = (IF t.buyer THEN b.sell ELSE b.sell + c)
        /\ r.opL = (IF t.oi > 0 /\ t.buyer THEN b.opL + o ELSE b.opL)
        /\ r.opS = (IF t.oi > 0 /\ ~t.buyer THEN b.opS + o ELSE b.opS)
        /\ r.clL = (IF t.oi < 0 /\ ~t.buyer THEN b.clL + o ELSE b.clL)
        /\ r.clS = (IF t.oi < 0 /\ t.buyer THEN b.clS + o ELSE b.clS)
        /\ r.churn = b.churn + h
    BY DEF AddToBucket, Bucket
  <1>6. r \in Bucket
    <2>1. /\ r.ordinal \in Nat \ {0} /\ r.start \in Nat \cup {None}
          /\ r.end \in Nat \cup {None} /\ r.vol \in Nat /\ r.buy \in Nat
          /\ r.sell \in Nat /\ r.opL \in Int /\ r.opS \in Int /\ r.clL \in Int
          /\ r.clS \in Int /\ r.churn \in Int
      <3>1. b.ordinal \in Nat \ {0} /\ b.start \in Nat \cup {None}
            /\ b.end \in Nat \cup {None}
        BY DEF Bucket
      <3> HIDE DEF r, o, h
      <3> QED
        BY <1>3, <1>4, <1>5, <3>1
    <2> QED
      BY <2>1 DEF AddToBucket, Bucket
  <1>7. t.oi = 0 => o = 0
    <2>1. ASSUME t.oi = 0 PROVE m = 0
      BY <2>1, DenAssumption DEF OiMag, Least, Abs
    <2> QED
      BY <2>1
  <1>8. /\ b.vol * Den + c * Den = (b.vol + c) * Den
        /\ b.buy * Den + c * Den = (b.buy + c) * Den
        /\ b.sell * Den + c * Den = (b.sell + c) * Den
    <2>1. \A x, y, z \in Nat : x * z + y * z = (x + y) * z
      BY SMT
    <2> QED
      BY <1>4, <2>1
  <1>9. /\ b.vol * Den \in Int /\ b.buy * Den \in Int /\ b.sell * Den \in Int
    BY <1>4
  <1> HIDE DEF r, o, h, m
  <1>10. /\ b.opL + b.opS + b.clL + b.clS + b.churn = b.vol * Den
         /\ b.buy + b.sell = b.vol
         /\ b.opL >= 0 /\ b.opS >= 0 /\ b.clL >= 0 /\ b.clS >= 0 /\ b.churn >= 0
         /\ b.opL + b.clS =< b.buy * Den /\ b.opS + b.clL =< b.sell * Den
    BY DEF Conserves, VectorSum
  <1>11. r.buy + r.sell = r.vol
    BY <1>1, <1>4, <1>5, <1>10
  <1>12. /\ r.opL >= 0 /\ r.opS >= 0 /\ r.clL >= 0 /\ r.clS >= 0 /\ r.churn >= 0
    BY <1>3, <1>4, <1>5, <1>10
  <1> DEFINE cd == c * Den
             vd == b.vol * Den
             bd == b.buy * Den
             sd == b.sell * Den
  <1>13. /\ r.vol * Den = vd + cd
         /\ r.buy * Den = (IF t.buyer THEN bd + cd ELSE bd)
         /\ r.sell * Den = (IF t.buyer THEN sd ELSE sd + cd)
    BY <1>1, <1>5, <1>8
  <1>14. cd \in Nat /\ vd \in Int /\ bd \in Int /\ sd \in Int /\ o + h = cd
         /\ b.opL + b.opS + b.clL + b.clS + b.churn = vd
         /\ b.opL + b.clS =< bd /\ b.opS + b.clL =< sd
    BY <1>3, <1>9, <1>10
  <1> HIDE DEF cd, vd, bd, sd
  <1>15. VectorSum(r) = r.vol * Den
    <2>1. r.opL + r.opS + r.clL + r.clS = b.opL + b.opS + b.clL + b.clS + o
      <3>1. CASE t.oi > 0
        BY <1>1, <1>3, <1>4, <1>5, <3>1
      <3>2. CASE t.oi < 0
        BY <1>1, <1>3, <1>4, <1>5, <3>2
      <3>3. CASE t.oi = 0
        <4>1. o = 0
          BY <1>7, <3>3
        <4>2. ~(t.oi > 0) /\ ~(t.oi < 0)
          BY <3>3
        <4> QED
          BY <1>4, <1>5, <4>1, <4>2
      <3> QED
        BY <1>1, <3>1, <3>2, <3>3
    <2>2. r.opL \in Int /\ r.opS \in Int /\ r.clL \in Int /\ r.clS \in Int
      BY <1>3, <1>4, <1>5
    <2>3. r.churn = b.churn + h /\ r.vol * Den = vd + cd
      BY <1>5, <1>13
    <2>4. r.opL + r.opS + r.clL + r.clS + r.churn = vd + cd
      <3>1. o \in Nat /\ h \in Nat
        BY <1>3
      <3>2. (b.opL + b.opS + b.clL + b.clS + o) + (b.churn + h) = vd + cd
        BY <1>4, <1>14, <3>1
      <3> QED
        BY <2>1, <2>3, <3>2
    <2> QED
      BY <2>3, <2>4 DEF VectorSum
  <1>16. r.opL + r.clS =< r.buy * Den /\ r.opS + r.clL =< r.sell * Den
    BY <1>1, <1>3, <1>4, <1>5, <1>13, <1>14
  <1>17. Conserves(r)
    BY <1>11, <1>12, <1>15, <1>16 DEF Conserves
  <1>18. SignedOi(t, c) = (IF t.oi < 0 THEN -o ELSE o)
    BY DEF SignedOi, o
  <1>19. NetOi(r) = NetOi(b) + SignedOi(t, c)
    <2>1. CASE t.oi > 0
      BY <1>1, <1>3, <1>4, <1>5, <1>18, <2>1 DEF NetOi
    <2>2. CASE t.oi < 0
      BY <1>1, <1>3, <1>4, <1>5, <1>18, <2>2 DEF NetOi
    <2>3. CASE t.oi = 0
      <3>1. o = 0
        BY <1>7, <2>3
      <3>2. ~(t.oi > 0) /\ ~(t.oi < 0)
        BY <2>3
      <3> QED
        BY <1>4, <1>5, <1>18, <3>1, <3>2 DEF NetOi
    <2> QED
      BY <1>1, <2>1, <2>2, <2>3
  <1> QED
    BY <1>5, <1>6, <1>17, <1>19 DEF r
-----------------------------------------------------------------------------
(* A retained bucket stays in order when the history slides.              *)
LEMMA HistorySlides ==
  ASSUME NEW s \in Seq(Bucket), NEW e \in Bucket, Len(s) =< Cap,
         NEW i \in 1..(Len(LastN(Append(s, e), Cap)) - 1)
  PROVE  LastN(Append(s, e), Cap)[i] = s[Len(s) + 1 - Len(LastN(Append(s, e), Cap)) + i]
  <1>1. Cap \in Nat \ {0}
    BY CapAssumption
  <1> QED
    BY <1>1, CappedAppend

(* The state invariant: the parts need each other's types, and the history *)
(* needs the forming bucket's place in it.                                 *)
IInv == TypeOK /\ BucketsConserve /\ SplitLosesNothing /\ HistoryContiguous

(* Closing a bucket appends it to the retained history, whose conservation *)
(* and contiguity it keeps, and opens the next, empty, where it ended.     *)
LEMMA CloseProperties ==
  ASSUME IInv, tick \in Tick, NEW b \in Bucket, Conserves(b),
         b.ordinal = active_bucket.ordinal, b.start = active_bucket.start,
         CloseBucket(b)
  PROVE  /\ closed_buckets' \in Seq(Bucket) /\ Len(closed_buckets') \in 1..Cap
         /\ closed_buckets'[Len(closed_buckets')].vol = b.vol
         /\ total_closed' = total_closed + 1
         /\ vpin_queue' \in Seq(Nat) /\ Len(vpin_queue') =< VpinWindow
         /\ rolling_velocity' \in Seq([vol : Nat, duration : Nat \ {0}])
         /\ Len(rolling_velocity') =< Lookback
         /\ active_bucket' \in Bucket
         /\ active_bucket'.vol = 0 /\ NetOi(active_bucket') = 0
         /\ active_bucket'.ordinal = active_bucket.ordinal + 1
         /\ BucketsConserve' /\ HistoryContiguous'
         /\ retiredVol' = retiredVol + b.vol
         /\ retiredOi' = retiredOi + NetOi(b)
  <1> DEFINE e == [b EXCEPT !.end = tick.time]
             n == Len(closed_buckets)
             r == LastN(Append(closed_buckets, e), Cap)
             k == Len(r)
  <1>1. /\ target_vol \in Nat \ {0} /\ active_bucket \in Bucket
        /\ closed_buckets \in Seq(Bucket) /\ n =< Cap /\ n \in Nat
        /\ total_closed \in Nat
        /\ vpin_queue \in Seq(Nat) /\ Len(vpin_queue) =< VpinWindow
        /\ rolling_velocity \in Seq([vol : Nat, duration : Nat \ {0}])
        /\ Len(rolling_velocity) =< Lookback
    BY LenProperties DEF IInv, TypeOK
  <1>2. Cap \in Nat \ {0} /\ VpinWindow \in Nat \ {0} /\ Lookback \in Nat \ {0}
    BY CapAssumption
  <1>3. tick.time \in Nat /\ b.ordinal \in Nat \ {0} /\ b.start \in Nat \cup {None}
        /\ b.buy \in Nat /\ b.sell \in Nat /\ b.vol \in Nat
    BY DEF Tick, Bucket
  <1>4. /\ e \in Bucket /\ e.end = tick.time /\ e.start = b.start /\ e.vol = b.vol
        /\ e.ordinal = b.ordinal
    BY <1>3 DEF Bucket
  <1>5. Conserves(e)
    BY <1>3 DEF Bucket, Conserves, VectorSum
  <1> HIDE DEF e
  <1>6. /\ r \in Seq(Bucket) /\ k \in 1..Cap /\ k =< n + 1
        /\ n < Cap => k = n + 1
        /\ n = Cap => k = Cap
        /\ r[k] = e
        /\ \A i \in 1..(k - 1) : r[i] = closed_buckets[n + 1 - k + i]
        /\ \A i \in 1..k : r[i] = e \/ \E j \in 1..n : r[i] = closed_buckets[j]
    <2>0. closed_buckets \in Seq(Bucket) /\ e \in Bucket /\ n =< Cap /\ Cap \in Nat \ {0}
      BY <1>1, <1>2, <1>4
    <2>1. /\ r \in Seq(Bucket) /\ k \in 1..Cap /\ k =< n + 1
          /\ n < Cap => k = n + 1
          /\ n = Cap => k = Cap
          /\ r[k] = e
      BY <2>0, CappedAppend
    <2>2. \A i \in 1..(k - 1) : r[i] = closed_buckets[n + 1 - k + i]
      BY <2>0, HistorySlides
    <2>3. \A i \in 1..k : r[i] = e \/ \E j \in 1..n : r[i] = closed_buckets[j]
      BY <2>0, CappedAppend
    <2> QED
      BY <2>1, <2>2, <2>3
  <1>0. k = Len(r)
    OBVIOUS
  <1> HIDE DEF r, k
  <1>7. /\ closed_buckets' = r /\ total_closed' = total_closed + 1
        /\ active_bucket' = NewBucket(tick.time, b.ordinal + 1)
        /\ retiredVol' = retiredVol + b.vol /\ retiredOi' = retiredOi + NetOi(b)
    BY DEF CloseBucket, r, e
  <1>8. Len(r) \in 1..Cap
    BY <1>0, <1>6
  <1>9. vpin_queue' \in Seq(Nat) /\ Len(vpin_queue') =< VpinWindow
    <2>1. Imbalance(b) \in Nat
      BY <1>3 DEF Imbalance, Abs
    <2>2. vpin_queue' = LastN(Append(vpin_queue, Imbalance(b)), VpinWindow)
      BY DEF CloseBucket
    <2>3. Len(vpin_queue) \in Nat
      BY <1>1, LenProperties
    <2>4. vpin_queue' \in Seq(Nat) /\ Len(vpin_queue') \in 1..VpinWindow
      BY <1>1, <1>2, <2>1, <2>2, CappedAppend
    <2> QED
      BY <1>2, <2>4
  <1>10. /\ rolling_velocity' \in Seq([vol : Nat, duration : Nat \ {0}])
         /\ Len(rolling_velocity') =< Lookback
    <2> DEFINE sample == [vol |-> target_vol, duration |-> tick.time - b.start]
    <2>1. CASE b.start # None /\ tick.time > b.start
      <3>1. sample \in [vol : Nat, duration : Nat \ {0}]
        BY <1>1, <1>3, <2>1
      <3> HIDE DEF sample
      <3>2. rolling_velocity' = LastN(Append(rolling_velocity, sample), Lookback)
        BY <2>1 DEF CloseBucket, sample
      <3>3. Len(rolling_velocity) \in Nat
        BY <1>1, LenProperties
      <3>4. /\ rolling_velocity' \in Seq([vol : Nat, duration : Nat \ {0}])
            /\ Len(rolling_velocity') \in 1..Lookback
        BY <1>1, <1>2, <3>1, <3>2, CappedAppend
      <3> QED
        BY <1>2, <3>4
    <2>2. CASE ~(b.start # None /\ tick.time > b.start)
      BY <1>1, <2>2 DEF CloseBucket
    <2> QED
      BY <2>1, <2>2
  <1>11. /\ active_bucket' \in Bucket /\ Conserves(active_bucket')
         /\ active_bucket'.vol = 0 /\ NetOi(active_bucket') = 0
         /\ active_bucket'.ordinal = b.ordinal + 1 /\ active_bucket'.start = tick.time
    <2>1. tick.time \in Nat \cup {None} /\ b.ordinal + 1 \in Nat \ {0}
      BY <1>3
    <2> QED
      BY <1>7, <2>1, NewBucketProperties
  <1>12. BucketsConserve'
    <2>1. \A i \in 1..n : Conserves(closed_buckets[i])
      BY DEF IInv, BucketsConserve
    <2>2. \A i \in 1..k : Conserves(r[i])
      BY <1>5, <1>6, <2>1
    <2>3. Conserves(active_bucket)'
      BY <1>11 DEF Conserves, VectorSum
    <2>4. (\A i \in 1..Len(closed_buckets) : Conserves(closed_buckets[i]))'
      BY <1>0, <1>7, <2>2 DEF Conserves, VectorSum
    <2> QED
      BY <2>3, <2>4 DEF BucketsConserve
  <1>13. HistoryContiguous'
    <2>1. /\ active_bucket.ordinal = total_closed + 1
          /\ n = Least(total_closed, Cap)
          /\ \A i \in 1..n : closed_buckets[i].ordinal = total_closed - n + i
          /\ \A i \in 1..n : closed_buckets[i].end # None
          /\ \A i \in 1..(n - 1) : closed_buckets[i + 1].start = closed_buckets[i].end
          /\ n > 0 => active_bucket.start = closed_buckets[n].end
      BY DEF IInv, HistoryContiguous
    <2>2. k = Least(total_closed + 1, Cap) /\ k \in 1..Cap /\ k =< n + 1
      BY <1>1, <1>2, <1>6, <2>1 DEF Least
    <2>3. \A i \in 1..(k - 1) : n + 1 - k + i \in 1..n
      BY <1>1, <1>2, <2>2
    <2>4. \A i \in 1..k : r[i].ordinal = (total_closed + 1) - k + i
      <3>1. ASSUME NEW i \in 1..(k - 1) PROVE r[i].ordinal = (total_closed + 1) - k + i
        <4>1. r[i] = closed_buckets[n + 1 - k + i] /\ n + 1 - k + i \in 1..n
          BY <1>6, <2>3
        <4>2. r[i].ordinal = total_closed - n + (n + 1 - k + i)
          BY <2>1, <4>1
        <4> QED
          BY <1>1, <1>2, <2>2, <4>2
      <3>2. r[k].ordinal = total_closed + 1
        BY <1>4, <1>6, <2>1
      <3>3. \A i \in 1..k : i \in 1..(k - 1) \/ i = k
        BY <1>2, <2>2
      <3>4. (total_closed + 1) - k + k = total_closed + 1
        BY <1>1, <1>2, <2>2
      <3> QED
        BY <3>1, <3>2, <3>3, <3>4
    <2>5. \A i \in 1..k : r[i].end # None
      BY <1>3, <1>4, <1>6, <2>1, NoneAssumption
    <2>6. \A i \in 1..(k - 1) : r[i + 1].start = r[i].end
      <3> SUFFICES ASSUME NEW i \in 1..(k - 1) PROVE r[i + 1].start = r[i].end
        OBVIOUS
      <3>1. r[i] = closed_buckets[n + 1 - k + i] /\ n + 1 - k + i \in 1..n
        BY <1>6, <2>3
      <3>2. CASE i = k - 1
        <4>1. n + 1 - k + i = n /\ i + 1 = k /\ n > 0
          <5>1. n \in Nat /\ k \in Nat /\ k =< n + 1 /\ i \in 1..(k - 1)
            BY <1>1, <1>2, <2>2
          <5> QED
            BY <3>2, <5>1
        <4>2. r[i + 1] = e /\ r[i] = closed_buckets[n]
          BY <1>6, <3>1, <4>1
        <4> QED
          BY <1>4, <2>1, <4>1, <4>2
      <3>3. CASE i # k - 1
        <4>1. i + 1 \in 1..(k - 1) /\ n + 1 - k + (i + 1) = (n + 1 - k + i) + 1
          BY <1>1, <1>2, <2>2, <3>3
        <4>2. r[i + 1] = closed_buckets[(n + 1 - k + i) + 1]
          BY <1>6, <4>1
        <4>3. n + 1 - k + i \in 1..(n - 1)
          BY <1>1, <1>2, <2>2, <2>3, <4>1
        <4> QED
          BY <2>1, <3>1, <4>2, <4>3
      <3> QED
        BY <3>2, <3>3
    <2>7. active_bucket'.start = r[k].end
      BY <1>4, <1>6, <1>11
    <2>8. active_bucket'.ordinal = (total_closed + 1) + 1
      BY <1>11, <2>1
    <2> QED
      BY <1>0, <1>7, <2>2, <2>4, <2>5, <2>6, <2>7, <2>8 DEF HistoryContiguous, Least
  <1> QED
    BY <1>0, <1>4, <1>6, <1>7, <1>8, <1>9, <1>10, <1>11, <1>12, <1>13
-----------------------------------------------------------------------------
(* The signed OI of a trade is additive over its chunks.                   *)
LEMMA SignedOiAdds ==
  ASSUME NEW t, t.oi \in Int, NEW c \in Nat, NEW d \in Nat
  PROVE  /\ SignedOi(t, c) \in Int
         /\ SignedOi(t, c + d) = SignedOi(t, c) + SignedOi(t, d)
         /\ SignedOi(t, 0) = 0
  <1>1. OiMag(t) \in Nat
    BY OiMagRange, DenAssumption
  <1>2. \A x, y, z \in Nat : (x + y) * z = x * z + y * z /\ x * z \in Nat /\ 0 * z = 0
    BY SMT
  <1>3. /\ (c + d) * OiMag(t) = c * OiMag(t) + d * OiMag(t)
        /\ c * OiMag(t) \in Nat /\ d * OiMag(t) \in Nat /\ 0 * OiMag(t) = 0
    BY <1>1, <1>2
  <1> HIDE DEF OiMag
  <1> QED
    BY <1>3 DEF SignedOi

(* The buckets a close piggyback takes are retained ones.                  *)
LEMMA LastNType ==
  ASSUME NEW S, NEW s \in Seq(S), NEW n \in Nat
  PROVE  LastN(s, n) \in Seq(S)
  <1>1. CASE n = 0
    <2>1. Len(s) \in Nat
      BY LenProperties
    <2>2. CASE Len(s) =< n
      BY <2>2 DEF LastN
    <2>3. CASE ~(Len(s) =< n)
      <3>1. LastN(s, n) = SubSeq(s, Len(s) + 1, Len(s))
        BY <1>1, <2>1, <2>3 DEF LastN
      <3>2. \A i \in (Len(s) + 1)..Len(s) : s[i] \in S
        BY <2>1
      <3> QED
        BY <2>1, <3>1, <3>2, SubSeqProperties
    <2> QED
      BY <2>2, <2>3
  <1>2. CASE n # 0
    BY <1>2, LastNProperties
  <1> QED
    BY <1>1, <1>2

THEOREM InitIInv == Init => IInv
  <1> SUFFICES ASSUME Init PROVE IInv
    OBVIOUS
  <1>1. /\ NewBucket(None, 1) \in Bucket /\ Conserves(NewBucket(None, 1))
        /\ NewBucket(None, 1).vol = 0 /\ NewBucket(None, 1).ordinal = 1
        /\ NetOi(NewBucket(None, 1)) = 0
    <2>1. None \in Nat \cup {None} /\ 1 \in Nat \ {0}
      OBVIOUS
    <2> QED
      BY <2>1, NewBucketProperties
  <1>2. target_vol \in Nat \ {0}
    BY TargetAssumption DEF Init
  <1>3. TypeOK
    <2>1. /\ <<>> \in Seq(Bucket) /\ <<>> \in Seq(Nat)
          /\ <<>> \in Seq([vol : Nat, duration : Nat \ {0}])
      BY EmptySeq
    <2>2. Len(<<>>) = 0
      BY EmptySeq
    <2> QED
      BY <1>1, <1>2, <2>1, <2>2, CapAssumption DEF Init, TypeOK
  <1>4. BucketsConserve
    BY <1>1 DEF Init, BucketsConserve
  <1>5. SplitLosesNothing
    BY <1>1 DEF Init, SplitLosesNothing
  <1>6. HistoryContiguous
    BY <1>1, CapAssumption DEF Init, HistoryContiguous, Least
  <1> QED
    BY <1>3, <1>4, <1>5, <1>6 DEF IInv

(* A call of process_tick takes the trade up, and only dates the bucket.   *)
LEMMA ProcessTickStep ==
  ASSUME IInv, NEW v \in Vols, NEW oi \in OiParts, NEW buyer \in BOOLEAN,
         NEW time \in Times, ProcessTick(v, oi, buyer, time)
  PROVE  IInv'
  <1>1. v \in Nat /\ oi \in Int /\ time \in Nat
    BY VolAssumption, DenAssumption, TimeAssumption
  <1>2. /\ active_bucket \in Bucket /\ closed_buckets \in Seq(Bucket)
        /\ Len(closed_buckets) \in Nat
        /\ traded \in Nat /\ oiCarried \in Int /\ retiredVol \in Nat /\ retiredOi \in Int
    BY LenProperties DEF IInv, TypeOK
  <1> DEFINE t == [left |-> v, oi |-> oi, buyer |-> buyer, time |-> time]
             a == [active_bucket EXCEPT !.start = IF @ = None THEN time ELSE @]
  <1>3. t \in Tick /\ t.left = v /\ t.oi = oi
    BY <1>1 DEF Tick
  <1>4. /\ a \in Bucket /\ a.vol = active_bucket.vol /\ a.ordinal = active_bucket.ordinal
        /\ NetOi(a) = NetOi(active_bucket)
        /\ a.start = IF active_bucket.start = None THEN time ELSE active_bucket.start
        /\ Conserves(active_bucket) => Conserves(a)
    BY <1>1, <1>2 DEF Bucket, NetOi, Conserves, VectorSum
  <1>5. /\ tick = None /\ tick' = t /\ active_bucket' = a /\ last_total' = total_closed
        /\ last_tick_time' = time /\ traded' = traded + v
        /\ UNCHANGED <<target_vol, closed_buckets, total_closed, vpin_queue,
                       rolling_velocity, new_buckets, retiredVol, retiredOi>>
    BY DEF ProcessTick
  <1>6. oiCarried' = oiCarried + SignedOi(t, v) /\ SignedOi(t, v) \in Int
    <2>1. OiMag([oi |-> oi]) = OiMag(t) /\ OiMag(t) \in Nat
      BY <1>1, <1>3, OiMagRange, DenAssumption DEF OiMag
    <2>2. oiCarried' = oiCarried + v * (IF oi < 0 THEN -OiMag(t) ELSE OiMag(t))
      BY <2>1 DEF ProcessTick
    <2>3. \A x, y \in Nat : x * (-y) = -(x * y)
      BY SMT
    <2>4. v * (-OiMag(t)) = -(v * OiMag(t))
      BY <1>1, <2>1, <2>3
    <2>5. SignedOi(t, v) = v * (IF oi < 0 THEN -OiMag(t) ELSE OiMag(t))
      BY <1>3, <2>4 DEF SignedOi
    <2>6. SignedOi(t, v) \in Int
      BY <1>1, <1>3, SignedOiAdds
    <2> QED
      BY <2>2, <2>5, <2>6
  <1> HIDE DEF t, a
  <1>7. TypeOK'
    <2>1. traded' \in Nat /\ oiCarried' \in Int /\ last_total' \in 0..total_closed'
      BY <1>1, <1>2, <1>5, <1>6 DEF IInv, TypeOK
    <2> QED
      BY <1>1, <1>3, <1>4, <1>5, <2>1 DEF IInv, TypeOK
  <1>8. BucketsConserve'
    <2>1. Conserves(a) /\ \A i \in 1..Len(closed_buckets) : Conserves(closed_buckets[i])
      BY <1>4 DEF IInv, BucketsConserve
    <2> QED
      BY <1>5, <2>1 DEF BucketsConserve, Conserves, VectorSum
  <1>9. SplitLosesNothing'
    <2>1. traded = retiredVol + active_bucket.vol /\ oiCarried = retiredOi + NetOi(active_bucket)
      <3>1. active_bucket.vol \in Nat /\ NetOi(active_bucket) \in Int
        BY <1>2 DEF Bucket, NetOi
      <3> QED
        BY <1>2, <1>5, <3>1 DEF IInv, SplitLosesNothing
    <2>2. tick' # None
      BY <1>3, <1>5, NoneAssumption
    <2>3. NetOi(active_bucket') = NetOi(active_bucket) /\ active_bucket'.vol = active_bucket.vol
      BY <1>4, <1>5
    <2>4. tick'.left = v /\ SignedOi(tick', tick'.left) = SignedOi(t, v)
      BY <1>3, <1>5
    <2> QED
      BY <1>5, <1>6, <2>1, <2>2, <2>3, <2>4 DEF SplitLosesNothing, SignedOi, OiMag
  <1>10. HistoryContiguous'
    <2>1. HistoryContiguous
      BY DEF IInv
    <2>2. Len(closed_buckets) > 0 =>
             active_bucket.start # None /\ a.start = active_bucket.start
      BY <1>2, <1>4, <2>1 DEF HistoryContiguous
    <2> QED
      BY <1>4, <1>5, <2>1, <2>2 DEF HistoryContiguous
  <1> QED
    BY <1>7, <1>8, <1>9, <1>10 DEF IInv

(* The part of IInv that says where the volume and the OI of a trade are,  *)
(* while the trade is being split.                                         *)
LEMMA SplitTotals ==
  ASSUME IInv, tick # None
  PROVE  /\ tick \in Tick /\ tick.left \in Nat /\ tick.oi \in Int
         /\ active_bucket \in Bucket /\ active_bucket.vol \in Nat
         /\ NetOi(active_bucket) \in Int /\ Conserves(active_bucket)
         /\ traded = retiredVol + active_bucket.vol + tick.left
         /\ oiCarried = retiredOi + NetOi(active_bucket) + SignedOi(tick, tick.left)
         /\ target_vol \in Nat \ {0}
         /\ retiredVol \in Nat /\ retiredOi \in Int
  <1>1. tick \in Tick /\ active_bucket \in Bucket
    BY DEF IInv, TypeOK
  <1>2. active_bucket.vol \in Nat /\ NetOi(active_bucket) \in Int
    BY <1>1 DEF Bucket, NetOi
  <1>3. tick.left \in Nat /\ tick.oi \in Int
    BY <1>1 DEF Tick
  <1>4. /\ traded = retiredVol + active_bucket.vol + tick.left
        /\ oiCarried = retiredOi + NetOi(active_bucket) + SignedOi(tick, tick.left)
    BY DEF IInv, SplitLosesNothing
  <1> QED
    BY <1>1, <1>2, <1>3, <1>4 DEF IInv, TypeOK, BucketsConserve

(* An iteration that closes bucket b, leaving `left' lots of the trade.    *)
LEMMA CloseStep ==
  ASSUME IInv, tick # None, NEW b \in Bucket, Conserves(b),
         b.ordinal = active_bucket.ordinal, b.start = active_bucket.start,
         CloseBucket(b), NEW left \in Nat, tick' = [tick EXCEPT !.left = left],
         b.vol + left = active_bucket.vol + tick.left,
         NetOi(b) + SignedOi(tick, left) = NetOi(active_bucket) + SignedOi(tick, tick.left),
         UNCHANGED <<target_vol, last_tick_time, last_total, new_buckets, traded, oiCarried>>
  PROVE  IInv'
  <1>1. /\ tick \in Tick /\ target_vol \in Nat \ {0}
        /\ traded = retiredVol + active_bucket.vol + tick.left
        /\ oiCarried = retiredOi + NetOi(active_bucket) + SignedOi(tick, tick.left)
        /\ retiredVol \in Nat /\ retiredOi \in Int
    BY SplitTotals
  <1>2. /\ closed_buckets' \in Seq(Bucket) /\ Len(closed_buckets') \in 1..Cap
        /\ total_closed' = total_closed + 1
        /\ vpin_queue' \in Seq(Nat) /\ Len(vpin_queue') =< VpinWindow
        /\ rolling_velocity' \in Seq([vol : Nat, duration : Nat \ {0}])
        /\ Len(rolling_velocity') =< Lookback
        /\ active_bucket' \in Bucket /\ active_bucket'.vol = 0 /\ NetOi(active_bucket') = 0
        /\ BucketsConserve' /\ HistoryContiguous'
        /\ retiredVol' = retiredVol + b.vol /\ retiredOi' = retiredOi + NetOi(b)
    BY <1>1, CloseProperties
  <1>3. tick' \in Tick /\ tick'.left = left /\ tick'.oi = tick.oi
    BY <1>1 DEF Tick
  <1>4. b.vol \in Nat /\ NetOi(b) \in Int
    BY DEF Bucket, NetOi
  <1>5. tick' # None
    BY <1>3, NoneAssumption
  <1>6. SignedOi(tick, left)' = SignedOi(tick, left)
    BY <1>1, <1>3 DEF SignedOi, OiMag
  <1>7. TypeOK'
    <2>1. total_closed' \in Nat /\ last_total' \in 0..total_closed'
      BY <1>2 DEF IInv, TypeOK
    <2>2. retiredVol' \in Nat /\ retiredOi' \in Int
      BY <1>1, <1>2, <1>4
    <2>3. Len(closed_buckets') =< Cap
      BY <1>2, CapAssumption
    <2> QED
      BY <1>1, <1>2, <1>3, <2>1, <2>2, <2>3 DEF IInv, TypeOK
  <1>8. SplitLosesNothing'
    <2>1. tick.left \in Nat /\ active_bucket.vol \in Nat
          /\ NetOi(active_bucket) \in Int /\ tick.oi \in Int
      BY SplitTotals
    <2>2. SignedOi(tick, left) \in Int /\ SignedOi(tick, tick.left) \in Int
      BY <2>1, SignedOiAdds
    <2>3. traded = (retiredVol + b.vol) + 0 + left
      BY <1>1, <1>4, <2>1
    <2>4. oiCarried = (retiredOi + NetOi(b)) + 0 + SignedOi(tick, left)
      BY <1>1, <1>4, <2>1, <2>2
    <2>5. SignedOi(tick', tick'.left) = SignedOi(tick, left)
      BY <1>3 DEF SignedOi, OiMag
    <2>6. traded' = retiredVol' + active_bucket'.vol + tick'.left
      BY <1>2, <1>3, <2>3
    <2>7. oiCarried' = retiredOi' + NetOi(active_bucket') + SignedOi(tick', tick'.left)
      BY <1>2, <2>4, <2>5
    <2>8. NetOi(active_bucket)' = NetOi(active_bucket')
          /\ SignedOi(tick, tick.left)' = SignedOi(tick', tick'.left)
      BY DEF NetOi, SignedOi, OiMag
    <2> QED
      BY <1>5, <2>6, <2>7, <2>8 DEF SplitLosesNothing
  <1> QED
    BY <1>2, <1>7, <1>8 DEF IInv

(* Every step of the engine keeps the invariant.                           *)
THEOREM NextIInv == IInv /\ [Next]_vars => IInv'
  <1> SUFFICES ASSUME IInv, [Next]_vars PROVE IInv'
    OBVIOUS
  <1>1. ASSUME NEW v \in Vols, NEW oi \in OiParts, NEW buyer \in BOOLEAN,
               NEW time \in Times, ProcessTick(v, oi, buyer, time)
        PROVE  IInv'
    BY <1>1, ProcessTickStep
  <1>2. CASE CloseFull
    <2>1. tick # None
      BY <1>2 DEF CloseFull
    <2>2. /\ tick \in Tick /\ tick.left \in Nat /\ active_bucket \in Bucket
          /\ Conserves(active_bucket)
      BY <2>1, SplitTotals
    <2>3. tick' = [tick EXCEPT !.left = tick.left]
      BY <1>2, <2>2 DEF CloseFull, Tick
    <2>4. CloseBucket(active_bucket)
          /\ UNCHANGED <<target_vol, last_tick_time, last_total, new_buckets,
                         traded, oiCarried>>
      BY <1>2 DEF CloseFull
    <2> QED
      BY <2>1, <2>2, <2>3, <2>4, CloseStep
  <1>3. CASE AddRest
    <2> DEFINE r == AddToBucket(active_bucket, tick, tick.left)
    <2>1. tick # None /\ active_bucket' = r /\ tick' = [tick EXCEPT !.left = 0]
          /\ UNCHANGED <<target_vol, closed_buckets, total_closed, vpin_queue,
                         rolling_velocity, last_tick_time, last_total, new_buckets, history>>
      BY <1>3 DEF AddRest
    <2>2. /\ tick \in Tick /\ tick.left \in Nat /\ tick.oi \in Int
          /\ active_bucket \in Bucket /\ active_bucket.vol \in Nat
          /\ NetOi(active_bucket) \in Int /\ Conserves(active_bucket)
          /\ traded = retiredVol + active_bucket.vol + tick.left
          /\ oiCarried = retiredOi + NetOi(active_bucket) + SignedOi(tick, tick.left)
          /\ retiredVol \in Nat /\ retiredOi \in Int
      BY <2>1, SplitTotals
    <2>3. /\ r \in Bucket /\ Conserves(r) /\ r.ordinal = active_bucket.ordinal
          /\ r.start = active_bucket.start /\ r.vol = active_bucket.vol + tick.left
          /\ NetOi(r) = NetOi(active_bucket) + SignedOi(tick, tick.left)
      BY <2>2, AddProperties
    <2> HIDE DEF r
    <2>4. tick' \in Tick /\ tick'.left = 0 /\ tick'.oi = tick.oi /\ tick' # None
      BY <2>1, <2>2, NoneAssumption DEF Tick
    <2>5. TypeOK'
      BY <2>1, <2>3, <2>4 DEF IInv, TypeOK, history
    <2>6. BucketsConserve'
      BY <2>1, <2>3 DEF IInv, BucketsConserve, Conserves, VectorSum
    <2>7. SplitLosesNothing'
      <3>1. SignedOi(tick', tick'.left) = 0
        BY <2>2, <2>4, SignedOiAdds
      <3>2. SignedOi(tick, tick.left) \in Int
        BY <2>2, SignedOiAdds
      <3>3. traded' = retiredVol' + active_bucket'.vol + tick'.left
        BY <2>1, <2>2, <2>3, <2>4 DEF history
      <3>4. oiCarried' = retiredOi' + NetOi(active_bucket') + SignedOi(tick', tick'.left)
        BY <2>1, <2>2, <2>3, <3>1, <3>2 DEF history
      <3>5. NetOi(active_bucket)' = NetOi(active_bucket')
            /\ SignedOi(tick, tick.left)' = SignedOi(tick', tick'.left)
        BY DEF NetOi, SignedOi, OiMag
      <3> QED
        BY <2>4, <3>3, <3>4, <3>5 DEF SplitLosesNothing
    <2>8. HistoryContiguous'
      BY <2>1, <2>3 DEF IInv, HistoryContiguous
    <2> QED
      BY <2>5, <2>6, <2>7, <2>8 DEF IInv
  <1>4. CASE FillAndClose
    <2> DEFINE r == AddToBucket(active_bucket, tick, SpaceLeft)
               left == tick.left - SpaceLeft
    <2>1. /\ tick # None /\ SpaceLeft > 0 /\ tick.left > SpaceLeft /\ CloseBucket(r)
          /\ tick' = [tick EXCEPT !.left = left]
          /\ UNCHANGED <<target_vol, last_tick_time, last_total, new_buckets,
                         traded, oiCarried>>
      BY <1>4 DEF FillAndClose
    <2>2. /\ tick \in Tick /\ tick.left \in Nat /\ tick.oi \in Int
          /\ active_bucket \in Bucket /\ active_bucket.vol \in Nat
          /\ NetOi(active_bucket) \in Int /\ Conserves(active_bucket)
          /\ target_vol \in Nat \ {0}
      BY <2>1, SplitTotals
    <2>3. SpaceLeft \in Nat /\ left \in Nat
      BY <2>1, <2>2 DEF SpaceLeft
    <2>4. /\ r \in Bucket /\ Conserves(r) /\ r.ordinal = active_bucket.ordinal
          /\ r.start = active_bucket.start /\ r.vol = active_bucket.vol + SpaceLeft
          /\ NetOi(r) = NetOi(active_bucket) + SignedOi(tick, SpaceLeft)
      BY <2>2, <2>3, AddProperties
    <2>5. r.vol + left = active_bucket.vol + tick.left
      BY <2>2, <2>3, <2>4
    <2>6. NetOi(r) + SignedOi(tick, left) = NetOi(active_bucket) + SignedOi(tick, tick.left)
      <3>1. SpaceLeft + left = tick.left
        BY <2>2, <2>3
      <3>2. /\ SignedOi(tick, SpaceLeft) \in Int /\ SignedOi(tick, left) \in Int
            /\ SignedOi(tick, SpaceLeft + left)
                  = SignedOi(tick, SpaceLeft) + SignedOi(tick, left)
        BY <2>2, <2>3, SignedOiAdds
      <3> HIDE DEF r, left
      <3> QED
        BY <2>2, <2>4, <3>1, <3>2
    <2> HIDE DEF r, left
    <2> QED
      BY <2>1, <2>3, <2>4, <2>5, <2>6, CloseStep
  <1>5. CASE ShipClosed
    <2>1. /\ tick # None /\ tick.left = 0 /\ tick' = None /\ new_buckets' = ClosedByTick
          /\ UNCHANGED <<engine, last_total, history>>
      BY <1>5 DEF ShipClosed
    <2>2. /\ tick.oi \in Int /\ active_bucket.vol \in Nat /\ NetOi(active_bucket) \in Int
          /\ traded = retiredVol + active_bucket.vol + tick.left
          /\ oiCarried = retiredOi + NetOi(active_bucket) + SignedOi(tick, tick.left)
          /\ retiredVol \in Nat /\ retiredOi \in Int
      BY <2>1, SplitTotals
    <2>3. SignedOi(tick, tick.left) = 0
      BY <2>1, <2>2, SignedOiAdds
    <2>4. new_buckets' \in Seq(Bucket)
      <3>1. closed_buckets \in Seq(Bucket) /\ total_closed - last_total \in Nat
        BY DEF IInv, TypeOK
      <3> QED
        BY <2>1, <3>1, LastNType DEF ClosedByTick
    <2>5. TypeOK'
      BY <2>1, <2>4 DEF IInv, TypeOK, engine, history
    <2>6. BucketsConserve' /\ HistoryContiguous'
      BY <2>1 DEF IInv, BucketsConserve, HistoryContiguous, Conserves, VectorSum, engine
    <2>7. SplitLosesNothing'
      <3>1. NetOi(active_bucket)' = NetOi(active_bucket)
        BY <2>1 DEF NetOi, engine
      <3>2. traded' = retiredVol' + active_bucket'.vol + 0
            /\ oiCarried' = retiredOi' + NetOi(active_bucket)' + 0
        BY <2>1, <2>2, <2>3, <3>1 DEF engine, history
      <3> QED
        BY <2>1, <3>2 DEF SplitLosesNothing
    <2> QED
      BY <2>5, <2>6, <2>7 DEF IInv
  <1>6. ASSUME NEW t \in Targets, Resize(t) PROVE IInv'
    <2>1. target_vol' \in Nat \ {0}
      BY <1>6, TargetAssumption DEF Resize
    <2>2. TypeOK'
      BY <1>6, <2>1 DEF Resize, IInv, TypeOK, history
    <2>3. BucketsConserve' /\ HistoryContiguous'
      BY <1>6 DEF Resize, IInv, BucketsConserve, HistoryContiguous, Conserves, VectorSum, history
    <2>4. SplitLosesNothing'
      BY <1>6 DEF Resize, IInv, SplitLosesNothing, NetOi, history
    <2> QED
      BY <2>2, <2>3, <2>4 DEF IInv
  <1>7. CASE UNCHANGED vars
    <2>1. TypeOK'
      BY <1>7 DEF vars, engine, history, IInv, TypeOK
    <2>2. BucketsConserve' /\ HistoryContiguous'
      BY <1>7 DEF vars, engine, IInv, BucketsConserve, HistoryContiguous, Conserves, VectorSum
    <2>3. SplitLosesNothing'
      BY <1>7 DEF vars, engine, history, IInv, SplitLosesNothing, NetOi, SignedOi, OiMag
    <2> QED
      BY <2>1, <2>2, <2>3 DEF IInv
  <1> QED
    BY <1>1, <1>2, <1>3, <1>4, <1>5, <1>6, <1>7 DEF Next

THEOREM Invariance == Spec => []IInv
  BY InitIInv, NextIInv, PTL DEF Spec

(* The engine's state is always of its type: target_vol stays positive and *)
(* the capped lists stay within their caps.                                *)
THEOREM TypeCorrect == Spec => []TypeOK
  <1>1. IInv => TypeOK
    BY DEF IInv
  <1> QED
    BY <1>1, Invariance, PTL

(* The conservation law and the non-negativity of every bucket, through    *)
(* any splits, over-full closes and resizes.                               *)
THEOREM ConservationHolds == Spec => []BucketsConserve
  <1>1. IInv => BucketsConserve
    BY DEF IInv
  <1> QED
    BY <1>1, Invariance, PTL

(* Volume and OI are neither lost nor invented by the splitting loop.      *)
THEOREM SplitHolds == Spec => []SplitLosesNothing
  <1>1. IInv => SplitLosesNothing
    BY DEF IInv
  <1> QED
    BY <1>1, Invariance, PTL

(* The retained history is a hole-free end of the sequence of all buckets. *)
THEOREM HistoryHolds == Spec => []HistoryContiguous
  <1>1. IInv => HistoryContiguous
    BY DEF IInv
  <1> QED
    BY <1>1, Invariance, PTL

(* Splitting a trade loses nothing, keeps every bucket consistent and the  *)
(* history contiguous (process_tick): the four facts above at once.        *)
THEOREM SplittingHolds == Spec => []SplittingConserves
  <1>1. IInv => SplittingConserves
    BY DEF IInv, SplittingConserves
  <1> QED
    BY <1>1, Invariance, PTL

(* No iteration overfills a bucket, and none closes one that is not full.  *)
THEOREM FillHolds == Spec => FillsToTarget
  <1>1. ASSUME IInv, [Next]_vars PROVE [FillStep]_vars
    <2>1. ASSUME NEW b \in Bucket, Conserves(b), tick # None,
                 b.ordinal = active_bucket.ordinal, b.start = active_bucket.start,
                 CloseBucket(b), b.vol >= target_vol
          PROVE  FillStep
      <3>1. tick \in Tick /\ active_bucket.ordinal \in Nat
        BY <1>1, <2>1, SplitTotals DEF Bucket
      <3>2. /\ closed_buckets'[Len(closed_buckets')].vol = b.vol
            /\ active_bucket'.ordinal = active_bucket.ordinal + 1
        BY <1>1, <2>1, <3>1, CloseProperties
      <3> QED
        BY <2>1, <3>1, <3>2 DEF FillStep
    <2>2. CASE CloseFull
      <3>1. tick # None /\ SpaceLeft =< 0 /\ CloseBucket(active_bucket)
        BY <2>2 DEF CloseFull
      <3>2. /\ active_bucket \in Bucket /\ Conserves(active_bucket)
            /\ active_bucket.vol \in Nat /\ target_vol \in Nat
        BY <1>1, <3>1, SplitTotals
      <3> QED
        BY <2>1, <3>1, <3>2 DEF SpaceLeft
    <2>3. CASE AddRest
      <3>1. tick # None /\ Fits /\ total_closed' = total_closed
            /\ active_bucket' = AddToBucket(active_bucket, tick, tick.left)
        BY <2>3 DEF AddRest
      <3>2. /\ tick \in Tick /\ tick.left \in Nat /\ active_bucket \in Bucket
            /\ active_bucket.vol \in Nat /\ Conserves(active_bucket)
            /\ target_vol \in Nat
        BY <1>1, <3>1, SplitTotals
      <3>3. active_bucket'.vol = active_bucket.vol + tick.left
        BY <3>1, <3>2, AddProperties
      <3>4. active_bucket'.vol \in 0..target_vol
        BY <3>1, <3>2, <3>3 DEF Fits, SpaceLeft
      <3> QED
        BY <3>1, <3>4 DEF FillStep
    <2>4. CASE FillAndClose
      <3> DEFINE r == AddToBucket(active_bucket, tick, SpaceLeft)
      <3>1. tick # None /\ SpaceLeft > 0 /\ CloseBucket(r)
        BY <2>4 DEF FillAndClose
      <3>2. /\ tick \in Tick /\ active_bucket \in Bucket
            /\ active_bucket.vol \in Nat /\ Conserves(active_bucket)
            /\ target_vol \in Nat
        BY <1>1, <3>1, SplitTotals
      <3>3. SpaceLeft \in Nat
        BY <3>1, <3>2 DEF SpaceLeft
      <3>4. /\ r \in Bucket /\ Conserves(r) /\ r.ordinal = active_bucket.ordinal
            /\ r.start = active_bucket.start /\ r.vol = active_bucket.vol + SpaceLeft
        BY <3>2, <3>3, AddProperties
      <3>5. r.vol >= target_vol
        BY <3>2, <3>4 DEF SpaceLeft
      <3> QED
        BY <2>1, <3>1, <3>4, <3>5
    <2>5. CASE \/ \E v \in Vols, oi \in OiParts, buyer \in BOOLEAN, time \in Times :
                     ProcessTick(v, oi, buyer, time)
               \/ ShipClosed \/ \E t \in Targets : Resize(t)
      <3>1. active_bucket.vol \in Nat /\ active_bucket \in Bucket
        BY <1>1 DEF IInv, TypeOK, Bucket
      <3>2. total_closed' = total_closed /\ active_bucket'.vol = active_bucket.vol
        BY <2>5, <3>1 DEF ProcessTick, ShipClosed, Resize, engine, Bucket
      <3> QED
        BY <3>2 DEF FillStep
    <2> QED
      BY <1>1, <2>2, <2>3, <2>4, <2>5 DEF Next
  <1> QED
    BY <1>1, Invariance, PTL DEF Spec, FillsToTarget
-----------------------------------------------------------------------------
(* What the close piggyback ships.  It takes the closed buckets from the   *)
(* end of the retained history, so it is complete only while a trade       *)
(* closes no more buckets than the history retains.                        *)

(* No trade is larger than the retained history at the smallest target.    *)
TradesFit == \A v \in Vols, t \in Targets : v =< Cap * t

(* The buckets that the trade in hand has closed.                          *)
Shipped == total_closed - last_total

(* Only the first close of a trade can find a bucket of another trade; of  *)
(* the others each has taken a whole target from it.                       *)
ShipIInv ==
    /\ target_vol \in Targets
    /\ tick # None =>
          /\ Shipped =< Cap
          /\ Shipped = 0 => tick.left =< Cap * target_vol
          /\ Shipped > 0 /\ tick.left > 0 =>
                /\ active_bucket.vol = 0
                /\ (Shipped - 1) * target_vol + tick.left =< Cap * target_vol

LEMMA ShipInit == ASSUME Init PROVE ShipIInv
  BY DEF Init, ShipIInv

(* One more close of a trade that has taken a target from it leaves room.  *)
LEMMA RoomForOneMore ==
  ASSUME NEW n \in Nat, NEW t \in Nat \ {0}, NEW left \in Nat \ {0},
         n * t + left =< Cap * t
  PROVE  n + 1 =< Cap
  <1>1. Cap \in Nat
    BY CapAssumption
  <1>2. n < Cap
    <2>1. SUFFICES ASSUME Cap =< n PROVE FALSE
      BY <1>1
    <2>2. PICK d \in Nat : n = Cap + d
      <3>1. n - Cap \in Nat /\ n = Cap + (n - Cap)
        BY <1>1, <2>1
      <3> QED
        BY <3>1
    <2>3. n * t = Cap * t + d * t /\ d * t \in Nat /\ Cap * t \in Nat
      BY <1>1, <2>2
    <2> QED
      BY <2>3
  <1> QED
    BY <1>1, <1>2

(* A close, from a bucket that fills up with the trade or was full before. *)
LEMMA ShipClose ==
  ASSUME IInv, ShipIInv, tick # None, tick.left > 0, NEW b \in Bucket, Conserves(b),
         b.ordinal = active_bucket.ordinal, b.start = active_bucket.start, CloseBucket(b),
         NEW left \in Nat, left > 0, tick' = [tick EXCEPT !.left = left],
         left =< tick.left, active_bucket.vol = 0 => left + target_vol =< tick.left,
         UNCHANGED <<target_vol, last_total>>
  PROVE  ShipIInv'
  <1>1. /\ tick \in Tick /\ tick.left \in Nat /\ target_vol \in Nat \ {0} /\ Cap \in Nat \ {0}
        /\ total_closed \in Nat /\ last_total \in 0..total_closed
        /\ active_bucket.ordinal \in Nat
    BY CapAssumption, SplitTotals DEF IInv, TypeOK, Bucket, Tick
  <1>2. total_closed' = total_closed + 1
    BY <1>1, CloseProperties
  <1>3. active_bucket'.vol = 0
    BY DEF CloseBucket, NewBucket
  <1>4. tick' # None /\ tick'.left = left
    <2>1. tick' \in Tick
      BY <1>1 DEF Tick
    <2> QED
      BY <1>1, <2>1, NoneAssumption DEF Tick
  <1>5. Shipped \in Nat /\ Shipped' = Shipped + 1
    BY <1>1, <1>2 DEF Shipped
  <1> DEFINE n == Shipped
             t == target_vol
  <1>6. (Shipped' - 1) * t = n * t /\ n * t \in Nat /\ Cap * t \in Nat /\ 0 * t = 0
    BY <1>1, <1>5
  <1>7. n * t + left =< Cap * t
    <2>1. CASE n = 0
      <3>1. tick.left =< Cap * t
        BY <2>1 DEF ShipIInv
      <3>2. n * t = 0
        BY <1>6, <2>1
      <3> HIDE DEF n, t
      <3> QED
        BY <1>1, <1>6, <3>1, <3>2
    <2>2. CASE n > 0
      <3>1. active_bucket.vol = 0 /\ (n - 1) * t + tick.left =< Cap * t
        BY <2>2 DEF ShipIInv
      <3>2. n * t = (n - 1) * t + t /\ (n - 1) * t \in Nat
        BY <1>1, <1>5, <2>2
      <3>3. left + t =< tick.left
        BY <3>1
      <3>4. \A a, p, c, x, y, z \in Nat :
               a = p + z /\ p + x =< c /\ y + z =< x => a + y =< c
        OBVIOUS
      <3> DEFINE a == n * t
                 p == (n - 1) * t
                 c == Cap * t
      <3>5. a \in Nat /\ p \in Nat /\ c \in Nat /\ a = p + t /\ p + tick.left =< c
        BY <1>6, <3>1, <3>2
      <3> HIDE DEF a, p, c
      <3>6. t \in Nat /\ tick.left \in Nat
        BY <1>1
      <3>7. a + left =< c
        BY <3>3, <3>4, <3>5, <3>6
      <3> QED
        BY <3>7 DEF a, c
    <2> QED
      BY <1>5, <2>1, <2>2
  <1>8. n + 1 =< Cap
    BY <1>1, <1>5, <1>7, RoomForOneMore
  <1>9. target_vol' \in Targets
    BY DEF ShipIInv
  <1>10. Shipped' =< Cap /\ Shipped' # 0
    BY <1>5, <1>8
  <1>11. (Shipped' - 1) * target_vol' + tick'.left =< Cap * target_vol'
    BY <1>4, <1>6, <1>7
  <1> QED
    BY <1>3, <1>9, <1>10, <1>11 DEF ShipIInv

LEMMA ShipNext ==
  ASSUME TradesFit, IInv, ShipIInv, [Next]_vars
  PROVE  ShipIInv'
  <1>1. ASSUME NEW v \in Vols, NEW oi \in OiParts, NEW buyer \in BOOLEAN,
               NEW time \in Times, ProcessTick(v, oi, buyer, time)
        PROVE  ShipIInv'
    <2>1. target_vol' = target_vol /\ target_vol \in Targets /\ total_closed' = last_total'
          /\ tick' = [left |-> v, oi |-> oi, buyer |-> buyer, time |-> time]
      BY <1>1 DEF ProcessTick, ShipIInv
    <2>2. total_closed' \in Nat
      BY <1>1 DEF ProcessTick, IInv, TypeOK
    <2>3. Shipped' = 0
      <3>1. Shipped' = total_closed' - total_closed'
        BY <2>1 DEF Shipped
      <3>2. \A x \in Nat : x - x = 0
        OBVIOUS
      <3> QED
        BY <2>2, <3>1, <3>2, Zenon
    <2>4. tick'.left =< Cap * target_vol'
      BY <2>1 DEF TradesFit
    <2> QED
      BY <2>1, <2>3, <2>4, CapAssumption DEF ShipIInv
  <1>2. CASE CloseFull
    <2>1. /\ tick # None /\ tick.left > 0 /\ SpaceLeft =< 0 /\ CloseBucket(active_bucket)
          /\ tick' = tick /\ UNCHANGED <<target_vol, last_total>>
      BY <1>2 DEF CloseFull
    <2>2. /\ tick \in Tick /\ active_bucket \in Bucket /\ Conserves(active_bucket)
          /\ active_bucket.vol \in Nat /\ target_vol \in Nat \ {0}
      BY <2>1, SplitTotals DEF IInv, TypeOK
    <2>3. tick' = [tick EXCEPT !.left = tick.left] /\ tick.left \in Nat
      BY <2>1, <2>2 DEF Tick
    <2>4. active_bucket.vol # 0
      BY <2>1, <2>2 DEF SpaceLeft
    <2>5. tick.left =< tick.left /\ tick.left \in Nat
      BY <2>3
    <2> DEFINE left == tick.left
    <2>6. /\ left \in Nat /\ left > 0 /\ left =< tick.left /\ tick' = [tick EXCEPT !.left = left]
          /\ active_bucket.vol = 0 => left + target_vol =< tick.left
      BY <2>1, <2>3, <2>4, <2>5
    <2> HIDE DEF left
    <2> QED
      BY <2>1, <2>2, <2>6, ShipClose
  <1>3. CASE AddRest
    <2>1. tick # None /\ tick' = [tick EXCEPT !.left = 0]
          /\ UNCHANGED <<target_vol, last_total, total_closed>>
      BY <1>3 DEF AddRest
    <2>2. tick \in Tick /\ target_vol \in Nat /\ total_closed \in Nat
          /\ last_total \in Nat /\ Cap \in Nat
      BY <2>1, SplitTotals, CapAssumption DEF IInv, TypeOK
    <2>3. tick'.left = 0 /\ Shipped' = Shipped /\ Cap * target_vol \in Nat
      BY <2>1, <2>2 DEF Tick, Shipped
    <2> QED
      BY <2>1, <2>2, <2>3 DEF ShipIInv
  <1>4. CASE FillAndClose
    <2> DEFINE r == AddToBucket(active_bucket, tick, SpaceLeft)
    <2>1. /\ tick # None /\ SpaceLeft > 0 /\ tick.left > SpaceLeft /\ CloseBucket(r)
          /\ tick' = [tick EXCEPT !.left = @ - SpaceLeft]
          /\ UNCHANGED <<target_vol, last_total>>
      BY <1>4 DEF FillAndClose
    <2>2. /\ tick \in Tick /\ active_bucket \in Bucket /\ Conserves(active_bucket)
          /\ active_bucket.vol \in Nat /\ target_vol \in Nat \ {0} /\ tick.left \in Nat
      BY <2>1, SplitTotals DEF IInv, TypeOK
    <2>3. SpaceLeft \in Nat /\ (active_bucket.vol = 0 => SpaceLeft = target_vol)
      BY <2>1, <2>2 DEF SpaceLeft
    <2>4. /\ r \in Bucket /\ Conserves(r) /\ r.ordinal = active_bucket.ordinal
          /\ r.start = active_bucket.start
      BY <2>2, <2>3, AddProperties
    <2> HIDE DEF r
    <2>5. /\ tick.left - SpaceLeft \in Nat /\ tick.left - SpaceLeft > 0 /\ tick.left > 0
          /\ tick.left - SpaceLeft =< tick.left
          /\ active_bucket.vol = 0 => (tick.left - SpaceLeft) + target_vol =< tick.left
      BY <2>1, <2>2, <2>3
    <2>6. tick' = [tick EXCEPT !.left = tick.left - SpaceLeft]
      BY <2>1
    <2> QED
      BY <2>1, <2>2, <2>4, <2>5, <2>6, ShipClose
  <1>5. CASE ShipClosed
    BY <1>5 DEF ShipClosed, engine, ShipIInv
  <1>6. ASSUME NEW t \in Targets, Resize(t) PROVE ShipIInv'
    BY <1>6 DEF Resize, ShipIInv
  <1>7. CASE UNCHANGED vars
    BY <1>7 DEF vars, engine, ShipIInv, Shipped
  <1> QED
    BY <1>1, <1>2, <1>3, <1>4, <1>5, <1>6, <1>7 DEF Next

(* The close piggyback carries the buckets its trade closed, all of them   *)
(* and no other (_process_aggtrade counts by total_closed, so the capped   *)
(* list does not deceive it), for trades that fit into the history.        *)
THEOREM ShipHolds == ASSUME TradesFit PROVE Spec => ShipsWhatClosed
  <1>1. ASSUME IInv, ShipIInv, [Next]_vars PROVE [ShipStep]_vars
    <2>1. SUFFICES ASSUME ShipClosed, tick # None, tick' = None PROVE ShipStep
      <3>1. ASSUME tick # None, tick' = None, ~(UNCHANGED vars) PROVE ShipClosed
        <4>1. tick \in Tick
          BY <3>1, <1>1, SplitTotals
        <4>2. \A left \in Nat : [tick EXCEPT !.left = left] # None
          BY <4>1, NoneAssumption DEF Tick
        <4>3. ~AddRest
          BY <3>1, <4>2 DEF AddRest
        <4>4. ~FillAndClose
          <5>1. SUFFICES ASSUME FillAndClose PROVE tick.left - SpaceLeft \in Nat
            BY <3>1, <4>2 DEF FillAndClose
          <5> QED
            BY <1>1, <3>1, <4>1, <5>1, SplitTotals DEF FillAndClose, SpaceLeft
        <4> QED
          BY <1>1, <3>1, <4>3, <4>4 DEF Next, ProcessTick, CloseFull, Resize
      <3> QED
        BY <3>1 DEF ShipStep
    <2>2. new_buckets' = LastN(closed_buckets, Shipped) /\ UNCHANGED <<last_total, total_closed>>
      BY <2>1 DEF ShipClosed, ClosedByTick, Shipped, engine
    <2>3. /\ closed_buckets \in Seq(Bucket) /\ total_closed \in Nat /\ last_total \in 0..total_closed
          /\ Cap \in Nat \ {0} /\ Shipped \in Nat /\ Shipped =< Cap
      BY <1>1, <2>1, CapAssumption DEF IInv, TypeOK, ShipIInv, Shipped
    <2> DEFINE n == Len(closed_buckets)
    <2>4. /\ n = Least(total_closed, Cap) /\ n \in Nat
          /\ \A i \in 1..n : closed_buckets[i].ordinal = total_closed - n + i
      BY <1>1, <2>3 DEF IInv, HistoryContiguous
    <2>5. Shipped =< n /\ Shipped + last_total = total_closed
      BY <2>3, <2>4 DEF Least, Shipped
    <2>6. CASE Shipped = 0
      <3>1. LastN(closed_buckets, 0) = <<>>
        <4>1. CASE n = 0
          BY <2>3, <4>1 DEF LastN
        <4>2. CASE n # 0
          BY <2>3, <2>4, <4>2 DEF LastN
        <4> QED
          BY <4>1, <4>2
      <3>2. (last_total + 1)..total_closed = {}
        BY <2>3, <2>5, <2>6
      <3> QED
        BY <2>2, <2>6, <3>1, <3>2 DEF ShipStep
    <2>7. CASE Shipped # 0
      <3> DEFINE s == LastN(closed_buckets, Shipped)
      <3>1. Least(n, Shipped) = Shipped
        BY <2>3, <2>4, <2>5 DEF Least
      <3>2. Len(s) = Shipped /\ \A i \in 1..Shipped : s[i] = closed_buckets[n - Shipped + i]
        <4>1. PICK k \in Nat \ {0} : k = Shipped
          BY <2>3, <2>7
        <4>2. PICK c \in Seq(Bucket) : c = closed_buckets
          BY <2>3
        <4>3. /\ Len(LastN(c, k)) = Least(Len(c), k)
              /\ \A i \in 1..Least(Len(c), k) : LastN(c, k)[i] = c[Len(c) - Least(Len(c), k) + i]
          BY LastNProperties
        <4>4. Least(Len(c), k) = k /\ Len(c) = n /\ LastN(c, k) = s
          BY <3>1, <4>1, <4>2
        <4> HIDE DEF s, n
        <4> QED
          BY <4>1, <4>2, <4>3, <4>4
      <3> HIDE DEF s, n
      <3>3. \A i \in 1..Shipped : s[i].ordinal = last_total + i
        <4> SUFFICES ASSUME NEW i \in 1..Shipped PROVE s[i].ordinal = last_total + i
          OBVIOUS
        <4>1. n - Shipped + i \in 1..n
          BY <2>3, <2>4, <2>5
        <4>2. s[i].ordinal = total_closed - n + (n - Shipped + i)
          BY <2>4, <3>2, <4>1
        <4>3. \A x, y, z, w, j \in Int : z + w = x => x - y + (y - z + j) = w + j
          OBVIOUS
        <4>4. Shipped \in Int /\ last_total \in Int /\ total_closed \in Int /\ n \in Int
          BY <2>3, <2>4
        <4> HIDE DEF Shipped
        <4> QED
          BY <2>5, <4>2, <4>3, <4>4
      <3>4. \A k \in (last_total + 1)..total_closed :
               k - last_total \in 1..Shipped /\ last_total + (k - last_total) = k
        BY <2>3, <2>5
      <3>5. \A i \in 1..Shipped : last_total + i \in (last_total + 1)..total_closed
        BY <2>3, <2>5
      <3>6. {s[i].ordinal : i \in 1..Shipped} = (last_total + 1)..total_closed
        BY <3>3, <3>4, <3>5
      <3>7. new_buckets' = s
        BY <2>2 DEF s
      <3> QED
        BY <2>2, <3>2, <3>6, <3>7 DEF ShipStep
    <2> QED
      BY <2>6, <2>7
  <1>2. Init => ShipIInv
    BY ShipInit
  <1>3. IInv /\ ShipIInv /\ [Next]_vars => ShipIInv'
    BY ShipNext
  <1> QED
    BY <1>1, <1>2, <1>3, Invariance, PTL DEF Spec, ShipsWhatClosed
=============================================================================
