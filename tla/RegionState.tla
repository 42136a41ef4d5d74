----------------------------- MODULE RegionState -----------------------------
(***************************************************************************)
(* What Mode 10 reads out of a selection lo..hi of the buckets             *)
(* (region_state.py, vpin_adaptive.py): the synthetic bucket, absorption   *)
(* and effective aggression with their zones, the balance flip, the        *)
(* rolling share and the adaptive VPIN tiers.  A quotient is a pair        *)
(* [num, den] with a positive den, compared across.                        *)
(***************************************************************************)
EXTENDS StateEngine

CONSTANTS
    ExhWindow,      \* EXH_WINDOW
    MinRemainder,   \* config.FLIP_MIN_REMAINDER
    SustainMin,     \* config.FLIP_SUSTAIN_MIN, in hundredths
    AdaptMin,       \* config.VPIN_ADAPT_MIN
    NoReading

ASSUME RegionStateAssumption ==
    /\ {ExhWindow, MinRemainder, AdaptMin} \subseteq Nat \ {0} /\ SustainMin \in 0..100
    /\ NoReading \notin [warn : [num : Int, den : Int], toxic : [num : Int, den : Int]]

Q(num, den) == [num |-> num, den |-> den]
Gcd[x \in Nat \X Nat] == IF x[2] = 0 THEN x[1] ELSE Gcd[<<x[2], x[1] % x[2]>>]
Reduced(x) == LET d == Gcd[<<x.den, AbsOf(x.num)>>] IN Q(x.num \div d, x.den \div d)
Zero == Q(0, 1)
QLeq(x, y) == x.num * y.den <= y.num * x.den
QEq(x, y)  == x.num * y.den = y.num * x.den
QLess(x, y) == x.num * y.den < y.num * x.den
QScale(n, x) == Q(n * x.num, x.den)

(* The k-th smallest of some quotients: fewer than k are smaller, and k    *)
(* are not greater.                                                        *)
KthOf(vals, k) ==
    CHOOSE x \in {vals[i] : i \in DOMAIN vals} :
        /\ Cardinality({i \in DOMAIN vals : QLess(vals[i], x)}) < k
        /\ k <= Cardinality({i \in DOMAIN vals : QLeq(vals[i], x)})

-----------------------------------------------------------------------------
(* synth_bucket, and what selection_state hands to the classifier.         *)

SumField(sel, f) == MapThenSumSet(LAMBDA k : sel[k][f], DOMAIN sel)

(* The volume-weighted mean of a rate.                                     *)
Weighted(sel, f) ==
    LET vol == MapThenSumSet(LAMBDA k : Vol(sel[k]), DOMAIN sel)
    IN  IF vol > 0
        THEN Q(MapThenSumSet(LAMBDA k : sel[k][f] * Vol(sel[k]), DOMAIN sel), vol)
        ELSE Q(SumField(sel, f), Len(sel))

MergedVol(sel, p) == MapThenSumSet(LAMBDA k : LevelVol(sel[k].levels, p), DOMAIN sel)

(* The heaviest of the merged levels, the first of several.                *)
MergedPoc(sel) ==
    LET prices == Prices(sel)
    IN  IF prices = {} THEN sel[Len(sel)].close
        ELSE Min({p \in prices : \A q \in prices : MergedVol(sel, q) <= MergedVol(sel, p)})

SynthBucket(sel) ==
    [vol  |-> MapThenSumSet(LAMBDA k : Vol(sel[k]), DOMAIN sel),
     buy  |-> MapThenSumSet(LAMBDA k : BuyVol(sel[k]), DOMAIN sel),
     sell |-> MapThenSumSet(LAMBDA k : SellVol(sel[k]), DOMAIN sel),
     sums |-> [f \in {"opL", "opS", "clL", "clS", "churn", "liqS", "liqL"} |-> SumField(sel, f)],
     open |-> sel[1].open, close |-> sel[Len(sel)].close,
     high |-> Max({sel[k].high : k \in DOMAIN sel}), low |-> Min({sel[k].low : k \in DOMAIN sel}),
     poc  |-> MergedPoc(sel),
     vel  |-> Weighted(sel, "vel"), ber |-> Weighted(sel, "ber"), ser |-> Weighted(sel, "ser")]

(* The windows the exhaustion multipliers and the sweep read before i.     *)
Windows(bk, i) ==
    [exh |-> SubSeq(bk, Max({1, i - ExhWindow}), i - 1), sweep |-> Context(bk, i)]

(* Mutant: only the sweep's window comes before the selection.             *)
SelectionInput_SweepOnly(bk, lo, hi) ==
    LET priors == SubSeq(bk, Max({1, lo - SweepWindow}), lo - 1)
    IN  [syn |-> SynthBucket(SubSeq(bk, lo, hi)),
         win |-> Windows(Append(priors, bk[lo]), Len(priors) + 1)]

(* selection_state: the synthetic bucket after the widest window of the    *)
(* buckets before the selection.                                           *)
SelectionInput(bk, lo, hi) ==
    LET pw == Max({SweepWindow, ExhWindow})
        priors == SubSeq(bk, Max({1, lo - pw}), lo - 1)
    IN  [syn |-> SynthBucket(SubSeq(bk, lo, hi)),
         win |-> Windows(Append(priors, bk[lo]), Len(priors) + 1)]

-----------------------------------------------------------------------------
(* Absorption and effective aggression.                                    *)

Disp(b) == AbsOf(b.close - b.open)

(* _absorption_core: the suppression s of a bucket against the norm sd/scv *)
(* of displacement per volume.                                             *)
Suppression(b, sd, scv) ==
    LET cv == Vol(b)
        num == cv * sd - Disp(b) * scv
    IN  IF scv = 0 \/ sd = 0 THEN Zero
        ELSE IF cv = 0 THEN Q(1, 1)
        ELSE IF num <= 0 THEN Zero ELSE Q(num, cv * sd)

BullAbsorbed(b, s) == IF SellVol(b) > BuyVol(b) THEN QScale(SellVol(b), s) ELSE Zero
BearAbsorbed(b, s) == IF BuyVol(b) > SellVol(b) THEN QScale(BuyVol(b), s) ELSE Zero

(* absorption_vol: s with the sums taken over the window.                  *)
SuppressionAt(bk, i, w) ==
    LET win == Max({1, i - w})..(i - 1)
    IN  Suppression(bk[i], MapThenSumSet(LAMBDA j : Disp(bk[j]), win),
                           MapThenSumSet(LAMBDA j : Vol(bk[j]), win))

(* Mutant: the trailing window ends with the bucket itself.                *)
Between2_Inclusive(P, base, a, i) == P[i + 1 - base] - P[a - base]

(* The difference of prefix sums over buckets a..i-1, P[0] at base.        *)
Between2(P, base, a, i) == P[i - base] - P[a - base]

PrefixVol(bk, base, hi) ==
    LET P[k \in 0..(hi - base + 1)] == IF k = 0 THEN 0 ELSE P[k - 1] + Vol(bk[base + k - 1]) IN P
PrefixDisp(bk, base, hi) ==
    LET P[k \in 0..(hi - base + 1)] == IF k = 0 THEN 0 ELSE P[k - 1] + Disp(bk[base + k - 1]) IN P

(* absorption_series: the same from prefix sums.                           *)
AbsorptionSeries(bk, lo, hi, w) ==
    LET base == Max({1, lo - w})
        Pd  == PrefixDisp(bk, base, hi)
        Pcv == PrefixVol(bk, base, hi)
    IN  [i \in lo..hi |-> LET a == Max({1, i - w})
                          IN  Suppression(bk[i], Between2(Pd, base, a, i), Between2(Pcv, base, a, i))]

(* effective_aggression: the volume that did move the price its way.       *)
OneMinus(s) == Q(s.den - s.num, s.den)
EffBull(b, s) ==
    IF BuyVol(b) > SellVol(b) /\ b.close > b.open THEN QScale(BuyVol(b), OneMinus(s)) ELSE Zero
EffBear(b, s) ==
    IF SellVol(b) > BuyVol(b) /\ b.close < b.open THEN QScale(SellVol(b), OneMinus(s)) ELSE Zero

(* _vol_norm: the mean volume of the buckets before i, or its own.         *)
VolNorm(bk, i, fw) ==
    LET win == IF i = 1 THEN {1} ELSE Max({1, i - fw})..(i - 1)
    IN  Q(MapThenSumSet(LAMBDA j : Vol(bk[j]), win), Cardinality(win))

ForceOf(eff, norm) ==
    IF eff.num = 0 THEN Zero ELSE IF norm.num = 0 THEN eff ELSE Q(eff.num * norm.den, eff.den * norm.num)

EffOf(b, s) == IF EffBull(b, s).num > 0 THEN EffBull(b, s) ELSE EffBear(b, s)

(* eff_agg_series: both windows from prefix sums of one base.              *)
EffAggSeries(bk, lo, hi, w, fw) ==
    LET base == Max({1, lo - Max({w, fw})})
        Pd  == PrefixDisp(bk, base, hi)
        Pcv == PrefixVol(bk, base, hi)
        s(i) == LET a == Max({1, i - w})
                IN  Suppression(bk[i], Between2(Pd, base, a, i), Between2(Pcv, base, a, i))
        norm(i) == LET fa == Max({1, i - fw})
                   IN  IF i = fa THEN Q(Vol(bk[i]), 1) ELSE Q(Between2(Pcv, base, fa, i), i - fa)
    IN  [i \in lo..hi |-> ForceOf(EffOf(bk[i], s(i)), norm(i))]

(* eff_agg_from_absorption: the same with s taken from absorption_series.  *)
EffAggFromAbsorption(bk, lo, hi, fw, sval) ==
    LET base == Max({1, lo - fw})
        Pcv == PrefixVol(bk, base, hi)
        norm(i) == LET fa == Max({1, i - fw})
                   IN  IF i = fa THEN Q(Vol(bk[i]), 1) ELSE Q(Between2(Pcv, base, fa, i), i - fa)
    IN  [i \in lo..hi |-> ForceOf(EffOf(bk[i], sval[i]), norm(i))]

(* absorption_default_s and eff_agg_default_f: the upper median of the     *)
(* directional values, 1 when there are none.                              *)
UpperMedian(vals) ==
    LET nz == {i \in DOMAIN vals : vals[i].num > 0}
    IN  IF nz = {} THEN Q(1, 1)
        ELSE KthOf([i \in nz |-> vals[i]], Cardinality(nz) \div 2 + 1)

(* zones_from_series and eff_zones_from_series of one side: the runs of at *)
(* least minRun consecutive buckets of the side at the threshold.          *)
Zones(side, val, thr, minRun) ==
    LET on  == {i \in DOMAIN side : side[i].num > 0 /\ QLeq(thr, val[i])}
    IN  {z \in {ab \in on \X on : ab[1] <= ab[2]} :
            /\ z[1]..z[2] \subseteq on
            /\ z[1] - 1 \notin on /\ z[2] + 1 \notin on
            /\ z[2] - z[1] + 1 >= minRun}

-----------------------------------------------------------------------------
(* balance_flip over a series of signed numbers.                           *)

SameSide(x, y) == (x < 0) = (y < 0)

Crossings(s) == {k \in 2..Len(s) : s[k - 1] # 0 /\ s[k] # 0 /\ ~SameSide(s[k - 1], s[k])}

(* The turns against the dominant side dir.                                *)
Relevant(s, dir) ==
    {k \in Crossings(s) : dir = 0 \/ (dir < 0 /\ s[k] > 0) \/ (dir > 0 /\ s[k] < 0)}

(* The new side's hold over k.. and the old side's over ..k-1.             *)
PostHeld(s, k) == Cardinality({j \in k..Len(s) : SameSide(s[j], s[k])})
PreHeld(s, k)  == Cardinality({j \in 1..(k - 1) : SameSide(s[j], s[k - 1])})

(* Mutant: only the new side has to have held.                             *)
PreOk_Always(s, k) == TRUE

PreOk(s, k) ==
    k - 1 >= MinRemainder /\ 100 * PreHeld(s, k) >= SustainMin * (k - 1)

PostN(s, k) == Len(s) - k + 1
PostOk(s, k) == 100 * PostHeld(s, k) >= SustainMin * PostN(s, k)

(* The verdict: the earliest confirmed turn, or the most recent one that   *)
(* is still too short to judge, or no flip.                                *)
BalanceFlip(s, dir) ==
    LET pre == {k \in Relevant(s, dir) : PreOk(s, k)}
        confirmed == {k \in pre : PostN(s, k) >= MinRemainder /\ PostOk(s, k)}
        forming   == {k \in pre : PostN(s, k) < MinRemainder}
        nearest == {k \in DOMAIN s : \A j \in DOMAIN s : AbsOf(s[k]) <= AbsOf(s[j])}
    IN  IF Len(s) < 2 \/ \A k \in DOMAIN s : s[k] = 0 THEN NoReading
        ELSE IF confirmed # {}
        THEN [kind |-> "flip", k |-> Min(confirmed), held |-> PostHeld(s, Min(confirmed))]
        ELSE IF forming # {}
        THEN [kind |-> "forming", k |-> Max(forming), held |-> PostHeld(s, Max(forming))]
        ELSE [kind |-> "none", k |-> Min(nearest), held |-> 0]

-----------------------------------------------------------------------------
(* rolling_share: the local share of the bulls, from prefix sums.          *)
RollingShare(bull, bear, w) ==
    LET n == Len(bull)
        h == Max({1, w}) \div 2
        Pb[k \in 0..n] == IF k = 0 THEN 0 ELSE Pb[k - 1] + bull[k]
        Pr[k \in 0..n] == IF k = 0 THEN 0 ELSE Pr[k - 1] + bear[k]
        sum(P, i) == P[Min({n, i + h})] - P[Max({0, i - 1 - h})]
    IN  [i \in 1..n |-> IF sum(Pb, i) + sum(Pr, i) > 0
                        THEN Q(sum(Pb, i), sum(Pb, i) + sum(Pr, i)) ELSE Q(1, 2)]

-----------------------------------------------------------------------------
(* vpin_adaptive.                                                          *)

Imbalance(bk, S) == MapThenSumSet(LAMBDA j : AbsOf(BuyVol(bk[j]) - SellVol(bk[j])), S)

(* rolling_vpin of the n buckets that end with i.                          *)
RollingVpin(bk, n) ==
    [i \in DOMAIN bk |->
        LET w == Max({1, i - n + 1})..i
            vol == MapThenSumSet(LAMBDA j : Vol(bk[j]), w)
        IN  IF vol > 0 THEN Q(Imbalance(bk, w), vol) ELSE Zero]

(* _percentile of the sorted samples, linear between two of them.          *)
Percentile(xs, p) ==
    LET r  == p * (Len(xs) - 1)
        lo == r \div 100
        x  == KthOf(xs, lo + 1)
        y  == KthOf(xs, Min({lo + 2, Len(xs)}))
    IN  Reduced(Q(100 * x.num * y.den + (y.num * x.den - x.num * y.den) * (r % 100),
                  100 * x.den * y.den))

(* vpin_cutpoints: none while there are too few samples.                   *)
Cutpoints(samples, warn, toxic) ==
    IF Len(samples) < AdaptMin THEN NoReading
    ELSE [warn |-> Percentile(samples, warn), toxic |-> Percentile(samples, toxic)]

VpinTier(v, cuts) ==
    IF cuts = NoReading THEN 0
    ELSE IF QLeq(cuts.toxic, v) THEN 2 ELSE IF QLeq(cuts.warn, v) THEN 1 ELSE 0
=============================================================================
