------------------------------ MODULE Analytics ------------------------------
(***************************************************************************)
(* The readings of OrderBlocks, StateEngine and RegionState over a history *)
(* that grows bucket by bucket and loses its oldest bucket at the cap.     *)
(* The daemon recomputes them from the whole history each time: they are   *)
(* stateless, and what a trader follows from scan to scan is how the       *)
(* results of two scans relate.                                            *)
(***************************************************************************)
EXTENDS RegionState

CONSTANTS
    Families,       \* sets of bucket shapes a history is made of, by name
    ExactFamily,    \* the family whose factors are saturated (StateEngine)
    Cap,            \* config.CLOSED_BUCKETS_CAP
    MaxTotal        \* bound: buckets closed, by family

(* The point of control: the heaviest level, the first of several (the     *)
(* model has the levels in the order of their prices, the code in that of  *)
(* their first trades).                                                    *)
PocOf(levels) ==
    Min({p \in DOMAIN levels : \A q \in DOMAIN levels : LevelVol(levels, q) <= LevelVol(levels, p)})

(* A bucket has whole prices, of which the first and the last trade are    *)
(* two, and a finite map of levels with what was bought and sold at each.  *)
IsBucket(b) ==
    /\ b \in [n : Nat, t : Nat, dt : Nat, open : Int, high : Int, low : Int, close : Int,
              poc : Int, levels : {b.levels}, opL : Nat, opS : Nat, clL : Nat, clS : Nat,
              churn : Nat, liqS : Nat, liqL : Nat, ber : Nat, ser : Nat, vel : Nat]
    /\ IsFiniteSet(DOMAIN b.levels) /\ DOMAIN b.levels \subseteq Int
    /\ \A p \in DOMAIN b.levels : b.levels[p] \in [b : Nat, s : Nat]
    /\ {b.open, b.close} \subseteq b.low..b.high
    /\ DOMAIN b.levels # {} /\ b.poc = PocOf(b.levels)

ASSUME AnalyticsAssumption ==
    /\ Cap \in Nat /\ Cap > Lookback /\ Cap > Window
    /\ ExactFamily \in DOMAIN Families /\ DOMAIN MaxTotal = DOMAIN Families
    /\ \A f \in DOMAIN Families : \A shape \in Families[f] : IsBucket(shape)

VARIABLES family, total, history    \* closed_buckets
analyticsVars == <<family, total, history>>

AnalyticsInit == family \in DOMAIN Families /\ total = 0 /\ history = <<>>

(* The append and the trim of _close_active_bucket.                        *)
Kept(s) == IF Len(s) > Cap THEN Tail(s) ELSE s

(* A bucket closes.  A trade may close several, which start together: the  *)
(* shape says how long after the one before it starts.                     *)
BucketCloses(shape) ==
    LET t == IF history = <<>> THEN 1 ELSE history[Len(history)].t + shape.dt
    IN  /\ total < MaxTotal[family]
        /\ total' = total + 1
        /\ history' = Kept(Append(history, [shape EXCEPT !.n = total + 1, !.t = t]))
        /\ UNCHANGED family

AnalyticsNext == \E shape \in Families[family] : BucketCloses(shape)
AnalyticsSpec == AnalyticsInit /\ [][AnalyticsNext]_analyticsVars

Obs == CalcQuantObs(history)
Marks == CalcAbsorption(history)

-----------------------------------------------------------------------------
(* Every result has its shape: a block between its edges, a mark around    *)
(* its line.                                                               *)
ReadingsTypeOK ==
    /\ Len(history) = Min({total, Cap})
    /\ \A ob \in Obs : ob.bottom <= ob.top /\ ob.start <= ob.confirm
                      /\ (ob.end > ob.confirm <=> ~ob.active)
    /\ \A m \in Marks : m.plo <= m.price /\ m.price <= m.phi /\ (m.end >= m.birth <=> ~m.active)

(* The band of a bucket holds the wall its POC stands on: every level that *)
(* institutional volume connects to the POC lies inside, and so does the   *)
(* POC itself ("map the true physical edge of an institutional limit       *)
(* wall", calculate_dynamic_band).  A bucket that traded the same volume   *)
(* at every level has no wall: its band is the fixed one of the failsafe.  *)
Varied(levels) == Cardinality({LevelVol(levels, p) : p \in DOMAIN levels}) > 1

BandHoldsTheWall ==
    \A k \in DOMAIN history :
        LET b == history[k]
            band == DynamicBand(b.levels, b.poc)
            whales == Institutional(b.levels)
        IN  /\ band.bottom < b.poc /\ b.poc < band.top
            /\ \A p \in whales :
                  /\ Varied(b.levels) /\ AbsOf(p - b.poc) <= ExpansionMax
                  /\ \A q \in Min({p, b.poc})..Max({p, b.poc}) : q \in whales
                  => band.bottom <= p /\ p <= band.top

(* From one scan to the next, and across the trim at the cap, a block that *)
(* the history still covers is there again; its far edge has not moved,    *)
(* its near edge has only moved inward, and a dead block stays dead with   *)
(* the same end.                                                           *)
Covered(ob, bk) == \E k \in (Lookback + 1)..Len(bk) : bk[k - 1].n = ob.n

BlocksOnlyErode ==
    [][ \A ob \in Obs : Covered(ob, history') =>
          \E new \in CalcQuantObs(history') :
              /\ new.n = ob.n /\ new.type = ob.type
              /\ new.top <= ob.top /\ new.bottom >= ob.bottom
              /\ IF ob.type = "bullish" THEN new.bottom = ob.bottom ELSE new.top = ob.top
              /\ ~ob.active => new = ob ]_analyticsVars

(* An active block was never closed through after the bucket that          *)
(* confirmed it, whatever erosion did in between, and its near edge is     *)
(* where the deepest body since then left it.                              *)
ErosionIsTheDeepestBody ==
    \A ob \in Obs : ob.active =>
        LET later == {k \in DOMAIN history : history[k].t > ob.confirm}
        IN  \A k \in later :
               IF ob.type = "bullish"
               THEN history[k].close > ob.bottom
                    /\ ob.top <= Max({ob.bottom, BodyLow(history[k])})
               ELSE history[k].close < ob.top
                    /\ ob.bottom >= Min({ob.top, BodyHigh(history[k])})

(* Until the cap is reached a mark only grows from scan to scan: it keeps  *)
(* its identity, widens, its peak and its tier never fall, and it ends by  *)
(* a close beyond it or not at all.                                        *)
MarksOnlyGrow ==
    [][ Len(history') > Len(history) =>
          \A m \in Marks :
            \E new \in CalcAbsorption(history') :
              /\ new.id = m.id
              /\ IF m.active
                 THEN /\ new.plo <= m.plo /\ m.phi <= new.phi
                      /\ new.usd >= m.usd /\ new.tier >= m.tier
                      /\ new.active \/ BrokenBy(m, history'[Len(history')])
                 ELSE new = m ]_analyticsVars

(* No close since a standing mark was born lies decisively beyond it, also *)
(* when the mark has been widened since.                                   *)
StandingMarksAreUnbroken ==
    \A m \in Marks : m.active =>
        \A k \in DOMAIN history : history[k].t > m.birth => ~BrokenBy(m, history[k])

-----------------------------------------------------------------------------
(* The verdicts.                                                           *)

Exact(bk) ==
    IF family # ExactFamily THEN {}
    ELSE {i \in DOMAIN bk : bk[i].liqS + bk[i].liqL > 0 =>
            LET win == Context(bk, i)
                sum == MapThenSumSet(LAMBDA k : win[k].high - win[k].low, DOMAIN win)
            IN  win # <<>> /\ 100 * (bk[i].high - bk[i].low) * Len(win) <= 60 * sum}

Mults == {100, 200}

(* The bucket with the two sides of the market exchanged.                  *)
MirrorLevels(f) == [p \in {-q : q \in DOMAIN f} |-> [b |-> f[-p].s, s |-> f[-p].b]]
Mirror(b) ==
    [b EXCEPT !.open = -b.open, !.close = -b.close, !.high = -b.low, !.low = -b.high,
              !.poc = -b.poc, !.levels = MirrorLevels(b.levels),
              !.opL = b.opS, !.opS = b.opL, !.clL = b.clS, !.clS = b.clL,
              !.liqS = b.liqL, !.liqL = b.liqS, !.ber = b.ser, !.ser = b.ber]
MirrorState(name) ==
    CASE name = "STRONG BULL" -> "STRONG BEAR"         [] name = "STRONG BEAR" -> "STRONG BULL"
      [] name = "BULL EXHAUSTION" -> "BEAR EXHAUSTION" [] name = "BEAR EXHAUSTION" -> "BULL EXHAUSTION"
      [] name = "BULL TRAP" -> "BEAR TRAP"             [] name = "BEAR TRAP" -> "BULL TRAP"
      [] name = "SHORT SQUEEZE" -> "LONG SQUEEZE"      [] name = "LONG SQUEEZE" -> "SHORT SQUEEZE"
      [] OTHER -> name

(* The engine favours neither side: the mirrored history gets the mirrored *)
(* verdict with the same confidence (a doji is green, so only a bucket     *)
(* that closed away from its open).                                        *)
VerdictIsMirrored ==
    LET mirrored == [k \in DOMAIN history |-> Mirror(history[k])]
    IN  \A i \in Exact(history), bm, sm \in Mults :
            history[i].open # history[i].close =>
                LET v == Classify(history, i, bm, sm)
                    w == Classify(mirrored, i, sm, bm)
                IN  w.name = MirrorState(v.name) /\ w.score = v.score

(* A violent squeeze, with forced orders of the side for SQUEEZE_FLOOR_SAT *)
(* of the volume, is the verdict whatever its other factors say, unless    *)
(* the bucket is a full-score STRONG, EXHAUSTION or TRAP, which come       *)
(* earlier in the dictionary.                                              *)
SqueezeYieldsOnlyToFullScores ==
    \A i \in Exact(history), bm, sm \in Mults :
        LET b == history[i]
            v == Classify(history, i, bm, sm)
            liq == IF b.close >= b.open THEN b.liqS ELSE b.liqL
        IN  Vol(b) > 0 /\ 100 * liq >= 30 * Vol(b) =>
               /\ v.score = 0
               /\ v.name \notin {"LIQUIDITY COIL", "ROTATION", "CHOP", "NEUTRAL"}

(* The state of a one-bucket selection is the state the hover shows for    *)
(* that bucket: the same bucket, after the same windows ("matches the      *)
(* per-bucket hover STATE", selection_state).                              *)
OneBucketSelectionIsHover ==
    \A i \in DOMAIN history :
        LET in == SelectionInput(history, i, i)
            b  == history[i]
        IN  /\ in.win = Windows(history, i)
            /\ in.syn.vol = Vol(b) /\ in.syn.buy = BuyVol(b) /\ in.syn.sell = SellVol(b)
            /\ <<in.syn.open, in.syn.close, in.syn.high, in.syn.low, in.syn.poc>>
                 = <<b.open, b.close, b.high, b.low, b.poc>>
            /\ \A f \in DOMAIN in.syn.sums : in.syn.sums[f] = b[f]
            /\ QEq(in.syn.vel, Q(b.vel, 1)) /\ QEq(in.syn.ber, Q(b.ber, 1))
            /\ QEq(in.syn.ser, Q(b.ser, 1))

(* A selection's rates stay on the scale of one bucket: between the least  *)
(* and the greatest of its buckets, however many it has ("stays            *)
(* single-bucket scale", synth_bucket).                                    *)
SelectionStaysOnBucketScale ==
    \A lo, hi \in DOMAIN history : lo <= hi =>
        LET sel == SubSeq(history, lo, hi)
        IN  \A f \in {"vel", "ber", "ser"} :
              LET w == Weighted(sel, f)
                  weight == {k \in DOMAIN sel : Vol(sel[k]) > 0}
                  use == IF weight = {} THEN DOMAIN sel ELSE weight
              IN  /\ Min({sel[k][f] : k \in use}) * w.den <= w.num
                  /\ w.num <= Max({sel[k][f] : k \in use}) * w.den
                  /\ w.num * MapThenSumSet(LAMBDA k : Vol(sel[k]), weight)
                       = w.den * MapThenSumSet(LAMBDA k : sel[k][f] * Vol(sel[k]), weight)

-----------------------------------------------------------------------------
(* The selection.                                                          *)

Windows12 == {1, 2}

(* The one-pass series are the per-bucket definitions, for every selection *)
(* and whichever of its two windows is the wider, also where the trailing  *)
(* window is cut off at the start of the history and the centred one of    *)
(* the share at either end.                                                *)
SeriesAreExact ==
    \A lo, hi \in DOMAIN history, w \in Windows12 : lo <= hi =>
        LET fw == 3 - w
            s == AbsorptionSeries(history, lo, hi, w)
            e == EffAggSeries(history, lo, hi, w, fw)
            r == EffAggFromAbsorption(history, lo, hi, fw, s)
        IN  \A i \in lo..hi :
              LET direct == SuppressionAt(history, i, w)
              IN  /\ QEq(s[i], direct)
                  /\ QEq(e[i], ForceOf(EffOf(history[i], direct), VolNorm(history, i, fw)))
                  /\ QEq(r[i], e[i])

ShareIsExact ==
    \A n \in 1..3 :
        LET buy   == [k \in DOMAIN history |-> BuyVol(history[k])]
            sell  == [k \in DOMAIN history |-> SellVol(history[k])]
            share == RollingShare(buy, sell, n)
        IN  \A i \in DOMAIN history :
              LET around == Max({1, i - n \div 2})..Min({Len(history), i + n \div 2})
              IN  QEq(share[i], Q(MapThenSumSet(LAMBDA k : buy[k], around),
                                  MapThenSumSet(LAMBDA k : buy[k] + sell[k], around)))

PrefixSumsAreExact == SeriesAreExact /\ ShareIsExact

(* Absorption and effective aggression split the volume of the dominant    *)
(* side: a bucket that closed its way is one or the other in full, and no  *)
(* bucket counts for both sides.                                           *)
DominantVolumeSplits ==
    \A i \in DOMAIN history :
        LET b == history[i]
            s == SuppressionAt(history, i, 2)
            plus(x, y) == Q(x.num * y.den + y.num * x.den, x.den * y.den)
        IN  /\ BuyVol(b) > SellVol(b) /\ b.close > b.open =>
                 QEq(plus(BearAbsorbed(b, s), EffBull(b, s)), Q(BuyVol(b), 1))
            /\ SellVol(b) > BuyVol(b) /\ b.close < b.open =>
                 QEq(plus(BullAbsorbed(b, s), EffBear(b, s)), Q(SellVol(b), 1))
            /\ BullAbsorbed(b, s).num = 0 \/ BearAbsorbed(b, s).num = 0

(* The zones a selection shows at its default threshold, one side at a     *)
(* time.                                                                   *)
SideZones(side(_, _), minRun) ==
    LET s == AbsorptionSeries(history, 1, Len(history), 2)
        vals == [i \in DOMAIN history |-> side(history[i], s[i])]
        directional == [i \in DOMAIN history |->
                          IF BullAbsorbed(history[i], s[i]).num > 0
                             \/ BearAbsorbed(history[i], s[i]).num > 0 THEN s[i] ELSE Zero]
    IN  Zones(vals, s, UpperMedian(directional), minRun)

(* The zones of the two sides never share a bucket, and at the default     *)
(* threshold a selection with any absorption shows some of it.             *)
ZonesTellTheSidesApart ==
    history # <<>> =>
        LET bull == SideZones(BullAbsorbed, 1)
            bear == SideZones(BearAbsorbed, 1)
        IN  /\ \A x \in bull, y \in bear : x[2] < y[1] \/ y[2] < x[1]
            /\ (\E i \in DOMAIN history : LET s == SuppressionAt(history, i, 2) IN
                   BullAbsorbed(history[i], s).num > 0 \/ BearAbsorbed(history[i], s).num > 0)
                 => bull \cup bear # {}

Deltas(bk) == [k \in DOMAIN bk |-> BuyVol(bk[k]) - SellVol(bk[k])]

(* The balance flip favours neither side: exchanging buyers and sellers    *)
(* exchanges the direction and nothing else (zeros count as buyers, so     *)
(* only a series without them).                                            *)
FlipIsMirrored ==
    LET s == Deltas(history)
        m == [k \in DOMAIN s |-> -s[k]]
    IN  (\A k \in DOMAIN s : s[k] # 0) =>
            \A dir \in {-1, 0, 1} : BalanceFlip(s, dir) = BalanceFlip(m, -dir)

(* A forming flip solidifies or vanishes: when its remainder is complete   *)
(* and the new side has held, the next scan confirms it or an earlier one; *)
(* a confirmed flip was prepared by an old side that held.                 *)
FormingFlipSolidifies ==
    [][ Len(history') > Len(history) =>
          LET s == Deltas(history)
              t == Deltas(history')
          IN  \A dir \in {-1, 0, 1} :
                LET old == BalanceFlip(s, dir)
                    new == BalanceFlip(t, dir)
                IN  /\ old # NoReading /\ new # NoReading /\ old.kind = "forming"
                         /\ PostN(t, old.k) >= MinRemainder /\ PostOk(t, old.k)
                       => new.kind = "flip" /\ new.k <= old.k
                    /\ new # NoReading /\ new.kind = "flip" =>
                         100 * PreHeld(t, new.k) >= SustainMin * (new.k - 1)
                         /\ new.k > MinRemainder /\ PostN(t, new.k) >= MinRemainder ]_analyticsVars

(* The adaptive tiers are what they are called: the cutpoints are ordered, *)
(* at most the top quarter of the samples is above WARN and the top tenth  *)
(* above TOXIC (rounded up), and no tier is given before AdaptMin samples. *)
TiersAreCalibrated ==
    LET xs == RollingVpin(history, 2)
        cuts == Cutpoints(xs, 75, 90)
        above(c) == Cardinality({k \in DOMAIN xs : QLess(c, xs[k])})
    IN  IF Len(xs) < AdaptMin THEN \A k \in DOMAIN xs : VpinTier(xs[k], cuts) = 0
        ELSE /\ QLeq(cuts.warn, cuts.toxic)
             /\ 100 * above(cuts.warn) < 25 * (Len(xs) - 1) + 100
             /\ 100 * above(cuts.toxic) < 10 * (Len(xs) - 1) + 100
             /\ \E k \in DOMAIN xs : VpinTier(xs[k], cuts) = 2

(* What a scan shows follows from the buckets one by one: the band from    *)
(* the wall, the erosion from the bodies since, a standing mark from no    *)
(* close beyond it.                                                        *)
LevelsFollowTheirBuckets ==
    ReadingsTypeOK /\ BandHoldsTheWall /\ ErosionIsTheDeepestBody /\ StandingMarksAreUnbroken

(* The verdict is the same by every way to it: on a bucket and its mirror  *)
(* image, under the squeeze floor, by hover and by selection.              *)
VerdictsAgree ==
    /\ VerdictIsMirrored /\ SqueezeYieldsOnlyToFullScores
    /\ OneBucketSelectionIsHover /\ SelectionStaysOnBucketScale

(* The series and thresholds of a selection are those of their per-bucket  *)
(* definitions, for either side.                                           *)
SeriesAgree ==
    /\ PrefixSumsAreExact /\ DominantVolumeSplits /\ ZonesTellTheSidesApart
    /\ FlipIsMirrored /\ TiersAreCalibrated

(* Two scans in a row agree: a block only erodes and a mark only grows,    *)
(* although each scan starts from nothing.                                 *)
ScansAgree == BlocksOnlyErode /\ MarksOnlyGrow
=============================================================================
