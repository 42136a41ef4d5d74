----------------------------- MODULE StateEngine -----------------------------
(***************************************************************************)
(* The verdict of bucket_state.py on one bucket: twelve states, each with  *)
(* the geometric mean of its factors as its score, and the highest wins.   *)
(*                                                                         *)
(* The model covers the buckets on which every factor is at one end of its *)
(* ramp, where the scores are exact: a core factor is 0 or 1, a soft one   *)
(* SOFT_FLOOR or 1, so a score is 0 or SOFT_FLOOR^(zeros/factors).  It is  *)
(* kept as the exponent in twelfths, and the smallest exponent wins.  On   *)
(* any other bucket Ramp has no value.                                     *)
(***************************************************************************)
EXTENDS OrderBlocks

CONSTANT SweepWindow        \* SWEEP_WINDOW
ASSUME StateEngineAssumption == SweepWindow \in Nat \ {0}

Vol(b) == BuyVol(b) + SellVol(b)
AbsOf(x) == IF x < 0 THEN -x ELSE x

(* _ramp of num/den between two limits in hundredths.                      *)
Ramp(num, den, lo, hi) ==
    CASE 100 * num >= hi * den -> TRUE
      [] 100 * num <= lo * den -> FALSE

Never   == 1000     \* the exponent of the score 0
Neutral == 33       \* the exponent of NEUTRAL_SCORE: below every other score but 0

(* _geo of n factors: the core ones as one conjunction, the soft ones as a *)
(* sequence.                                                               *)
Geo(core, soft, n) ==
    IF core THEN (12 * Cardinality({k \in DOMAIN soft : ~soft[k]})) \div n ELSE Never

State(name, score) == [name |-> name, score |-> score]

(* The buckets the sweep and the range are measured against.               *)
Context(bk, i) == SubSeq(bk, Max({1, i - SweepWindow}), i - 1)

(* The gradient floor of a squeeze.                                        *)
SqueezeFloor(liq, vol, score) ==
    IF 100 * liq >= 10 * vol /\ Ramp(liq, vol, 10, 30) THEN 0 ELSE score

(* Those who opened against the close.                                     *)
Trapped(b, move) == IF move < 0 THEN b.opL ELSE b.opS

(* What the scores read of bucket b after the window win: the sums, the    *)
(* signed follow-through, and the swept levels and ranges of the window.   *)
Measured(b, win) ==
    [vol |-> Vol(b), delta |-> BuyVol(b) - SellVol(b),
     doi |-> (b.opL + b.opS) - (b.clL + b.clS), liqs |-> b.liqS + b.liqL,
     rng |-> Max({b.high - b.low, 1}), move |-> b.close - b.open, pocPos |-> b.poc - b.low,
     prevHigh |-> IF win = <<>> THEN b.high ELSE Max({win[k].high : k \in DOMAIN win}),
     prevLow  |-> IF win = <<>> THEN b.low  ELSE Min({win[k].low : k \in DOMAIN win}),
     ranges |-> IF win = <<>> THEN Max({b.high - b.low, 1})
                ELSE MapThenSumSet(LAMBDA k : win[k].high - win[k].low, DOMAIN win)]

(* The factors several states share; x is the exhaustion multiplier.       *)
Buys(m)   == Ramp(m.delta, m.vol, 10, 55)
Sells(m)  == Ramp(-m.delta, m.vol, 10, 55)
Calm(m)   == ~Ramp(AbsOf(m.delta), m.vol, 10, 55)
Moved(m)  == Ramp(AbsOf(m.move), m.rng, 55, 80)
Drain(m)  == Ramp(-m.doi, m.vol, 5, 45)
Hot(x)    == Ramp(x, 100, 120, 200)
Spent(x)  == Ramp(x, 100, 130, 200)
Fast(b)   == Ramp(b.vel, 10, 100, 220)
Inside(b, m) == b.high <= m.prevHigh /\ b.low >= m.prevLow
ReclaimUp(b, m)   == b.low < m.prevLow /\ Ramp(b.close - m.prevLow, m.rng, 0, 30)
ReclaimDown(b, m) == b.high > m.prevHigh /\ Ramp(m.prevHigh - b.close, m.rng, 0, 30)

(* STRONG: fresh positions, and effort that translates.                    *)
Strong(b, m, bm, sm) ==
    IF m.move >= 0
    THEN State("STRONG BULL", Geo(Buys(m) /\ Ramp(b.opL, m.vol, 10, 50) /\ ~Spent(bm), <<Fast(b)>>, 4))
    ELSE State("STRONG BEAR", Geo(Sells(m) /\ Ramp(b.opS, m.vol, 10, 50) /\ ~Spent(sm), <<Fast(b)>>, 4))

(* EXHAUSTION: absorbed effort while positions drain or cover.             *)
Exhausted(b, m, bm, sm) ==
    IF m.move >= 0
    THEN State("BULL EXHAUSTION",
               Geo(Hot(bm) /\ (Drain(m) \/ Ramp(b.clS, m.vol, 15, 50)), <<Buys(m)>>, 3))
    ELSE State("BEAR EXHAUSTION",
               Geo(Hot(sm) /\ (Drain(m) \/ Ramp(b.clL, m.vol, 15, 50)), <<Sells(m)>>, 3))

(* TRAP: aggression with victims who opened, and a close against it.       *)
Trap(b, m, bm, sm) ==
    IF m.move < 0
    THEN <<State("BULL TRAP",
             Geo(Buys(m) /\ Ramp(Trapped(b, m.move), m.vol, 5, 30) /\ Ramp(-m.move, m.rng, 5, 50),
                 <<Ramp(b.high - m.prevHigh, m.rng, 3, 50), Ramp(m.pocPos, m.rng, 50, 85), Hot(bm)>>, 6))>>
    ELSE IF m.move > 0
    THEN <<State("BEAR TRAP",
             Geo(Sells(m) /\ Ramp(Trapped(b, m.move), m.vol, 5, 30) /\ Ramp(m.move, m.rng, 5, 50),
                 <<Ramp(m.prevLow - b.low, m.rng, 3, 50), Ramp(m.rng - m.pocPos, m.rng, 50, 85), Hot(sm)>>, 6))>>
    ELSE <<>>

(* SQUEEZE: forced orders against the losing side, with the floor.         *)
Squeezed(b, m, liq, reclaim) ==
    SqueezeFloor(liq, m.vol,
        Geo(Ramp(liq, m.vol, 3, 20) /\ Drain(m) /\ Ramp(b.vel, 10, 130, 300), <<reclaim>>, 4))
Squeeze(b, m) ==
    IF m.move >= 0 /\ b.liqS > 0 THEN <<State("SHORT SQUEEZE", Squeezed(b, m, b.liqS, ReclaimUp(b, m)))>>
    ELSE IF m.move < 0 /\ b.liqL > 0 THEN <<State("LONG SQUEEZE", Squeezed(b, m, b.liqL, ReclaimDown(b, m)))>>
    ELSE <<>>

(* COIL: a compressed inside bar that absorbs forced orders.               *)
Coil(b, m, n) ==
    IF Inside(b, m) /\ m.liqs > 0
    THEN <<State("LIQUIDITY COIL",
             Geo(~Ramp(m.rng * Max({1, n}), Max({1, m.ranges}), 60, 120)
                   /\ Ramp(m.liqs, m.vol, 3, 15) /\ Calm(m), <<>>, 3))>>
    ELSE <<>>

(* ROTATION and CHOP: nothing was decided, in motion or at rest.           *)
Rotation(b, m) ==
    State("ROTATION", Geo(Ramp(b.churn, m.vol, 55, 90) /\ ~Ramp(AbsOf(m.doi), m.vol, 5, 22)
                            /\ Calm(m) /\ ~Moved(m), <<>>, 3))
Chop(b, m, bm, sm) ==
    IF Inside(b, m)
    THEN <<State("CHOP", Geo(~Fast(b) /\ Calm(m) /\ ~Ramp(m.liqs, m.vol, 3, 15) /\ ~Hot(Max({bm, sm}))
                               /\ ~Ramp(m.doi, m.vol, 8, 18) /\ ~Moved(m), <<>>, 4))>>
    ELSE <<>>

(* The states that are scored, in the order of the dictionary; n is the    *)
(* length of the window.                                                   *)
Scored(b, m, n, bm, sm) ==
    IF m.vol = 0 THEN <<State("NEUTRAL", Neutral)>>
    ELSE <<Strong(b, m, bm, sm), Exhausted(b, m, bm, sm)>> \o Trap(b, m, bm, sm) \o Squeeze(b, m)
           \o Coil(b, m, n) \o <<Rotation(b, m)>> \o Chop(b, m, bm, sm) \o <<State("NEUTRAL", Neutral)>>

(* _score_and_factors for bucket i with the exhaustion multipliers bm and  *)
(* sm (in hundredths).                                                     *)
Scores(bk, i, bm, sm) ==
    Scored(bk[i], Measured(bk[i], Context(bk, i)), Len(Context(bk, i)), bm, sm)

(* classify_bucket: the first of the states with the highest score.        *)
Winner(s) == s[Min({k \in DOMAIN s : \A j \in DOMAIN s : s[k].score <= s[j].score})]
Classify(bk, i, bm, sm) == Winner(Scores(bk, i, bm, sm))
=============================================================================
