----------------------------- MODULE OrderBlocks -----------------------------
(***************************************************************************)
(* What the daemon reads out of a sequence of closed buckets: the order    *)
(* blocks with their dynamic bands and their mitigation, and the           *)
(* whale-absorption marks (quant_engine.py).  Pure functions of the        *)
(* buckets, from the oldest to the newest.                                 *)
(*                                                                         *)
(* Prices are in ticks, volumes, effort/result and velocity are integers,  *)
(* and a comparison of quotients is a comparison of products.  A bucket is *)
(* a record with n (its number), t (start_time), open, close, poc, levels  *)
(* (price |-> [b, s]), opL, opS, ber, ser (effort/result in tenths) and    *)
(* vel (vel_ratio in tenths).                                              *)
(***************************************************************************)
EXTENDS Integers, Sequences, FiniteSets, Functions, SequencesExt, FiniteSetsExt

CONSTANTS
    Lookback,       \* config.OB_MIN_BUCKETS and config.ER_LOOKBACK
    VelHighlight,   \* config.VELOCITY_TIER_HIGHLIGHT, in tenths
    OtsuSteps,      \* config.OTSU_ITERATIONS
    ExpansionMax,   \* config.EXPANSION_MAX_TICKS
    FlatBand,       \* the 0.05 of the flat fallback, in ticks
    Window, NMin,   \* W and nmin of calc_absorption
    Kappa, Rho, Sigma, Beta,    \* its ratios, in hundredths
    Buffer,         \* its close-through buffer, in ticks
    Tiers           \* <<t1_usd, t2_usd, t3_usd>>

ASSUME OrderBlocksAssumption ==
    /\ {Lookback, OtsuSteps, ExpansionMax, FlatBand, Window, NMin} \subseteq Nat \ {0}
    /\ {VelHighlight, Kappa, Rho, Sigma, Beta, Buffer} \subseteq Nat
    /\ Tiers \in [1..3 -> Nat] /\ Tiers[1] <= Tiers[2] /\ Tiers[2] <= Tiers[3]

LevelVol(levels, p) == IF p \in DOMAIN levels THEN levels[p].b + levels[p].s ELSE 0
BuyVol(b)  == MapThenSumSet(LAMBDA p : b.levels[p].b, DOMAIN b.levels)
SellVol(b) == MapThenSumSet(LAMBDA p : b.levels[p].s, DOMAIN b.levels)

-----------------------------------------------------------------------------
(* calculate_dynamic_band.                                                 *)

(* The levels above the k-th of the thresholds between the smallest and    *)
(* the largest volume.                                                     *)
Whales(levels, k) ==
    LET vols == {LevelVol(levels, p) : p \in DOMAIN levels}
    IN  {p \in DOMAIN levels :
            (LevelVol(levels, p) - Min(vols)) * OtsuSteps >= k * (Max(vols) - Min(vols))}

(* The variance between the two classes, as numerator and denominator.     *)
Between(levels, whales) ==
    LET retail == DOMAIN levels \ whales
        n0 == Cardinality(retail)
        n1 == Cardinality(whales)
        s0 == MapThenSumSet(LAMBDA p : LevelVol(levels, p), retail)
        s1 == MapThenSumSet(LAMBDA p : LevelVol(levels, p), whales)
    IN  [num |-> (s0 * n1 - s1 * n0) * (s0 * n1 - s1 * n0), den |-> n0 * n1]

(* The institutional levels: those of the threshold of the largest         *)
(* variance, the first one of several.                                     *)
Institutional(levels) ==
    LET var == [k \in 1..(OtsuSteps - 1) |-> Between(levels, Whales(levels, k))]
        best == {k \in DOMAIN var : \A j \in DOMAIN var :
                    var[j].num * var[k].den <= var[k].num * var[j].den}
    IN  IF DOMAIN var = {} THEN DOMAIN levels ELSE Whales(levels, Min(best))

(* From p one tick further: down the volume mountain, or along a shelf of  *)
(* institutional volume.                                                   *)
StepsOn(levels, whales, p, dir) ==
    LevelVol(levels, p) > LevelVol(levels, p + dir) \/ p \in whales

Edge(levels, whales, poc, dir) ==
    LET stops == {d \in 0..(ExpansionMax - 1) :
                     ~StepsOn(levels, whales, poc + dir * d, dir)}
    IN  poc + dir * (IF stops = {} THEN ExpansionMax ELSE Min(stops))

DynamicBand(levels, poc) ==
    LET whales == Institutional(levels)
    IN  IF Cardinality({LevelVol(levels, p) : p \in DOMAIN levels}) <= 1
        THEN [top |-> poc + FlatBand, bottom |-> poc - FlatBand]
        ELSE [top    |-> Max({Edge(levels, whales, poc, 1), poc + 1}),
              bottom |-> Min({Edge(levels, whales, poc, -1), poc - 1})]

-----------------------------------------------------------------------------
(* calc_quant_obs.                                                         *)

(* A bucket's effort is 1.5 times its average over the Lookback buckets    *)
(* that end with it, the average floored at 0.1.                           *)
Anomalous(er, sum) == 2 * Lookback * er > 3 * Max({Lookback, sum})

(* An active block, and an active mark below, has the end 0.              *)
NewOb(type, b0, b1, er, sum) ==
    LET band == DynamicBand(b0.levels, b0.poc)
    IN  [n |-> b0.n, type |-> type, top |-> band.top, bottom |-> band.bottom,
         start |-> b0.t, confirm |-> b1.t, active |-> TRUE, end |-> 0,
         power |-> (er * Lookback * b1.vel * 100) \div Max({Lookback, sum})]

(* The order block confirmed by the bucket at i, if there is one: absorbed *)
(* sellers and then the ignition of longs, or else the mirror image.       *)
ObsAt(bk, i) ==
    LET b0 == bk[i - 1]
        b1 == bk[i]
        sumB == MapThenSumSet(LAMBDA j : bk[j].ber, (i - Lookback)..(i - 1))
        sumS == MapThenSumSet(LAMBDA j : bk[j].ser, (i - Lookback)..(i - 1))
    IN  CASE Anomalous(b0.ser, sumS) ->
                IF BuyVol(b1) > SellVol(b1) /\ b1.opL > b1.opS /\ b1.vel > VelHighlight
                THEN {NewOb("bullish", b0, b1, b0.ser, sumS)} ELSE {}
          [] ~Anomalous(b0.ser, sumS) /\ Anomalous(b0.ber, sumB) ->
                IF SellVol(b1) > BuyVol(b1) /\ b1.opS > b1.opL /\ b1.vel > VelHighlight
                THEN {NewOb("bearish", b0, b1, b0.ber, sumB)} ELSE {}
          [] OTHER -> {}

BodyLow(b)  == Min({b.open, b.close})
BodyHigh(b) == Max({b.open, b.close})

(* Mutant: the erosion is not clamped to the near edge of the moment.      *)
Eroded_Regrows(ob, b) ==
    IF ob.type = "bullish"
    THEN [ob EXCEPT !.top = Max({ob.bottom, BodyLow(b)})]
    ELSE [ob EXCEPT !.bottom = Min({ob.top, BodyHigh(b)})]

Eroded(ob, b) ==
    IF ob.type = "bullish"
    THEN [ob EXCEPT !.top = Max({ob.bottom, Min({ob.top, BodyLow(b)})})]
    ELSE [ob EXCEPT !.bottom = Min({ob.top, Max({ob.bottom, BodyHigh(b)})})]

ClearsFarEdge(ob, b) ==
    IF ob.type = "bullish" THEN b.close <= ob.bottom ELSE b.close >= ob.top

(* Mutant: a dead block is followed further.                               *)
Mitigated_Revives(ob, b) ==
    IF b.t <= ob.confirm THEN ob
    ELSE IF ClearsFarEdge(ob, b) THEN [ob EXCEPT !.active = FALSE, !.end = b.t]
    ELSE Eroded(ob, b)

(* One bucket of the mitigation: a close through the far edge kills, a     *)
(* body erodes the near edge, a wick does nothing.                         *)
Mitigated(ob, b) ==
    IF b.t <= ob.confirm \/ ~ob.active THEN ob
    ELSE IF ClearsFarEdge(ob, b) THEN [ob EXCEPT !.active = FALSE, !.end = b.t]
    ELSE Eroded(ob, b)

CalcQuantObs(bk) ==
    {FoldLeft(Mitigated, ob, bk) :
        ob \in UNION {ObsAt(bk, i) : i \in (Lookback + 1)..Len(bk)}}

-----------------------------------------------------------------------------
(* _absorption_clusters over one window.                                   *)

Prices(win) == UNION {DOMAIN win[k].levels : k \in DOMAIN win}
SideAt(b, p, side) ==
    IF p \notin DOMAIN b.levels THEN 0
    ELSE IF side = "SELL" THEN b.levels[p].b ELSE b.levels[p].s

(* The aggression a wall of this side absorbed at price p.                 *)
Absorbed(win, p, side) == MapThenSumSet(LAMBDA k : SideAt(win[k], p, side), DOMAIN win)
Traded(win, p) == MapThenSumSet(LAMBDA k : LevelVol(win[k].levels, p), DOMAIN win)

(* Twice the median volume of the window's buckets.                        *)
TwiceMedian(win) ==
    LET vol(k) == BuyVol(win[k]) + SellVol(win[k])
        s == SortSeq([k \in DOMAIN win |-> vol(k)], <)
        n == Len(s)
    IN  s[(n + 1) \div 2] + s[(n + 2) \div 2]

(* A level fires: heavy, sustained, one-sided and held.                    *)
Fires(win, p, side) ==
    LET a == Absorbed(win, p, side)
        beyond == {q \in Prices(win) : IF side = "SELL" THEN q > p ELSE q < p}
    IN  /\ a > 0
        /\ 200 * a >= Kappa * TwiceMedian(win)
        /\ Cardinality({k \in DOMAIN win : LevelVol(win[k].levels, p) > 0}) >= NMin
        /\ \A k \in DOMAIN win : 100 * SideAt(win[k], p, side) <= Rho * a
        /\ 100 * a >= Sigma * Traded(win, p)
        /\ 100 * MapThenSumSet(LAMBDA q : Traded(win, q), beyond)
             <= Beta * MapThenSumSet(LAMBDA q : Traded(win, q), Prices(win))

(* Fired levels at most two ticks apart are one cluster, from the lowest   *)
(* to the highest; its line is the heaviest level.                         *)
Starts(fired) == {p \in fired : fired \cap {p - 2, p - 1} = {}}
Grouped(fired, starts) ==
    [k \in 1..Cardinality(starts) |->
        {q \in fired : Cardinality({p \in starts : p <= q}) = k}]

(* The cluster of the levels c; mass is what each of them absorbed.        *)
Cluster(c, side, mass) ==
    [plo |-> Min(c), phi |-> Max(c), side |-> side,
     usd |-> MapThenSumSet(LAMBDA q : mass[q], c) * (Min(c) + Max(c)),
     price |-> Min({p \in c : \A q \in c : mass[q] <= mass[p]})]

ClustersOf(groups, side, mass) == [k \in DOMAIN groups |-> Cluster(groups[k], side, mass)]
FiredClusters(fired, side, mass) == ClustersOf(Grouped(fired, Starts(fired)), side, mass)
Clusters(win, side) ==
    FiredClusters({p \in Prices(win) : Fires(win, p, side)}, side,
                  [p \in Prices(win) |-> Absorbed(win, p, side)])

-----------------------------------------------------------------------------
(* calc_absorption: standing marks.                                        *)

Tier(usd) == IF usd >= 2 * Tiers[3] THEN 3 ELSE IF usd >= 2 * Tiers[2] THEN 2 ELSE 1

(* A close decisively beyond the mark.                                     *)
BrokenBy(m, b) ==
    IF m.side = "SELL" THEN b.close > m.phi + Buffer ELSE b.close < m.plo - Buffer

Near(m, c) == m.side = c.side /\ ~(c.phi < m.plo - 2 \/ c.plo > m.phi + 2)

(* A cluster at a standing mark: the mark widens, and its peak moves with  *)
(* its tier and its line.                                                  *)
Lifted(m, c) ==
    [m EXCEPT !.usd   = Max({@, c.usd}),
              !.tier  = IF c.usd > m.usd THEN Tier(c.usd) ELSE @,
              !.price = IF c.usd > m.usd THEN c.price ELSE @,
              !.plo = Min({@, c.plo}), !.phi = Max({@, c.phi})]

NewMark(c, t) ==
    [plo |-> c.plo, phi |-> c.phi, price |-> c.price, side |-> c.side, usd |-> c.usd,
     tier |-> Tier(c.usd), birth |-> t, id |-> <<c.side, c.plo, t>>, end |-> 0, active |-> TRUE]

(* A cluster of the window that ends at time t meets the standing marks:   *)
(* the first one near it is lifted, or a new one is born.                  *)
Meet(marks, c, t) ==
    LET near == {k \in DOMAIN marks : Near(marks[k], c)}
    IN  IF near = {} THEN Append(marks, NewMark(c, t))
        ELSE [marks EXCEPT ![Min(near)] = Lifted(@, c)]

(* One bucket: the marks its close breaks die, then the window that ends   *)
(* with it adds to the rest.                                               *)
AbsorbBucket(st, bk, k) ==
    LET b == bk[k]
        dead(m) == BrokenBy(m, b)
        alive == FoldLeft(LAMBDA ms, m : IF dead(m) THEN ms ELSE Append(ms, m), <<>>, st.active)
        win   == SubSeq(bk, k - Window + 1, k)
        new   == IF k < Window THEN <<>> ELSE Clusters(win, "SELL") \o Clusters(win, "BUY")
    IN  [active |-> FoldLeft(LAMBDA ms, c : Meet(ms, c, b.t), alive, new),
         done   |-> st.done \cup {[m EXCEPT !.active = FALSE, !.end = b.t] :
                                     m \in {x \in ToSet(st.active) : dead(x)}}]

(* The marks above the dollar floor, standing and dead.                    *)
CalcAbsorption(bk) ==
    LET st == FoldLeft(LAMBDA s, k : AbsorbBucket(s, bk, k), [active |-> <<>>, done |-> {}],
                       [k \in 1..Len(bk) |-> k])
    IN  {m \in st.done \cup ToSet(st.active) : m.usd >= 2 * Tiers[1]}
=============================================================================
