----------------------------- MODULE MCAnalytics -----------------------------
EXTENDS Analytics

Plain == [n |-> 0, t |-> 0, dt |-> 1, open |-> 100, high |-> 102, low |-> 99, close |-> 101,
          poc |-> 100, levels |-> (100 :> [b |-> 1, s |-> 2] @@ 101 :> [b |-> 1, s |-> 0]),
          opL |-> 0, opS |-> 0, clL |-> 0, clS |-> 0, churn |-> 0, liqS |-> 0, liqL |-> 0,
          ber |-> 1, ser |-> 1, vel |-> 10]

(* Absorbed sellers on a wall, the ignition of longs, a body into the      *)
(* block that starts together with the bucket before, a close through it,  *)
(* and the mirror image.                                                   *)
AbsorbedSellers ==
    [Plain EXCEPT !.ser = 9, !.levels = (97 :> [b |-> 0, s |-> 1] @@ 98 :> [b |-> 0, s |-> 6] @@
                                         99 :> [b |-> 0, s |-> 6] @@
                                         100 :> [b |-> 1, s |-> 7] @@ 101 :> [b |-> 0, s |-> 2])]
Ignition == [Plain EXCEPT !.opL = 2, !.vel = 15, !.open = 101, !.high = 104, !.close = 104, !.poc = 103,
                          !.levels = (103 :> [b |-> 3, s |-> 0])]
IntoBlock == [Plain EXCEPT !.open = 103, !.high = 103, !.close = 100, !.dt = 0]
Through   == [Plain EXCEPT !.open = 100, !.close = 95, !.low = 95]
Walls(p, b, s) ==
    [Plain EXCEPT !.levels = (p :> [b |-> b, s |-> s] @@ (p - 1) :> [b |-> 1, s |-> 1]),
                  !.poc = p, !.open = p - 2, !.close = p - 1, !.high = p, !.low = p - 2]
BrokenWall == [Walls(100, 6, 0) EXCEPT !.close = 104, !.high = 104]
Breaks(c) == [Plain EXCEPT !.open = 100, !.close = c, !.high = 110, !.low = 90,
                           !.levels = (100 :> [b |-> 1, s |-> 1]), !.opL = 0]
Pair(b) == {b, Mirror(b)}

BlockShapes == {AbsorbedSellers, Ignition, IntoBlock, Through}
BearShapes  == {Mirror(b) : b \in BlockShapes}
MarkShapes  == {Walls(100, 6, 0), Walls(102, 9, 0), BrokenWall, Breaks(109)}

(* Saturated shapes, a volume of 10.                                       *)
Saturated == [Plain EXCEPT !.open = 100, !.low = 100, !.high = 110, !.close = 110, !.vel = 30,
                         !.poc = 109, !.ber = 1,
                         !.levels = (109 :> [b |-> 8, s |-> 0] @@ 101 :> [b |-> 0, s |-> 2])]
StrongBull == [Saturated EXCEPT !.opL = 6]
LiqStrong  == [StrongBull EXCEPT !.liqS = 4, !.high = 104, !.close = 104, !.poc = 103,
                                 !.levels = (103 :> [b |-> 8, s |-> 0] @@ 101 :> [b |-> 0, s |-> 2])]
SqueezeShape == [LiqStrong EXCEPT !.opL = 0, !.clS = 5]
BullTrap   == [StrongBull EXCEPT !.open = 110, !.close = 100]
Rotated    == [Saturated EXCEPT !.churn = 10, !.open = 104, !.close = 105, !.vel = 10, !.poc = 101,
                              !.levels = (101 :> [b |-> 5, s |-> 5])]
StateShapes == UNION {Pair(b) : b \in {StrongBull, LiqStrong, SqueezeShape, BullTrap, Rotated}}

HistoryFamilies == [blocks |-> BlockShapes, bears |-> BearShapes, marks |-> MarkShapes,
                    states |-> StateShapes]
HistoryTotals == [blocks |-> 6, bears |-> 4, marks |-> 5, states |-> 3]
TierTable == [k \in 1..3 |-> <<1200, 2000, 3000>>[k]]
=============================================================================
