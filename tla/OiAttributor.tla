---------------------------- MODULE OiAttributor ----------------------------
(***************************************************************************)
(* The open-interest pending-balance attributor (app/aggtrade.py) with the *)
(* two feeds that drive it (app/feeds.py): the REST poll of open interest, *)
(* which blocks a worker thread and applies its answer on the loop later,  *)
(* and the aggTrade websocket, which drops and comes back.                 *)
(*                                                                         *)
(* Quantities are integers (lots, contracts) where the program has floats; *)
(* the moving average rounds down.  The market itself is the environment.  *)
(***************************************************************************)
EXTENDS Integers

CONSTANTS
    NoOi,         \* the value None of last_oi, vw and of an idle poll
    Qty,          \* the volumes of a trade
    OiLevels,     \* the open-interest levels of the market
    TargetRefs,   \* the medians of the engines' target_vol
    CapK,         \* config.OI_CAP_K
    AlphaNum,     \* _VW_ALPHA = AlphaNum / AlphaDen
    AlphaDen,
    FloorDen,     \* config.OI_VW_FLOOR_FRAC = 1 / FloorDen
    MaxMoved,     \* bound: total absolute movement of the market's OI
    MaxInterval   \* bound: volume between two polls

ASSUME NoOiAssumption == NoOi \notin Int
ASSUME QtyAssumption == Qty \subseteq Nat \ {0}
ASSUME OiAssumption == OiLevels \subseteq Nat
ASSUME RefAssumption == TargetRefs \subseteq Nat \ {0}
ASSUME ScaleAssumption == /\ CapK \in Nat
                          /\ AlphaDen \in Nat \ {0}
                          /\ AlphaNum \in 0..AlphaDen
                          /\ FloorDen \in Nat \ {0}
ASSUME BoundAssumption == MaxMoved \in Nat /\ MaxInterval \in Nat

VARIABLES
    pending_oi,            \* OiAttributor.pending_oi
    last_oi,               \* OiAttributor.last_oi
    vw,                    \* OiAttributor.vw
    interval_vol,          \* OiAttributor.interval_vol
    dropped_oi,            \* OiAttributor.dropped_oi
    resync_discarded_oi,   \* OiAttributor.resync_discarded_oi
    pulse_oi,              \* pulse_state["oi"]
    polled,                \* the answer in the worker thread, or None
    connected,             \* the aggTrade websocket is up
    connected_once,        \* the local of aggtrade_stream
    market_oi,             \* environment: the exchange's open interest
    moved                  \* environment: its total absolute movement

(* History variables: what the accounting statements compare with. *)
VARIABLES
    injected,      \* sum of the OI deltas added to the balance
    bled,          \* sum of the shares handed to trades
    lost_oi,       \* signed sum of what cap and resync took out
    cap            \* the cap of the last poll that injected

attr == <<pending_oi, last_oi, vw, interval_vol, dropped_oi, resync_discarded_oi>>
feed == <<pulse_oi, polled, connected, connected_once>>
market == <<market_oi, moved>>
history == <<injected, bled, lost_oi, cap>>
oiVars == <<attr, feed, market, history>>

Abs(x) == IF x < 0 THEN -x ELSE x
Least(x, y) == IF x < y THEN x ELSE y
Greatest(x, y) == IF x < y THEN y ELSE x

\* math.copysign(m, x) for a magnitude m
CopySign(m, x) == IF x < 0 THEN -m ELSE m

\* Vw after a poll: seeded by the first full interval, then a moving average.
FoldedVw == IF vw = NoOi
            THEN interval_vol
            ELSE (AlphaNum * interval_vol + (AlphaDen - AlphaNum) * vw) \div AlphaDen

\* The scale-free cap, floored at a fraction of the engines' target volume.
CurrentCap(v, ref) == CapK * Greatest(v, ref \div FloorDen)

\* What the cap refuses of a balance, and the balance it holds.
Excess(balance, limit) == Greatest(Abs(balance) - limit, 0)
HeldUnsigned(balance, limit) == Least(limit, balance)                \* mutant
HeldUncapped(balance, limit) == balance                              \* mutant
Held(balance, limit) ==
    IF Abs(balance) > limit THEN CopySign(limit, balance) ELSE balance

\* What a resync counts as discarded.
Discard == Abs(pending_oi)

\* The share of a trade of volume q.
ShareUnclamped(q) == CopySign(q, pending_oi)                         \* mutant
Share(q) == CopySign(Least(Abs(pending_oi), q), pending_oi)

OiInit ==
    /\ pending_oi = 0 /\ last_oi = NoOi /\ vw = NoOi /\ interval_vol = 0
    /\ dropped_oi = 0 /\ resync_discarded_oi = 0
    /\ pulse_oi = 0 /\ polled = NoOi
    /\ connected = FALSE /\ connected_once = FALSE
    /\ market_oi \in OiLevels /\ moved = 0
    /\ injected = 0 /\ bled = 0 /\ lost_oi = 0 /\ cap = 0

-----------------------------------------------------------------------------
(* The environment. *)

\* Positions open or close on the exchange.
MarketMoves(level) ==
    LET d == level - market_oi IN
    /\ d # 0
    /\ moved + Abs(d) =< MaxMoved
    /\ market_oi' = level
    /\ moved' = moved + Abs(d)
    /\ UNCHANGED <<attr, feed, history>>

\* The websocket fails: the stream coroutine sleeps and will connect again.
Disconnect ==
    /\ connected
    /\ connected' = FALSE
    /\ UNCHANGED <<attr, pulse_oi, polled, connected_once, market, history>>

-----------------------------------------------------------------------------
(* OiAttributor. *)

\* on_trade, called by _process_aggtrade for every trade of the stream.
OnTrade(q) ==
    /\ connected
    /\ interval_vol + q =< MaxInterval
    /\ interval_vol' = interval_vol + q
    /\ pending_oi' = pending_oi - Share(q)
    /\ bled' = bled + Share(q)
    /\ UNCHANGED <<last_oi, vw, dropped_oi, resync_discarded_oi, feed, market,
                   injected, lost_oi, cap>>

\* on_poll when last_oi is None: the poll only seeds the baseline.
SeedBaseline(oi) ==
    /\ last_oi = NoOi
    /\ last_oi' = oi
    /\ interval_vol' = 0
    /\ UNCHANGED <<pending_oi, vw, dropped_oi, resync_discarded_oi,
                   injected, lost_oi, cap>>

\* on_poll otherwise: fold the interval, inject the delta, cap and hold.
InjectDelta(oi, ref) ==
    LET balance == pending_oi + (oi - last_oi)
        limit == CurrentCap(FoldedVw, ref)
    IN
    /\ last_oi # NoOi
    /\ vw' = FoldedVw
    /\ interval_vol' = 0
    /\ last_oi' = oi
    /\ pending_oi' = Held(balance, limit)
    /\ dropped_oi' = dropped_oi + Excess(balance, limit)
    /\ injected' = injected + (oi - last_oi)
    /\ lost_oi' = lost_oi + CopySign(Excess(balance, limit), balance)
    /\ cap' = limit
    /\ UNCHANGED resync_discarded_oi

\* fetch_oi_loop: the blocking GET reads the level in a worker thread.
FetchOi ==
    /\ polled = NoOi
    /\ polled' = market_oi
    /\ UNCHANGED <<attr, pulse_oi, connected, connected_once, market, history>>

\* A timeout or a status other than 200: the loop swallows it and sleeps.
FetchFails ==
    /\ polled # NoOi
    /\ polled' = NoOi
    /\ UNCHANGED <<attr, pulse_oi, connected, connected_once, market, history>>

\* _apply_oi, back on the loop: publish the reading, then on_poll.
ApplyOi(ref) ==
    /\ polled # NoOi
    /\ pulse_oi' = polled
    /\ polled' = NoOi
    /\ SeedBaseline(polled) \/ InjectDelta(polled, ref)
    /\ UNCHANGED <<connected, connected_once, market, bled>>

\* The first connection of aggtrade_stream.
Connect ==
    /\ ~connected /\ ~connected_once
    /\ connected' = TRUE
    /\ connected_once' = TRUE
    /\ UNCHANGED <<attr, pulse_oi, polled, market, history>>

\* A later connection: on_reconnect(pulse_state["oi"]) discards the balance.
Reconnect ==
    /\ ~connected /\ connected_once
    /\ connected' = TRUE
    /\ resync_discarded_oi' = resync_discarded_oi + Discard
    /\ lost_oi' = lost_oi + pending_oi
    /\ pending_oi' = 0
    /\ last_oi' = pulse_oi
    /\ interval_vol' = 0
    /\ UNCHANGED <<vw, dropped_oi, pulse_oi, polled, connected_once, market,
                   injected, bled, cap>>

OiNext ==
    \/ \E level \in OiLevels : MarketMoves(level)
    \/ Disconnect
    \/ \E q \in Qty : OnTrade(q)
    \/ FetchOi
    \/ FetchFails
    \/ \E ref \in TargetRefs : ApplyOi(ref)
    \/ Connect
    \/ Reconnect

OiSpec == OiInit /\ [][OiNext]_oiVars

-----------------------------------------------------------------------------
(* Type correctness of the attributor, its feeds and the history. *)
OiTypeOK ==
    /\ pending_oi \in Int
    /\ last_oi \in Int \cup {NoOi}
    /\ vw \in Nat \cup {NoOi}
    /\ interval_vol \in Nat
    /\ dropped_oi \in Nat
    /\ resync_discarded_oi \in Nat
    /\ pulse_oi \in Nat
    /\ polled \in Nat \cup {NoOi}
    /\ connected \in BOOLEAN /\ connected_once \in BOOLEAN
    /\ market_oi \in Nat /\ moved \in Nat
    /\ injected \in Int /\ bled \in Int /\ lost_oi \in Int
    /\ cap \in Nat

(* Nothing is lost: every unit of OI a poll ever injected is in the trades' *)
(* shares, in the balance, or in what the cap and the resyncs took out,     *)
(* each with its sign.                                                      *)
SignedAccounting == bled + pending_oi + lost_oi = injected

(* The counters of on_poll and on_reconnect grow by magnitudes, so together *)
(* they bound from above what was lost; they are never less than it.        *)
CountersCoverLoss == Abs(lost_oi) =< dropped_oi + resync_discarded_oi

(* Cap-and-hold: between polls the balance never exceeds the cap of the     *)
(* last poll that injected, whatever trades and reconnects come in between. *)
PendingWithinCap == Abs(pending_oi) =< cap

(* The balance grows only when a poll is applied; a trade moves it toward   *)
(* zero without crossing it, by no more than the trade's own volume.        *)
BleedStep ==
    polled' = polled =>
        LET share == bled' - bled IN
        /\ Abs(pending_oi') =< Abs(pending_oi)
        /\ \/ pending_oi >= 0 /\ pending_oi' >= 0
           \/ pending_oi =< 0 /\ pending_oi' =< 0
        /\ share # 0 => Abs(share) =< interval_vol' - interval_vol

BleedTowardZero == [][BleedStep]_oiVars

(* The books balance: every unit of OI is a share, pending or accounted as   *)
(* lost, whatever order trades, polls and reconnects come in (on_trade,       *)
(* on_poll, on_reconnect).                                                    *)
BalanceAccounted == OiTypeOK /\ SignedAccounting /\ CountersCoverLoss
=============================================================================
