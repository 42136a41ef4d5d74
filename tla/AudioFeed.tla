------------------------------ MODULE AudioFeed ------------------------------
(***************************************************************************)
(* The spoken alerts of a terminal window (app/terminal.py,                *)
(* _audio_announce; app/alerts.py, AudioEngine): every frame compares the  *)
(* order blocks and icebergs of the client's cache with those already      *)
(* announced and speaks the new ones.  The window seeds the announced set  *)
(* silently from the first data it sees after a change of timeframe or a   *)
(* manual refresh, so that a history is never read out.                    *)
(*                                                                         *)
(* With the window: the client's subscription and cache, the connection    *)
(* that may break or freeze, and the daemon's rescans, which take a        *)
(* snapshot first and broadcast the result later.  A frame carries the two *)
(* matrices together (CatchupStart, or ObPacket without new buckets; a     *)
(* close's ObPacket touches neither, so it is left out).  An event is      *)
(* found once, and may be retired.                                         *)
(***************************************************************************)
EXTENDS Naturals, Sequences

CONSTANTS
    Scales,         \* the timeframes
    FirstScale,     \* the window's timeframe at the start
    Obs,            \* the order blocks there can be
    Icebergs,       \* the absorption marks there can be
    Past,           \* Past[tf]: what the daemon has found before the window opens
    AudioWire,      \* bound: frames in flight
    AudioBreaks     \* bound: refreshes, timeframe changes and broken connections

\* An order block and an iceberg belong to the timeframe whose buckets they are
\* found in (each engine stamps its own bucket times on its events).
ASSUME AudioAssumption ==
    /\ FirstScale \in Scales
    /\ Past \in [Scales -> SUBSET (Obs \cup Icebergs)]
    /\ \A s, t \in Scales : s # t => Past[s] \cap Past[t] = {}
    /\ {AudioWire, AudioBreaks} \subseteq Nat

VARIABLES
    reported,       \* reported[tf]: the events of the daemon's engine
    found,          \* the events ever reported
    scan,           \* the rescan under way: <<>>, or <<timeframe, events>>
    subscribed,     \* the daemon's view of the window's timeframe, <<>> if none
    asked,          \* set_tf requests the daemon has not handled
    matrices,       \* matrices in flight to the window
    link,           \* the connection: up, down, or frozen (dead, but not noticed)
    scale,          \* the window's timeframe
    cached,         \* order_blocks and absorptions of the client's cache
    seeded,         \* _audio_seeded
    announced,      \* _announced_obs and _announced_icebergs
    armed,          \* AudioEngine.armed
    said,           \* every event spoken so far
    upsets          \* bound: disturbances so far

audioVars == <<reported, found, scan, subscribed, asked, matrices, link, scale, cached,
               seeded, announced, armed, said, upsets>>
daemonVars == <<reported, found, scan>>
PastEvents == UNION {Past[tf] : tf \in Scales}
clientVars == <<scale, cached>>
voiceVars  == <<seeded, announced, armed, said>>

Events == Obs \cup Icebergs

Matrix(tf, events) == [tf |-> tf, events |-> events]

AudioInit ==
    /\ reported = Past
    /\ found = PastEvents
    /\ scan = <<>>
    /\ subscribed = <<>>
    /\ asked = <<>>
    /\ matrices = <<>>
    /\ link = "down"
    /\ scale = FirstScale
    /\ cached = {}
    /\ seeded = FALSE
    /\ announced = {}
    /\ armed = TRUE
    /\ said = {}
    /\ upsets = 0

-----------------------------------------------------------------------------
(* The daemon. *)

\* A close completes an order block or an iceberg of a timeframe.
Found(tf, e) ==
    /\ e \notin found
    /\ found' = found \cup {e}
    /\ reported' = [reported EXCEPT ![tf] = @ \cup {e}]
    /\ UNCHANGED <<scan, subscribed, asked, matrices, link, clientVars, voiceVars, upsets>>

\* Price invalidates it, or it falls off the history or out of the ranking.
Retired(tf, e) ==
    /\ e \in reported[tf]
    /\ reported' = [reported EXCEPT ![tf] = @ \ {e}]
    /\ UNCHANGED <<found, scan, subscribed, asked, matrices, link, clientVars, voiceVars, upsets>>

\* recompute_loop takes the closed buckets of a timeframe somebody watches ...
StartRescan ==
    /\ scan = <<>>
    /\ subscribed # <<>>
    /\ scan' = <<subscribed[1], reported[subscribed[1]]>>
    /\ UNCHANGED <<reported, found, subscribed, asked, matrices, link, clientVars, voiceVars, upsets>>

\* ... and broadcasts the result to whoever watches it when it is there.
Rescanned ==
    /\ scan # <<>>
    /\ Len(matrices) < AudioWire
    /\ scan' = <<>>
    /\ matrices' = IF subscribed = <<scan[1]>>
               THEN Append(matrices, Matrix(scan[1], scan[2])) ELSE matrices
    /\ UNCHANGED <<reported, found, subscribed, asked, link, clientVars, voiceVars, upsets>>

\* A set_tf is handled: the catch-up's first frame carries both matrices.
Subscribe ==
    /\ link = "up"
    /\ asked # <<>>
    /\ Len(matrices) < AudioWire
    /\ subscribed' = <<Head(asked)>>
    /\ asked' = Tail(asked)
    /\ matrices' = Append(matrices, Matrix(Head(asked), reported[Head(asked)]))
    /\ UNCHANGED <<reported, found, scan, link, clientVars, voiceVars, upsets>>

-----------------------------------------------------------------------------
(* The connection. *)

\* request_timeframe clears the cache and queues the set_tf.
RequestTimeframe(queued, tf) ==
    /\ cached' = {}
    /\ asked' = Append(queued, tf)

\* run: connected, the window's timeframe is asked for again; requests not yet
\* written to the old socket go out first.
Connect ==
    /\ link = "down"
    /\ link' = "up"
    /\ \E sent \in 0..Len(asked) :
           RequestTimeframe(SubSeq(asked, sent + 1, Len(asked)), scale)
    /\ UNCHANGED <<daemonVars, subscribed, matrices, scale, voiceVars, upsets>>

\* The socket is lost with what was on it.
Drop ==
    /\ link' = "down"
    /\ matrices' = <<>>
    /\ subscribed' = <<>>

Disconnect ==
    /\ link # "down"
    /\ upsets < AudioBreaks
    /\ upsets' = upsets + 1
    /\ Drop
    /\ UNCHANGED <<daemonVars, asked, clientVars, voiceVars>>

\* A half-open socket: nothing arrives and recv never fails.
Freeze ==
    /\ link = "up"
    /\ upsets < AudioBreaks
    /\ upsets' = upsets + 1
    /\ link' = "frozen"
    /\ matrices' = <<>>
    /\ subscribed' = <<>>
    /\ UNCHANGED <<daemonVars, asked, clientVars, voiceVars>>

\* A planted fault: a matrix replaces the cache only while it is empty.
DeliverMatrix_FirstOnly ==
    /\ link = "up"
    /\ matrices # <<>>
    /\ matrices' = Tail(matrices)
    /\ cached' = IF Head(matrices).tf = scale /\ cached = {} THEN Head(matrices).events ELSE cached
    /\ UNCHANGED <<daemonVars, subscribed, asked, link, scale, voiceVars, upsets>>

\* _apply: a matrix of the window's timeframe replaces the cached ones.
DeliverMatrix ==
    /\ link = "up"
    /\ matrices # <<>>
    /\ matrices' = Tail(matrices)
    /\ cached' = IF Head(matrices).tf = scale THEN Head(matrices).events ELSE cached
    /\ UNCHANGED <<daemonVars, subscribed, asked, link, scale, voiceVars, upsets>>

-----------------------------------------------------------------------------
(* The window. *)

\* _announced_obs and _announced_icebergs emptied, _audio_seeded cleared.
Reseed ==
    /\ seeded' = FALSE
    /\ announced' = {}
    /\ UNCHANGED <<armed, said>>

\* _change_tf.
ChangeScale(tf) ==
    /\ tf # scale
    /\ upsets < AudioBreaks
    /\ upsets' = upsets + 1
    /\ scale' = tf
    /\ Reseed
    /\ RequestTimeframe(asked, tf)
    /\ UNCHANGED <<daemonVars, subscribed, matrices, link>>

\* _refresh: a live or frozen socket is shut down, whatever is cached stays.
RefreshFeed ==
    /\ upsets < AudioBreaks
    /\ upsets' = upsets + 1
    /\ Reseed
    /\ Drop
    /\ UNCHANGED <<daemonVars, asked, clientVars>>

\* A planted fault: only the order blocks are seeded.
Seed_ObsOnly == cached \cap Obs

\* What the first data leaves unspoken.
Seed == cached

\* _audio_announce in every frame; an event met while the feed is not armed is
\* announced all the same (speak drops it).
AnnounceFrame ==
    /\ IF seeded
       THEN /\ announced' = announced \cup cached
            /\ said' = IF armed THEN said \cup (cached \ announced) ELSE said
            /\ UNCHANGED seeded
       ELSE /\ cached # {}
            /\ announced' = Seed
            /\ seeded' = TRUE
            /\ UNCHANGED said
    /\ UNCHANGED <<daemonVars, subscribed, asked, matrices, link, clientVars, armed, upsets>>

\* The menu's Audio Feed switch.
ArmFeed ==
    /\ armed' = ~armed
    /\ UNCHANGED <<daemonVars, subscribed, asked, matrices, link, clientVars,
                   seeded, announced, said, upsets>>

AudioNext ==
    \/ \E tf \in Scales, e \in Events : Found(tf, e) \/ Retired(tf, e)
    \/ StartRescan \/ Rescanned \/ Subscribe
    \/ Connect \/ Disconnect \/ Freeze \/ DeliverMatrix
    \/ \E tf \in Scales : ChangeScale(tf)
    \/ RefreshFeed \/ AnnounceFrame \/ ArmFeed

AudioSpec == AudioInit /\ [][AudioNext]_audioVars

-----------------------------------------------------------------------------

\* The variables have their types, and nothing has been announced before the
\* window seeded (_audio_announce).
AudioTypeOK ==
    /\ reported \in [Scales -> SUBSET found] /\ found \subseteq Events
    /\ scan = <<>> \/ (scan[1] \in Scales /\ scan[2] \subseteq Events)
    /\ subscribed \in {<<>>} \cup {<<tf>> : tf \in Scales}
    /\ \A k \in DOMAIN asked : asked[k] \in Scales
    /\ Len(matrices) <= AudioWire
    /\ link \in {"up", "down", "frozen"}
    /\ scale \in Scales
    /\ cached \cup announced \cup said \subseteq Events
    /\ {seeded, armed} \subseteq BOOLEAN
    /\ upsets \in 0..AudioBreaks
    /\ ~seeded => announced = {}

\* What the daemon had found before the window opened and still reports is never
\* read out, on any timeframe, whatever is refreshed, reconnected or switched
\* ("Seeds silently on first data / tf-change so the history backlog is never read
\* out").  One that was retired may be: a rescan under way when a catch-up starts
\* arrives after it, with what the catch-up no longer had.
StandingBacklogNeverRead ==
    said \cap PastEvents \cap UNION {reported[tf] : tf \in Scales} = {}

\* The disturbances: the user's steps and the faults of the connection, and the
\* daemon finding or retiring an event.
Disturbed == upsets' # upsets \/ reported' # reported

\* When nothing disturbs the feed any more and the connection is not frozen,
\* every event of the window's timeframe has in the end been announced, or was
\* in the first data the window seeded from (_apply with _audio_announce).
LiveEventsAreAnnounced ==
    (<>[][~Disturbed]_audioVars /\ <>[](link # "frozen")) =>
        <>[](seeded => reported[scale] \subseteq announced)

\* The announced set is seeded before it is used, and the backlog stays silent.
BacklogStaysSilent == AudioTypeOK /\ StandingBacklogNeverRead
=============================================================================
