---------------------------- MODULE TerminalProofs ----------------------------
(***************************************************************************)
(* Proofs about five parts of the terminal: that the handles account for   *)
(* the tunnels, for any set of terminals and any number of launches; that  *)
(* the spoken alerts never read a backlog out, for any timeframes, events, *)
(* rescans and disturbances; that the drawing toolbar of any number of     *)
(* windows keeps its lists, the file and the edit dots together, for any   *)
(* drawings, shapes and cursor positions; that the selection's readout is  *)
(* that of its box, for any boxes, bucket volumes and trailing windows;    *)
(* and that the heat-map's time axis never runs backwards, nor starts      *)
(* before the Scan Start Time, and that an idle view is loaded from its    *)
(* left edge on, for any bands, spans, pixels and pulses.                  *)
(***************************************************************************)
EXTENDS SshTunnel, AudioFeed, DrawingTools, TerminalSelection, HeatmapView,
        FiniteSetTheorems, WellFoundedInduction, TLAPS

-----------------------------------------------------------------------------
(* The tunnels. *)

LaunchRecord == [app : TunnelApps, state : {"starting", "up", "idle", "dead"}]

Superseded(p) == \E q \in DOMAIN launches : q > p /\ launches[q].app = launches[p].app

(* What the teardown relies on: a live process is the one its terminal's   *)
(* handle names, or that terminal has launched again since.                *)
HandleOrSuperseded ==
    \A p \in DOMAIN launches :
        Alive(p) => handle[launches[p].app] = p \/ Superseded(p)

TunnelIInv == launches \in Seq(LaunchRecord) /\ TunnelTypeOK /\ HandleOrSuperseded

(* The program starts with no terminal and no process.                     *)
LEMMA InitTunnelIInv == TunnelInit => TunnelIInv
  BY DEF TunnelInit, TunnelIInv, TunnelTypeOK, HandleOrSuperseded, LaunchRecord

(* A launch, whether Popen starts a process or raises, supersedes what its *)
(* terminal launched before and takes the handle (ensure).                 *)
LEMMA LaunchKeepsTunnelIInv ==
  ASSUME TunnelIInv, NEW a \in TunnelApps, Launch(a), a \in running',
         running \subseteq running', running' \subseteq TunnelApps, served' = served
  PROVE  TunnelIInv'
<1> USE DEF TunnelIInv, TunnelTypeOK
<1> DEFINE n == Len(launches)
<1>1. PICK started \in BOOLEAN :
        /\ launches' = Append(launches, [app |-> a, state |-> IF started THEN "starting" ELSE "dead"])
        /\ handle' = [handle EXCEPT ![a] = IF started THEN n + 1 ELSE 0]
  BY DEF Launch
<1> DEFINE new == [app |-> a, state |-> IF started THEN "starting" ELSE "dead"]
<1>2. new \in LaunchRecord
  BY DEF LaunchRecord
<1>3. /\ launches' \in Seq(LaunchRecord) /\ Len(launches') = n + 1 /\ n \in Nat
      /\ DOMAIN launches' = 1..(n + 1) /\ DOMAIN launches = 1..n
      /\ \A p \in 1..n : launches'[p] = launches[p]
      /\ launches'[n + 1] = new
  BY <1>1, <1>2
<1>4. TunnelTypeOK'
  <2>1. handle' \in [TunnelApps -> 0..Len(launches')]
    BY <1>1, <1>3
  <2>2. \A p \in DOMAIN launches' : launches'[p] \in LaunchRecord
    BY <1>3
  <2>3. ASSUME NEW c \in TunnelApps, handle'[c] # 0
        PROVE  c \in running' /\ launches'[handle'[c]].app = c
    <3>1. CASE c = a
      BY <1>1, <1>3, <2>3, <3>1
    <3>2. CASE c # a
      BY <1>1, <1>3, <2>3, <3>2
    <3>3. QED BY <3>1, <3>2
  <2>4. QED BY <2>1, <2>2, <2>3 DEF LaunchRecord
<1>5. HandleOrSuperseded'
  <2> SUFFICES ASSUME NEW p \in 1..(n + 1), Alive(p)'
               PROVE  handle'[launches'[p].app] = p \/ Superseded(p)'
    BY <1>3 DEF HandleOrSuperseded
  <2>1. CASE p = n + 1
    BY <1>1, <1>3, <2>1 DEF Alive
  <2>2. CASE p # n + 1 /\ launches[p].app = a
    <3>1. p \in 1..n /\ launches'[p].app = a /\ launches'[n + 1].app = a
      BY <1>3, <2>2
    <3>2. n + 1 \in DOMAIN launches' /\ n + 1 > p
      BY <1>3, <3>1
    <3>3. QED BY <3>1, <3>2 DEF Superseded
  <2>3. CASE p # n + 1 /\ launches[p].app # a
    <3>1. p \in 1..n /\ Alive(p) /\ launches'[p] = launches[p]
      BY <1>3, <2>3 DEF Alive
    <3>2. CASE handle[launches[p].app] = p
      BY <1>1, <1>3, <2>3, <3>1, <3>2 DEF LaunchRecord
    <3>3. CASE Superseded(p)
      BY <1>3, <3>1, <3>3 DEF Superseded
    <3>4. QED BY <1>3, <3>1, <3>2, <3>3 DEF HandleOrSuperseded
  <2>4. QED BY <2>1, <2>2, <2>3
<1>6. QED BY <1>3, <1>4, <1>5

(* Processes that only change their state keep their places in the list.   *)
LEMMA SameLaunches ==
  ASSUME NEW old \in Seq(LaunchRecord), NEW R \in [DOMAIN old -> LaunchRecord]
  PROVE  R \in Seq(LaunchRecord) /\ Len(R) = Len(old) /\ DOMAIN R = DOMAIN old
<1>1. Len(old) \in Nat /\ DOMAIN old = 1..Len(old)
  OBVIOUS
<1>2. R \in [1..Len(old) -> LaunchRecord]
  BY <1>1
<1>3. R \in Seq(LaunchRecord)
  BY <1>1, <1>2
<1>4. QED BY <1>1, <1>2, <1>3

(* A change of the processes' states alone keeps the invariant when it     *)
(* revives none: the session comes up, or ends.                            *)
LEMMA StateKeepsTunnelIInv ==
  ASSUME TunnelIInv, NEW p \in DOMAIN launches, NEW st \in {"starting", "up", "idle", "dead"},
         Alive(p), launches' = [launches EXCEPT ![p].state = st],
         UNCHANGED <<running, handle, served>>
  PROVE  TunnelIInv'
<1> USE DEF TunnelIInv, TunnelTypeOK
<1>0. launches' \in [DOMAIN launches -> LaunchRecord]
  <2>1. \A q \in DOMAIN launches : launches[q] \in LaunchRecord
    BY DEF LaunchRecord
  <2>2. [launches[p] EXCEPT !.state = st] \in LaunchRecord
    BY <2>1 DEF LaunchRecord
  <2>3. launches \in [DOMAIN launches -> LaunchRecord]
    BY <2>1
  <2>4. QED BY <2>2, <2>3
<1>1. /\ launches' \in Seq(LaunchRecord) /\ Len(launches') = Len(launches)
      /\ DOMAIN launches' = DOMAIN launches
  BY <1>0, SameLaunches
<1>2. \A q \in DOMAIN launches :
        /\ launches'[q].app = launches[q].app
        /\ launches'[q] \in LaunchRecord
        /\ Alive(q)' => Alive(q)
  <2> SUFFICES ASSUME NEW q \in DOMAIN launches
               PROVE  /\ launches'[q].app = launches[q].app
                      /\ launches'[q] \in LaunchRecord
                      /\ Alive(q)' => Alive(q)
    OBVIOUS
  <2>1. launches[q] \in LaunchRecord
    BY DEF LaunchRecord
  <2>2. CASE q = p
    BY <2>1, <2>2 DEF Alive, LaunchRecord
  <2>3. CASE q # p
    BY <2>1, <2>3 DEF Alive
  <2>4. QED BY <2>2, <2>3
<1>3. TunnelTypeOK'
  BY <1>1, <1>2
<1>4. HandleOrSuperseded'
  BY <1>1, <1>2 DEF HandleOrSuperseded, Superseded
<1>5. QED BY <1>1, <1>3, <1>4

(* The teardown kills the process of the handle: what is left of its       *)
(* terminal alive had been superseded.                                     *)
LEMMA QuitKeepsTunnelIInv ==
  ASSUME TunnelIInv, NEW a \in TunnelApps, QuitApp(a)
  PROVE  TunnelIInv'
<1> USE DEF TunnelIInv, TunnelTypeOK, QuitApp
<1>0. launches' \in [DOMAIN launches -> LaunchRecord]
  <2>1. \A p \in DOMAIN launches : launches[p] \in LaunchRecord
    BY DEF LaunchRecord
  <2>2. \A p \in DOMAIN launches : [launches[p] EXCEPT !.state = "dead"] \in LaunchRecord
    BY <2>1 DEF LaunchRecord
  <2>3. QED BY <2>1, <2>2
<1>1. /\ launches' \in Seq(LaunchRecord) /\ Len(launches') = Len(launches)
      /\ DOMAIN launches' = DOMAIN launches
  BY <1>0, SameLaunches
<1>2. \A q \in DOMAIN launches :
        /\ launches'[q].app = launches[q].app
        /\ launches'[q] \in LaunchRecord
        /\ Alive(q)' => Alive(q) /\ q # handle[a]
  <2> SUFFICES ASSUME NEW q \in DOMAIN launches
               PROVE  /\ launches'[q].app = launches[q].app
                      /\ launches'[q] \in LaunchRecord
                      /\ Alive(q)' => Alive(q) /\ q # handle[a]
    OBVIOUS
  <2>1. launches[q] \in LaunchRecord
    BY DEF LaunchRecord
  <2>2. CASE q = handle[a]
    BY <2>1, <2>2 DEF Alive, LaunchRecord
  <2>3. CASE q # handle[a]
    BY <2>1, <2>3 DEF Alive
  <2>4. QED BY <2>2, <2>3
<1>3. TunnelTypeOK'
  BY <1>1, <1>2
<1>4. HandleOrSuperseded'
  <2> SUFFICES ASSUME NEW q \in DOMAIN launches, Alive(q)'
               PROVE  handle'[launches'[q].app] = q \/ Superseded(q)'
    BY <1>1 DEF HandleOrSuperseded
  <2>1. Alive(q) /\ q # handle[a] /\ launches'[q].app = launches[q].app
    BY <1>2
  <2>2. CASE Superseded(q)
    BY <1>1, <1>2, <2>1, <2>2 DEF Superseded
  <2>3. CASE handle[launches[q].app] = q
    BY <2>1, <2>3
  <2>4. QED BY <2>1, <2>2, <2>3 DEF HandleOrSuperseded
<1>5. QED BY <1>1, <1>3, <1>4

(* Every step keeps the invariant.                                         *)
LEMMA NextTunnelIInv == TunnelIInv /\ [TunnelNext]_tunnelVars => TunnelIInv'
<1> SUFFICES ASSUME TunnelIInv, [TunnelNext]_tunnelVars PROVE TunnelIInv'
  OBVIOUS
<1>1. CASE UNCHANGED tunnelVars
  BY <1>1 DEF TunnelIInv, TunnelTypeOK, HandleOrSuperseded, Superseded, Alive, tunnelVars
<1>2. ASSUME NEW a \in TunnelApps, StartApp(a) PROVE TunnelIInv'
  <2>1. CASE Launch(a)
    BY <1>2, <2>1, LaunchKeepsTunnelIInv DEF StartApp, TunnelIInv, TunnelTypeOK
  <2>2. CASE Reuse(a)
    BY <1>2, <2>2 DEF StartApp, Reuse, TunnelIInv, TunnelTypeOK, HandleOrSuperseded, Superseded, Alive
  <2>3. QED BY <1>2, <2>1, <2>2 DEF StartApp, EnsureTunnel
<1>3. ASSUME NEW a \in TunnelApps, RefreshTunnel(a) PROVE TunnelIInv'
  <2>1. CASE Launch(a)
    BY <1>3, <2>1, LaunchKeepsTunnelIInv DEF RefreshTunnel, TunnelIInv, TunnelTypeOK
  <2>2. CASE Reuse(a)
    BY <1>3, <2>2 DEF RefreshTunnel, Reuse, TunnelIInv, TunnelTypeOK, HandleOrSuperseded, Superseded, Alive
  <2>3. QED BY <1>3, <2>1, <2>2 DEF RefreshTunnel, EnsureTunnel
<1>4. ASSUME NEW a \in TunnelApps, QuitApp(a) PROVE TunnelIInv'
  BY <1>4, QuitKeepsTunnelIInv
<1>5. ASSUME NEW p \in DOMAIN launches, ComeUp(p) PROVE TunnelIInv'
  BY <1>5, StateKeepsTunnelIInv DEF ComeUp, Alive
<1>6. ASSUME NEW p \in DOMAIN launches, Die(p) PROVE TunnelIInv'
  BY <1>6, StateKeepsTunnelIInv DEF Die
<1>7. CASE DaemonStops
  BY <1>7 DEF DaemonStops, TunnelIInv, TunnelTypeOK, HandleOrSuperseded, Superseded, Alive
<1>8. QED
  BY <1>1, <1>2, <1>3, <1>4, <1>5, <1>6, <1>7 DEF TunnelNext

(* A process whose terminal has quit was not the one of the handle.        *)
LEMMA TunnelIInvAccounts == TunnelIInv => TunnelsAreAccounted
  BY DEF TunnelIInv, TunnelTypeOK, HandleOrSuperseded, Superseded, LaunchRecord,
         OnlySupersededTunnelsLeak, TunnelsAreAccounted

(* Whatever terminals start, refresh and quit, and whenever sessions come  *)
(* up and die, the handle accounts for every process of its terminal but   *)
(* the superseded ones, and no other outlives its terminal.                *)
THEOREM TunnelsHold == TunnelSpec => []TunnelsAreAccounted
  BY InitTunnelIInv, NextTunnelIInv, TunnelIInvAccounts, PTL DEF TunnelSpec

-----------------------------------------------------------------------------
(* The spoken alerts. *)

(* What the daemon had found of a timeframe before the window opened and   *)
(* still reports.                                                          *)
Standing(s) == reported[s] \cap Past[s]

(* A matrix of a timeframe was taken from its engine: it has what stands   *)
(* there, however late it arrives, and no other timeframe's past.          *)
IsTakenFrom(s, events) ==
    /\ events \subseteq Events
    /\ Standing(s) \subseteq events
    /\ \A other \in Scales : other # s => events \cap Past[other] = {}

(* The daemon: what stands was there from the start.                       *)
EngineIsSound ==
    /\ reported \in [Scales -> SUBSET found] /\ found \subseteq Events
    /\ \A s \in Scales : Past[s] \subseteq found
    /\ \A s, other \in Scales : other # s => reported[s] \cap Past[other] = {}
    /\ scan = <<>> \/ \E s \in Scales, events \in SUBSET Events :
           scan = <<s, events>> /\ IsTakenFrom(s, events)

(* The connection: matrices of the timeframes' engines.                    *)
MatrixRecord == [tf : Scales, events : SUBSET Events]

WireIsSound ==
    /\ subscribed = <<>> \/ \E s \in Scales : subscribed = <<s>>
    /\ asked \in Seq(Scales)
    /\ matrices \in Seq(MatrixRecord)
    /\ Len(matrices) <= AudioWire
    /\ \A k \in 1..Len(matrices) : IsTakenFrom(matrices[k].tf, matrices[k].events)
    /\ link \in {"up", "down", "frozen"}
    /\ upsets \in 0..AudioBreaks

(* The window: its cache is empty or a matrix of its timeframe, and once   *)
(* it has seeded, what stands there is announced.                          *)
WindowIsSound ==
    /\ scale \in Scales
    /\ cached \subseteq Events
    /\ cached = {} \/ IsTakenFrom(scale, cached)
    /\ seeded \in BOOLEAN
    /\ armed \in BOOLEAN
    /\ announced \subseteq Events
    /\ said \subseteq Events
    /\ ~seeded => announced = {}
    /\ seeded => Standing(scale) \subseteq announced

(* Nothing that stands has been said.                                      *)
NothingStandingSaid == \A s \in Scales : said \cap Standing(s) = {}

AudioIInv == EngineIsSound /\ WireIsSound /\ WindowIsSound /\ NothingStandingSaid

(* The past is every timeframe's past.                                     *)
LEMMA PastOfTheScales ==
  ASSUME NEW e
  PROVE  e \in PastEvents <=> \E s \in Scales : e \in Past[s]
BY DEF PastEvents

(* The window opens with what the daemon found before it, and shows none.  *)
LEMMA InitAudioIInv == AudioInit => AudioIInv
<1> SUFFICES ASSUME AudioInit PROVE AudioIInv
  OBVIOUS
<1> USE AudioAssumption DEF AudioInit
<1>1. \A s \in Scales : Past[s] \subseteq found
  BY PastOfTheScales
<1>2. \A s \in Scales : Past[s] \subseteq Events
  BY DEF Events
<1>3. found \subseteq Events
  BY <1>2, PastOfTheScales
<1>4. EngineIsSound
  <2>1. reported \in [Scales -> SUBSET found]
    BY <1>1
  <2>2. QED
    BY <1>1, <1>3, <2>1 DEF EngineIsSound
<1>5. WireIsSound
  BY DEF WireIsSound
<1>6. WindowIsSound
  BY DEF WindowIsSound
<1>7. QED
  BY <1>4, <1>5, <1>6 DEF AudioIInv, NothingStandingSaid

(* What a matrix knew, it still knows when less stands.                    *)
LEMMA LessStands ==
  ASSUME NEW s \in Scales, NEW events, IsTakenFrom(s, events),
         Standing(s)' \subseteq Standing(s)
  PROVE  IsTakenFrom(s, events)'
  BY DEF IsTakenFrom, Events

(* A step of the daemon's engine that adds nothing to what stands, and     *)
(* touches neither the wire nor the window, keeps the invariant.           *)
LEMMA EngineStepKeepsAudioIInv ==
  ASSUME AudioIInv,
         reported' \in [Scales -> SUBSET found'], found' \subseteq Events,
         found \subseteq found',
         \A s, other \in Scales : reported'[s] \cap Past[other] \subseteq reported[s],
         UNCHANGED <<scan, subscribed, asked, matrices, link, clientVars, voiceVars, upsets>>
  PROVE  AudioIInv'
<1> USE DEF clientVars, voiceVars
<1>0. EngineIsSound /\ WireIsSound /\ WindowIsSound /\ NothingStandingSaid
  BY DEF AudioIInv
<1>1. \A s \in Scales : Standing(s)' \subseteq Standing(s)
  BY DEF Standing
<1>2. \A s \in Scales : \A events :
          IsTakenFrom(s, events) => IsTakenFrom(s, events)'
  BY <1>1, LessStands
<1>3. EngineIsSound'
  <2>1. \A s, other \in Scales : other # s => reported'[s] \cap Past[other] = {}
    BY <1>0 DEF EngineIsSound
  <2>2. scan' = <<>> \/ \E s \in Scales, events \in SUBSET Events :
            scan' = <<s, events>> /\ IsTakenFrom(s, events)'
    <3>1. CASE scan = <<>>
      BY <3>1
    <3>2. CASE scan # <<>>
      <4>1. PICK s \in Scales, events \in SUBSET Events :
                scan = <<s, events>> /\ IsTakenFrom(s, events)
        BY <1>0, <3>2 DEF EngineIsSound
      <4>2. IsTakenFrom(s, events)'
        BY <1>2, <4>1
      <4>3. QED BY <4>1, <4>2
    <3>3. QED BY <3>1, <3>2
  <2>3. \A s \in Scales : Past[s] \subseteq found'
    BY <1>0 DEF EngineIsSound
  <2>4. QED
    BY <2>1, <2>2, <2>3 DEF EngineIsSound, Events
<1>4. WireIsSound'
  <2>1. \A k \in 1..Len(matrices) : matrices[k].tf \in Scales
    <3>1. \A k \in 1..Len(matrices) : matrices[k] \in MatrixRecord
      BY <1>0 DEF WireIsSound
    <3>2. QED BY <3>1 DEF MatrixRecord
  <2>2. (\A k \in 1..Len(matrices) : IsTakenFrom(matrices[k].tf, matrices[k].events))'
    BY <1>0, <1>2, <2>1 DEF WireIsSound
  <2>3. QED
    BY <1>0, <2>2 DEF WireIsSound, MatrixRecord, Events
<1>5. WindowIsSound'
  BY <1>0, <1>1, <1>2 DEF WindowIsSound, Events
<1>6. NothingStandingSaid'
  BY <1>0, <1>1 DEF NothingStandingSaid
<1>7. QED BY <1>3, <1>4, <1>5, <1>6 DEF AudioIInv

(* A step that leaves the engine and what has been said alone keeps the    *)
(* invariant when the wire and the window stay sound.                      *)
LEMMA WindowStepKeepsAudioIInv ==
  ASSUME AudioIInv, UNCHANGED <<reported, found, scan, said>>,
         WireIsSound', WindowIsSound'
  PROVE  AudioIInv'
<1>1. EngineIsSound'
  BY DEF AudioIInv, EngineIsSound, IsTakenFrom, Standing, Events
<1>2. QED
  BY <1>1 DEF AudioIInv, NothingStandingSaid, Standing

(* A wire that only loses matrices stays sound.                            *)
LEMMA EmptyWire ==
  ASSUME AudioIInv, matrices' = <<>>, subscribed' = <<>>, asked' = asked,
         link' \in {"up", "down", "frozen"}, upsets' \in 0..AudioBreaks,
         UNCHANGED reported
  PROVE  WireIsSound'
  BY AudioAssumption DEF AudioIInv, WireIsSound

(* A matrix sent joins the wire.                                           *)
LEMMA SentMatrix ==
  ASSUME AudioIInv, NEW s \in Scales, NEW events \in SUBSET Events,
         IsTakenFrom(s, events), Len(matrices) < AudioWire,
         matrices' = Append(matrices, Matrix(s, events)),
         UNCHANGED <<reported, link, upsets>>,
         subscribed' = <<>> \/ \E t \in Scales : subscribed' = <<t>>, asked' \in Seq(Scales)
  PROVE  WireIsSound'
<1> DEFINE n == Len(matrices)
<1>1. matrices \in Seq(MatrixRecord) /\ n \in Nat
  BY DEF AudioIInv, WireIsSound
<1>2. Matrix(s, events) \in MatrixRecord
  BY DEF Matrix, MatrixRecord
<1>3. /\ matrices' \in Seq(MatrixRecord)
      /\ Len(matrices') = n + 1
      /\ \A k \in 1..n : matrices'[k] = matrices[k]
      /\ matrices'[n + 1] = Matrix(s, events)
  BY <1>1, <1>2
<1>4. \A k \in 1..n : IsTakenFrom(matrices[k].tf, matrices[k].events)
  BY DEF AudioIInv, WireIsSound
<1>5. \A t, evs : IsTakenFrom(t, evs) => IsTakenFrom(t, evs)'
  BY DEF IsTakenFrom, Standing, Events
<1>6. ASSUME NEW k \in 1..(n + 1)
      PROVE  (IsTakenFrom(matrices[k].tf, matrices[k].events))'
  <2>1. CASE k = n + 1
    BY <1>3, <1>5, <2>1 DEF Matrix
  <2>2. CASE k # n + 1
    <3>1. k \in 1..n
      BY <1>1, <2>2
    <3>2. QED BY <1>3, <1>4, <1>5, <3>1
  <2>3. QED BY <2>1, <2>2
<1>7. Len(matrices') <= AudioWire
  BY <1>1, <1>3, AudioAssumption
<1>8. QED
  BY <1>3, <1>6, <1>7 DEF AudioIInv, WireIsSound, MatrixRecord, Events

(* Two facts of every state: the parts of the invariant, and that an       *)
(* untouched engine leaves what a matrix knows.                            *)
LEMMA AudioParts ==
  AudioIInv => EngineIsSound /\ WireIsSound /\ WindowIsSound /\ NothingStandingSaid
BY DEF AudioIInv

LEMMA SameEngine ==
  ASSUME UNCHANGED reported
  PROVE  /\ \A s, events : IsTakenFrom(s, events)' <=> IsTakenFrom(s, events)
         /\ \A s : Standing(s)' = Standing(s)
BY DEF IsTakenFrom, Standing, Events

(* The first matrix of the wire is an engine's, and so are the others.     *)
LEMMA FirstMatrix ==
  ASSUME AudioIInv, matrices # <<>>
  PROVE  /\ Head(matrices).tf \in Scales
         /\ IsTakenFrom(Head(matrices).tf, Head(matrices).events)
         /\ Tail(matrices) \in Seq(MatrixRecord)
         /\ Len(Tail(matrices)) <= AudioWire
         /\ \A k \in 1..Len(Tail(matrices)) :
                IsTakenFrom(Tail(matrices)[k].tf, Tail(matrices)[k].events)
<1>1. /\ matrices \in Seq(MatrixRecord) /\ Len(matrices) <= AudioWire
      /\ \A k \in 1..Len(matrices) : IsTakenFrom(matrices[k].tf, matrices[k].events)
  BY DEF AudioIInv, WireIsSound
<1>2. Head(matrices) = matrices[1] /\ 1 \in 1..Len(matrices) /\ Head(matrices) \in MatrixRecord
  BY <1>1
<1>3. /\ Tail(matrices) \in Seq(MatrixRecord) /\ Len(Tail(matrices)) = Len(matrices) - 1
      /\ Len(matrices) \in Nat
      /\ \A k \in 1..Len(Tail(matrices)) : k + 1 \in 1..Len(matrices) /\ Tail(matrices)[k] = matrices[k + 1]
  BY <1>1
<1>4. Len(Tail(matrices)) <= AudioWire
  BY <1>1, <1>3, AudioAssumption
<1>5. Head(matrices).tf \in Scales
  BY <1>2 DEF MatrixRecord
<1>6. QED BY <1>1, <1>2, <1>3, <1>4, <1>5

(* Every step of the daemon keeps the invariant: what is found is not of   *)
(* the past, a rescan takes the engine's events when it starts, and a      *)
(* catch-up takes them when it is sent.                                    *)
LEMMA DaemonStepKeepsAudioIInv ==
  ASSUME AudioIInv,
         \/ \E s \in Scales, e \in Events : Found(s, e) \/ Retired(s, e)
         \/ StartRescan \/ Rescanned \/ Subscribe
  PROVE  AudioIInv'
<1>0. EngineIsSound /\ WireIsSound /\ WindowIsSound /\ NothingStandingSaid
  BY AudioParts
<1>1. ASSUME NEW s \in Scales, NEW e \in Events, Found(s, e) PROVE AudioIInv'
  <2> USE <1>0, <1>1 DEF Found
  <2>1. reported' \in [Scales -> SUBSET found'] /\ found' \subseteq Events /\ found \subseteq found'
    BY DEF EngineIsSound
  <2>2. \A t, other \in Scales : reported'[t] \cap Past[other] \subseteq reported[t]
    BY DEF EngineIsSound
  <2>3. QED BY <2>1, <2>2, EngineStepKeepsAudioIInv
<1>2. ASSUME NEW s \in Scales, NEW e \in Events, Retired(s, e) PROVE AudioIInv'
  <2> USE <1>0, <1>2 DEF Retired
  <2>1. reported' \in [Scales -> SUBSET found'] /\ found' \subseteq Events /\ found \subseteq found'
    BY DEF EngineIsSound
  <2>2. \A t, other \in Scales : reported'[t] \cap Past[other] \subseteq reported[t]
    BY DEF EngineIsSound
  <2>3. QED BY <2>1, <2>2, EngineStepKeepsAudioIInv
<1>3. CASE StartRescan
  <2> USE <1>3 DEF StartRescan
  <2>1. PICK s \in Scales : subscribed = <<s>>
    BY <1>0 DEF WireIsSound
  <2>2. scan' = <<s, reported[s]>> /\ reported[s] \in SUBSET Events
    BY <1>0, <2>1 DEF EngineIsSound
  <2>3. IsTakenFrom(s, reported[s])
    BY <1>0, <2>2 DEF IsTakenFrom, Standing, EngineIsSound
  <2>4. EngineIsSound'
    BY <1>0, <2>2, <2>3, SameEngine DEF EngineIsSound, Events
  <2>5. WireIsSound' /\ WindowIsSound' /\ NothingStandingSaid'
    BY <1>0, SameEngine
       DEF WireIsSound, WindowIsSound, NothingStandingSaid, clientVars, voiceVars,
           MatrixRecord, Events
  <2>6. QED BY <2>4, <2>5 DEF AudioIInv
<1>4. CASE Rescanned
  <2> USE <1>4 DEF Rescanned
  <2>1. PICK s \in Scales, events \in SUBSET Events :
            scan = <<s, events>> /\ IsTakenFrom(s, events)
    BY <1>0 DEF EngineIsSound
  <2>2. scan[1] = s /\ scan[2] = events
    BY <2>1
  <2>3. WireIsSound'
    <3>1. CASE subscribed = <<s>>
      <4>1. asked' \in Seq(Scales) /\ (subscribed' = <<>> \/ \E t \in Scales : subscribed' = <<t>>)
        BY <3>1, <1>0 DEF WireIsSound
      <4>2. matrices' = Append(matrices, Matrix(s, events))
        BY <3>1, <2>2
      <4>3. QED BY <2>1, <4>1, <4>2, SentMatrix
    <3>2. CASE subscribed # <<s>>
      BY <1>0, <2>2, <3>2, SameEngine DEF WireIsSound, MatrixRecord, Events
    <3>3. QED BY <3>1, <3>2
  <2>4. EngineIsSound'
    BY <1>0, SameEngine DEF EngineIsSound, Events
  <2>5. WindowIsSound' /\ NothingStandingSaid'
    BY <1>0, SameEngine DEF WindowIsSound, NothingStandingSaid, clientVars, voiceVars, Events
  <2>6. QED BY <2>3, <2>4, <2>5 DEF AudioIInv
<1>5. CASE Subscribe
  <2> USE <1>5 DEF Subscribe
  <2> DEFINE s == Head(asked)
  <2>1. s \in Scales /\ Tail(asked) \in Seq(Scales)
    BY <1>0 DEF WireIsSound
  <2>2. reported[s] \in SUBSET Events /\ IsTakenFrom(s, reported[s])
    BY <1>0, <2>1 DEF IsTakenFrom, Standing, EngineIsSound
  <2>3. WireIsSound'
    <3>1. matrices' = Append(matrices, Matrix(s, reported[s]))
      OBVIOUS
    <3>2. asked' \in Seq(Scales) /\ \E t \in Scales : subscribed' = <<t>>
      BY <2>1
    <3> HIDE DEF s
    <3>3. QED BY <2>1, <2>2, <3>1, <3>2, SentMatrix
  <2>4. WindowIsSound'
    BY <1>0, SameEngine DEF WindowIsSound, clientVars, voiceVars, Events
  <2>5. QED
    BY <2>3, <2>4, WindowStepKeepsAudioIInv DEF voiceVars
<1>6. QED BY <1>1, <1>2, <1>3, <1>4, <1>5

(* Every step of the connection and of the window keeps the invariant: a   *)
(* matrix replaces the cache only for the window's timeframe, and a frame  *)
(* says what is cached and unannounced, so nothing that stands.            *)
LEMMA WindowStepsKeepAudioIInv ==
  ASSUME AudioIInv,
         \/ Connect \/ Disconnect \/ Freeze \/ DeliverMatrix
         \/ \E s \in Scales : ChangeScale(s)
         \/ RefreshFeed \/ AnnounceFrame \/ ArmFeed
  PROVE  AudioIInv'
<1>0. EngineIsSound /\ WireIsSound /\ WindowIsSound /\ NothingStandingSaid
  BY AudioParts
<1> USE DEF daemonVars, clientVars, voiceVars
<1>1. CASE Connect
  <2> USE <1>1 DEF Connect, RequestTimeframe
  <2>1. asked' \in Seq(Scales)
    <3>1. PICK sent \in 0..Len(asked) :
              asked' = Append(SubSeq(asked, sent + 1, Len(asked)), scale)
      OBVIOUS
    <3>2. asked \in Seq(Scales) /\ scale \in Scales
      BY <1>0 DEF WireIsSound, WindowIsSound
    <3>3. SubSeq(asked, sent + 1, Len(asked)) \in Seq(Scales)
      BY <3>2
    <3>4. QED BY <3>1, <3>2, <3>3
  <2>2. WireIsSound'
    BY <1>0, <2>1, SameEngine DEF WireIsSound, MatrixRecord, Events
  <2>3. cached' = {}
    OBVIOUS
  <2>4. WindowIsSound'
    BY <1>0, <2>3, SameEngine DEF WindowIsSound, Events
  <2>5. QED BY <2>2, <2>4, WindowStepKeepsAudioIInv
<1>2. CASE Disconnect
  <2> USE <1>2 DEF Disconnect, Drop
  <2>1. upsets' \in 0..AudioBreaks
    BY <1>0, AudioAssumption DEF WireIsSound
  <2>2. WireIsSound'
    BY <2>1, EmptyWire
  <2>3. WindowIsSound'
    BY <1>0, SameEngine DEF WindowIsSound, Events
  <2>4. QED BY <2>2, <2>3, WindowStepKeepsAudioIInv
<1>3. CASE Freeze
  <2> USE <1>3 DEF Freeze
  <2>1. upsets' \in 0..AudioBreaks
    BY <1>0, AudioAssumption DEF WireIsSound
  <2>2. WireIsSound'
    BY <2>1, EmptyWire
  <2>3. WindowIsSound'
    BY <1>0, SameEngine DEF WindowIsSound, Events
  <2>4. QED BY <2>2, <2>3, WindowStepKeepsAudioIInv
<1>4. CASE DeliverMatrix
  <2> USE <1>4 DEF DeliverMatrix
  <2>1. /\ matrices' \in Seq(MatrixRecord) /\ Len(matrices') <= AudioWire
        /\ (\A k \in 1..Len(matrices) : IsTakenFrom(matrices[k].tf, matrices[k].events))'
    BY FirstMatrix, SameEngine
  <2>2. WireIsSound'
    BY <1>0, <2>1 DEF WireIsSound, MatrixRecord, Events
  <2>3. IsTakenFrom(Head(matrices).tf, Head(matrices).events) /\ Head(matrices).events \subseteq Events
    BY FirstMatrix DEF IsTakenFrom
  <2>4. WindowIsSound'
    <3>1. CASE Head(matrices).tf = scale
      <4>1. cached' = Head(matrices).events /\ IsTakenFrom(scale, cached)'
        BY <2>3, <3>1, SameEngine
      <4>2. QED BY <1>0, <2>3, <4>1, SameEngine DEF WindowIsSound, Events
    <3>2. CASE Head(matrices).tf # scale
      BY <1>0, <3>2, SameEngine DEF WindowIsSound, Events
    <3>3. QED BY <3>1, <3>2
  <2>5. QED BY <2>2, <2>4, WindowStepKeepsAudioIInv
<1>5. ASSUME NEW s \in Scales, ChangeScale(s) PROVE AudioIInv'
  <2> USE <1>5 DEF ChangeScale, Reseed, RequestTimeframe
  <2>1. upsets' \in 0..AudioBreaks /\ asked' \in Seq(Scales)
    BY <1>0, AudioAssumption DEF WireIsSound
  <2>2. WireIsSound'
    BY <1>0, <2>1, SameEngine DEF WireIsSound, MatrixRecord, Events
  <2>3. WindowIsSound'
    BY <1>0 DEF WindowIsSound, Events
  <2>4. QED BY <2>2, <2>3, WindowStepKeepsAudioIInv
<1>6. CASE RefreshFeed
  <2> USE <1>6 DEF RefreshFeed, Reseed, Drop
  <2>1. upsets' \in 0..AudioBreaks
    BY <1>0, AudioAssumption DEF WireIsSound
  <2>2. WireIsSound'
    BY <2>1, EmptyWire
  <2>3. WindowIsSound'
    BY <1>0, SameEngine DEF WindowIsSound, Events
  <2>4. QED BY <2>2, <2>3, WindowStepKeepsAudioIInv
<1>7. CASE AnnounceFrame
  <2> USE <1>7 DEF AnnounceFrame, Seed
  <2>1. EngineIsSound' /\ WireIsSound'
    BY <1>0, SameEngine DEF EngineIsSound, WireIsSound, MatrixRecord, Events
  <2>2. WindowIsSound'
    <3>1. /\ announced' \subseteq Events /\ said' \subseteq Events /\ seeded' = TRUE
      BY <1>0 DEF WindowIsSound
    <3>2. Standing(scale) \subseteq announced'
      BY <1>0 DEF WindowIsSound, IsTakenFrom
    <3>3. QED BY <1>0, <3>1, <3>2, SameEngine DEF WindowIsSound, Events
  <2>3. NothingStandingSaid'
    <3> SUFFICES ASSUME NEW s \in Scales, NEW e \in said', e \in Standing(s)
                 PROVE  FALSE
      BY SameEngine DEF NothingStandingSaid
    <3>1. e \notin said
      BY <1>0 DEF NothingStandingSaid
    <3>2. seeded /\ e \in cached /\ e \notin announced
      BY <3>1
    <3>3. IsTakenFrom(scale, cached) /\ Standing(scale) \subseteq announced /\ scale \in Scales
      BY <1>0, <3>2 DEF WindowIsSound
    <3>4. CASE s = scale
      BY <3>2, <3>3, <3>4
    <3>5. CASE s # scale
      BY <3>2, <3>3, <3>5 DEF IsTakenFrom, Standing
    <3>6. QED BY <3>4, <3>5
  <2>4. QED BY <2>1, <2>2, <2>3 DEF AudioIInv
<1>8. CASE ArmFeed
  <2> USE <1>8 DEF ArmFeed
  <2>1. WireIsSound'
    BY <1>0, SameEngine DEF WireIsSound, MatrixRecord, Events
  <2>2. WindowIsSound'
    BY <1>0, SameEngine DEF WindowIsSound, Events
  <2>3. QED BY <2>1, <2>2, WindowStepKeepsAudioIInv
<1>9. QED BY <1>1, <1>2, <1>3, <1>4, <1>5, <1>6, <1>7, <1>8

(* Every step keeps the invariant.                                         *)
LEMMA NextAudioIInv == AudioIInv /\ [AudioNext]_audioVars => AudioIInv'
<1> SUFFICES ASSUME AudioIInv, [AudioNext]_audioVars PROVE AudioIInv'
  OBVIOUS
<1>1. CASE UNCHANGED audioVars
  BY <1>1, SameEngine
     DEF audioVars, AudioIInv, EngineIsSound, WireIsSound, WindowIsSound,
         NothingStandingSaid, MatrixRecord, Events
<1>2. CASE AudioNext
  BY <1>2, DaemonStepKeepsAudioIInv, WindowStepsKeepAudioIInv DEF AudioNext
<1>3. QED BY <1>1, <1>2

(* What has been said and is of the past of a timeframe does not stand     *)
(* there, nor anywhere else: an event belongs to one timeframe.            *)
LEMMA AudioIInvIsSilent == AudioIInv => BacklogStaysSilent
<1> SUFFICES ASSUME AudioIInv PROVE BacklogStaysSilent
  OBVIOUS
<1>0. EngineIsSound /\ WireIsSound /\ WindowIsSound /\ NothingStandingSaid
  BY AudioParts
<1>1. AudioTypeOK
  <2>1. scan = <<>> \/ (scan[1] \in Scales /\ scan[2] \subseteq Events)
    BY <1>0 DEF EngineIsSound
  <2>2. subscribed \in {<<>>} \cup {<<s>> : s \in Scales}
    BY <1>0 DEF WireIsSound
  <2>3. \A k \in DOMAIN asked : asked[k] \in Scales
    BY <1>0 DEF WireIsSound
  <2>4. QED
    BY <1>0, <2>1, <2>2, <2>3 DEF AudioTypeOK, EngineIsSound, WireIsSound, WindowIsSound
<1>2. StandingBacklogNeverRead
  <2> SUFFICES ASSUME NEW e \in said, e \in PastEvents,
                      NEW s \in Scales, e \in reported[s]
               PROVE  FALSE
    BY DEF StandingBacklogNeverRead
  <2>1. PICK t \in Scales : e \in Past[t]
    BY PastOfTheScales
  <2>2. t = s
    BY <1>0, <2>1 DEF EngineIsSound
  <2>3. QED
    BY <1>0, <2>1, <2>2 DEF NothingStandingSaid, Standing
<1>3. QED BY <1>1, <1>2 DEF BacklogStaysSilent

(* Whatever is found and retired, whenever rescans end and connections     *)
(* break or freeze, and whatever the user switches, refreshes or arms,     *)
(* what the daemon had found before the window opened and still reports is *)
(* never read out (_audio_announce).                                       *)
THEOREM BacklogHolds == AudioSpec => []BacklogStaysSilent
  BY InitAudioIInv, NextAudioIInv, AudioIInvIsSilent, PTL DEF AudioSpec

-----------------------------------------------------------------------------
(* The drawings: the geometry of the edit dots. *)

(* The dot under the mouse sits on the shape, an edge dot in one coordinate. *)
HeldSits(e, r) ==
    LET spot == Specs(KindOf[e.id], e.pts)[r]
    IN  /\ r \notin OneWay => e.dots[r] = spot
        /\ r \in OneWay => \E i \in 1..2 : spot[i] = e.dots[r][i]

(* Where a coordinate of a dot is. *)
Coord(pts, i, a) == IF i = 0 THEN pts[1][a] + pts[2][a] ELSE 2 * pts[i][a]

(* The roles of the dots of a shape are among those that can be dragged.    *)
LEMMA SpecRoles ==
  ASSUME NEW kind \in Kinds \ {"bracket"}
  PROVE  DOMAIN SpecOf[kind] \subseteq Roles
  BY DEF SpecOf, Kinds, TwoPoint, Roles, DragOf

(* A dot sits where its row of the table puts it (_specs).                  *)
LEMMA SpecsCoord ==
  ASSUME NEW kind, NEW pts, NEW r \in DOMAIN SpecOf[kind]
  PROVE  /\ DOMAIN Specs(kind, pts) = DOMAIN SpecOf[kind]
         /\ Specs(kind, pts)[r] = [a \in 1..2 |-> Coord(pts, SpecOf[kind][r][a], a)]
  BY DEF Specs, Coord

(* A point is the pair of its coordinates.                                  *)
LEMMA Pair ==
  ASSUME NEW f \in [1..2 -> Int] PROVE f = <<f[1], f[2]>>
  OBVIOUS

(* The dots of a shape, wherever it is, are points.                         *)
LEMMA SpecsType ==
  ASSUME NEW kind \in Kinds \ {"bracket"}, NEW pts \in Shapes
  PROVE  Specs(kind, pts) \in [DOMAIN SpecOf[kind] -> [1..2 -> Int]]
<1>1. \A k, a \in 1..2 : pts[k][a] \in Int
  BY DrawingAssumption DEF Shapes
<1>2. \A r \in DOMAIN SpecOf[kind] : \A a \in 1..2 : SpecOf[kind][r][a] \in 0..2
  BY DEF SpecOf, Kinds, TwoPoint
<1>3. \A i \in 0..2, a \in 1..2 : Coord(pts, i, a) \in Int
  BY <1>1 DEF Coord
<1>4. Specs(kind, pts) = [r \in DOMAIN SpecOf[kind] |-> [a \in 1..2 |-> Coord(pts, SpecOf[kind][r][a], a)]]
  BY DEF Specs, Coord
<1>5. QED BY <1>2, <1>3, <1>4

(* What a drag of a dot does to the points q of the shape: the coordinates  *)
(* the role writes are under the mouse, the others stay; the centre dot     *)
(* takes both points along.                                                 *)
Moves(pts, r, cx, cy, q) ==
    /\ r # "center" =>
         /\ q[1][1] = IF <<1, 1>> \in DragOf[r] THEN cx ELSE pts[1][1]
         /\ q[1][2] = IF <<1, 2>> \in DragOf[r] THEN cy ELSE pts[1][2]
         /\ q[2][1] = IF <<2, 1>> \in DragOf[r] THEN cx ELSE pts[2][1]
         /\ q[2][2] = IF <<2, 2>> \in DragOf[r] THEN cy ELSE pts[2][2]
    /\ r = "center" => /\ (2 * cx - pts[1][1] - pts[2][1]) % 2 = 0 => q[1][1] + q[2][1] = 2 * cx
                       /\ (2 * cy - pts[1][2] - pts[2][2]) % 2 = 0 => q[1][2] + q[2][2] = 2 * cy

(* The points of a shape after the drag of one dot, written out (_on_drag). *)
LEMMA DraggedPoints ==
  ASSUME NEW pts \in Shapes, NEW r \in Roles, NEW cx \in Int, NEW cy \in Int,
         NEW q, q = Dragged(pts, r, <<2 * cx, 2 * cy>>)
  PROVE  Moves(pts, r, cx, cy, q)
<1> DEFINE c == <<2 * cx, 2 * cy>>
<1>1. \A i, a \in 1..2 :
        q[i][a] = IF r = "center" THEN pts[i][a] + (c[a] - pts[1][a] - pts[2][a]) \div 2
                  ELSE IF <<i, a>> \in DragOf[r] THEN c[a] \div 2 ELSE pts[i][a]
  BY DEF Dragged
<1>2. c[1] = 2 * cx /\ c[2] = 2 * cy
  OBVIOUS
<1>3. \A n \in Int : (2 * n) \div 2 = n
  OBVIOUS
<1>4. \A i, a \in 1..2 : pts[i][a] \in Int
  BY DrawingAssumption DEF Shapes
<1>5. \A n, x, y \in Int : (2 * n - x - y) % 2 = 0 =>
          (x + (2 * n - x - y) \div 2) + (y + (2 * n - x - y) \div 2) = 2 * n
  OBVIOUS
<1> HIDE DEF c
<1>6. CASE r # "center"
  BY <1>1, <1>2, <1>3, <1>6 DEF Moves
<1>7. CASE r = "center"
  <2>1. /\ q[1][1] = pts[1][1] + (2 * cx - pts[1][1] - pts[2][1]) \div 2
        /\ q[2][1] = pts[2][1] + (2 * cx - pts[1][1] - pts[2][1]) \div 2
        /\ q[1][2] = pts[1][2] + (2 * cy - pts[1][2] - pts[2][2]) \div 2
        /\ q[2][2] = pts[2][2] + (2 * cy - pts[1][2] - pts[2][2]) \div 2
    BY <1>1, <1>2, <1>7
  <2>2. ASSUME NEW n \in Int, NEW x \in Int, NEW y \in Int,
               NEW x1, NEW y1, x1 = x + (2 * n - x - y) \div 2, y1 = y + (2 * n - x - y) \div 2
        PROVE  (2 * n - x - y) % 2 = 0 => x1 + y1 = 2 * n
    BY <2>2
  <2>3. pts[1][1] \in Int /\ pts[2][1] \in Int /\ pts[1][2] \in Int /\ pts[2][2] \in Int
    BY <1>4
  <2>4. PICK x, y, z, w, x1, y1, z1, w1 :
          /\ x = pts[1][1] /\ y = pts[2][1] /\ z = pts[1][2] /\ w = pts[2][2]
          /\ x1 = q[1][1] /\ y1 = q[2][1] /\ z1 = q[1][2] /\ w1 = q[2][2]
    OBVIOUS
  <2>5. /\ x \in Int /\ y \in Int /\ x1 = x + (2 * cx - x - y) \div 2 /\ y1 = y + (2 * cx - x - y) \div 2
    BY <2>1, <2>3, <2>4
  <2>6. /\ z \in Int /\ w \in Int /\ z1 = z + (2 * cy - z - w) \div 2 /\ w1 = w + (2 * cy - z - w) \div 2
    BY <2>1, <2>3, <2>4
  <2>7. (2 * cx - x - y) % 2 = 0 => x1 + y1 = 2 * cx
    BY <2>2, <2>5
  <2>8. (2 * cy - z - w) % 2 = 0 => z1 + w1 = 2 * cy
    BY <2>2, <2>6
  <2>9. QED BY <1>7, <2>4, <2>7, <2>8 DEF Moves
<1>8. QED BY <1>6, <1>7

(* A dragged dot takes its point of the shape along, an edge dot in one     *)
(* coordinate; the opposite dot stays where it was.                         *)
LEMMA DragSits ==
  ASSUME NEW kind \in Kinds \ {"bracket"}, NEW pts \in Shapes, NEW r \in DOMAIN SpecOf[kind],
         NEW cx \in Int, NEW cy \in Int, NEW q, q = Dragged(pts, r, <<2 * cx, 2 * cy>>),
         r = "center" => /\ (2 * cx - pts[1][1] - pts[2][1]) % 2 = 0
                         /\ (2 * cy - pts[1][2] - pts[2][2]) % 2 = 0
  PROVE  LET was == Specs(kind, pts)  moved == Specs(kind, q)  c == <<2 * cx, 2 * cy>>
         IN  /\ r \notin OneWay => moved[r] = c
             /\ r \in OneWay => \E i \in 1..2 : moved[r][i] = c[i] /\ moved[r][3 - i] = was[r][3 - i]
             /\ r \in DOMAIN Opposite => moved[Opposite[r]] = was[Opposite[r]]
<1>1. r \in Roles
  BY SpecRoles
<1>2. ASSUME NEW s \in DOMAIN SpecOf[kind], NEW i \in 0..2, NEW j \in 0..2, SpecOf[kind][s] = <<i, j>>
      PROVE  /\ Specs(kind, pts)[s] = <<Coord(pts, i, 1), Coord(pts, j, 2)>>
             /\ Specs(kind, q)[s] = <<Coord(q, i, 1), Coord(q, j, 2)>>
  <2>1. ASSUME NEW p, \A k, a \in 1..2 : p[k][a] \in Int
        PROVE  Specs(kind, p)[s] = <<Coord(p, i, 1), Coord(p, j, 2)>>
    <3>1. Specs(kind, p)[s] = [a \in 1..2 |-> Coord(p, SpecOf[kind][s][a], a)]
      BY SpecsCoord
    <3>2. SpecOf[kind][s][1] = i /\ SpecOf[kind][s][2] = j
      BY <1>2
    <3>3. Coord(p, i, 1) \in Int /\ Coord(p, j, 2) \in Int
      BY <2>1 DEF Coord
    <3>4. \A f : f = [a \in 1..2 |-> Coord(p, SpecOf[kind][s][a], a)] =>
            f \in [1..2 -> Int] /\ f[1] = Coord(p, i, 1) /\ f[2] = Coord(p, j, 2)
      <4>1. \A a \in 1..2 : Coord(p, SpecOf[kind][s][a], a) \in Int
        BY <3>2, <3>3
      <4>2. QED BY <3>2, <4>1
    <3>5. QED BY <3>1, <3>4, Pair
  <2>2. \A k, a \in 1..2 : pts[k][a] \in Int
    BY DrawingAssumption DEF Shapes
  <2>3. \A k, a \in 1..2 : q[k][a] \in Int
    BY <1>1, <2>2 DEF Dragged
  <2>4. QED BY <2>1, <2>2, <2>3
<1>3. Moves(pts, r, cx, cy, q)
  BY <1>1, DraggedPoints
<1>4. /\ r # "center" =>
           /\ q[1][1] = IF <<1, 1>> \in DragOf[r] THEN cx ELSE pts[1][1]
           /\ q[1][2] = IF <<1, 2>> \in DragOf[r] THEN cy ELSE pts[1][2]
           /\ q[2][1] = IF <<2, 1>> \in DragOf[r] THEN cx ELSE pts[2][1]
           /\ q[2][2] = IF <<2, 2>> \in DragOf[r] THEN cy ELSE pts[2][2]
      /\ r = "center" => q[1][1] + q[2][1] = 2 * cx /\ q[1][2] + q[2][2] = 2 * cy
  BY <1>3 DEF Moves
<1>5. pts[1][1] \in Int /\ pts[2][1] \in Int /\ pts[1][2] \in Int /\ pts[2][2] \in Int
  BY DrawingAssumption DEF Shapes
<1> DEFINE c == <<2 * cx, 2 * cy>>
           was == Specs(kind, pts)
           moved == Specs(kind, q)
<1>6. CASE kind = "rect"
  <2>0. SpecOf[kind] = [c_tl |-> <<1, 1>>, c_tr |-> <<2, 1>>, c_bl |-> <<1, 2>>, c_br |-> <<2, 2>>,
                      e_t |-> <<0, 1>>, e_b |-> <<0, 2>>, e_l |-> <<1, 0>>, e_r |-> <<2, 0>>]
    BY <1>6 DEF SpecOf
  <2>1. DOMAIN SpecOf[kind] = {"c_tl", "c_tr", "c_bl", "c_br", "e_t", "e_b", "e_l", "e_r"}
    BY <2>0
  <2>2. /\ was["c_tl"] = <<2 * pts[1][1], 2 * pts[1][2]>>
        /\ moved["c_tl"] = <<2 * q[1][1], 2 * q[1][2]>>
    <3>1. SpecOf[kind]["c_tl"] = <<1, 1>>
      BY <2>0
    <3>2. "c_tl" \in DOMAIN SpecOf[kind]
      BY <2>1
    <3>3. /\ was["c_tl"] = <<Coord(pts, 1, 1), Coord(pts, 1, 2)>>
          /\ moved["c_tl"] = <<Coord(q, 1, 1), Coord(q, 1, 2)>>
      BY <1>2, <3>1, <3>2
    <3>4. QED BY <3>3 DEF Coord
  <2>3. /\ was["c_tr"] = <<2 * pts[2][1], 2 * pts[1][2]>>
        /\ moved["c_tr"] = <<2 * q[2][1], 2 * q[1][2]>>
    <3>1. SpecOf[kind]["c_tr"] = <<2, 1>>
      BY <2>0
    <3>2. "c_tr" \in DOMAIN SpecOf[kind]
      BY <2>1
    <3>3. /\ was["c_tr"] = <<Coord(pts, 2, 1), Coord(pts, 1, 2)>>
          /\ moved["c_tr"] = <<Coord(q, 2, 1), Coord(q, 1, 2)>>
      BY <1>2, <3>1, <3>2
    <3>4. QED BY <3>3 DEF Coord
  <2>4. /\ was["c_bl"] = <<2 * pts[1][1], 2 * pts[2][2]>>
        /\ moved["c_bl"] = <<2 * q[1][1], 2 * q[2][2]>>
    <3>1. SpecOf[kind]["c_bl"] = <<1, 2>>
      BY <2>0
    <3>2. "c_bl" \in DOMAIN SpecOf[kind]
      BY <2>1
    <3>3. /\ was["c_bl"] = <<Coord(pts, 1, 1), Coord(pts, 2, 2)>>
          /\ moved["c_bl"] = <<Coord(q, 1, 1), Coord(q, 2, 2)>>
      BY <1>2, <3>1, <3>2
    <3>4. QED BY <3>3 DEF Coord
  <2>5. /\ was["c_br"] = <<2 * pts[2][1], 2 * pts[2][2]>>
        /\ moved["c_br"] = <<2 * q[2][1], 2 * q[2][2]>>
    <3>1. SpecOf[kind]["c_br"] = <<2, 2>>
      BY <2>0
    <3>2. "c_br" \in DOMAIN SpecOf[kind]
      BY <2>1
    <3>3. /\ was["c_br"] = <<Coord(pts, 2, 1), Coord(pts, 2, 2)>>
          /\ moved["c_br"] = <<Coord(q, 2, 1), Coord(q, 2, 2)>>
      BY <1>2, <3>1, <3>2
    <3>4. QED BY <3>3 DEF Coord
  <2>6. /\ was["e_t"] = <<pts[1][1] + pts[2][1], 2 * pts[1][2]>>
        /\ moved["e_t"] = <<q[1][1] + q[2][1], 2 * q[1][2]>>
    <3>1. SpecOf[kind]["e_t"] = <<0, 1>>
      BY <2>0
    <3>2. "e_t" \in DOMAIN SpecOf[kind]
      BY <2>1
    <3>3. /\ was["e_t"] = <<Coord(pts, 0, 1), Coord(pts, 1, 2)>>
          /\ moved["e_t"] = <<Coord(q, 0, 1), Coord(q, 1, 2)>>
      BY <1>2, <3>1, <3>2
    <3>4. QED BY <3>3 DEF Coord
  <2>7. /\ was["e_b"] = <<pts[1][1] + pts[2][1], 2 * pts[2][2]>>
        /\ moved["e_b"] = <<q[1][1] + q[2][1], 2 * q[2][2]>>
    <3>1. SpecOf[kind]["e_b"] = <<0, 2>>
      BY <2>0
    <3>2. "e_b" \in DOMAIN SpecOf[kind]
      BY <2>1
    <3>3. /\ was["e_b"] = <<Coord(pts, 0, 1), Coord(pts, 2, 2)>>
          /\ moved["e_b"] = <<Coord(q, 0, 1), Coord(q, 2, 2)>>
      BY <1>2, <3>1, <3>2
    <3>4. QED BY <3>3 DEF Coord
  <2>8. /\ was["e_l"] = <<2 * pts[1][1], pts[1][2] + pts[2][2]>>
        /\ moved["e_l"] = <<2 * q[1][1], q[1][2] + q[2][2]>>
    <3>1. SpecOf[kind]["e_l"] = <<1, 0>>
      BY <2>0
    <3>2. "e_l" \in DOMAIN SpecOf[kind]
      BY <2>1
    <3>3. /\ was["e_l"] = <<Coord(pts, 1, 1), Coord(pts, 0, 2)>>
          /\ moved["e_l"] = <<Coord(q, 1, 1), Coord(q, 0, 2)>>
      BY <1>2, <3>1, <3>2
    <3>4. QED BY <3>3 DEF Coord
  <2>9. /\ was["e_r"] = <<2 * pts[2][1], pts[1][2] + pts[2][2]>>
        /\ moved["e_r"] = <<2 * q[2][1], q[1][2] + q[2][2]>>
    <3>1. SpecOf[kind]["e_r"] = <<2, 0>>
      BY <2>0
    <3>2. "e_r" \in DOMAIN SpecOf[kind]
      BY <2>1
    <3>3. /\ was["e_r"] = <<Coord(pts, 2, 1), Coord(pts, 0, 2)>>
          /\ moved["e_r"] = <<Coord(q, 2, 1), Coord(q, 0, 2)>>
      BY <1>2, <3>1, <3>2
    <3>4. QED BY <3>3 DEF Coord
  <2>10. CASE r = "c_tl"
    <3>0. DragOf[r] = {<<1, 1>>, <<1, 2>>} /\ r # "center"
      BY <2>10 DEF DragOf
    <3>4. /\ <<1, 1>> \in DragOf[r]
          /\ <<1, 2>> \in DragOf[r]
          /\ <<2, 1>> \notin DragOf[r]
          /\ <<2, 2>> \notin DragOf[r]
      BY <3>0
    <3>1. q[1][1] = cx /\ q[1][2] = cy /\ q[2][1] = pts[2][1] /\ q[2][2] = pts[2][2]
      BY <1>4, <3>0, <3>4
    <3>2. r \notin OneWay /\ Opposite[r] = "c_br"
      BY <2>10 DEF OneWay, Opposite
    <3>3. QED BY <1>5, <2>2, <2>5, <2>10, <3>1, <3>2
  <2>11. CASE r = "c_tr"
    <3>0. DragOf[r] = {<<2, 1>>, <<1, 2>>} /\ r # "center"
      BY <2>11 DEF DragOf
    <3>4. /\ <<1, 1>> \notin DragOf[r]
          /\ <<1, 2>> \in DragOf[r]
          /\ <<2, 1>> \in DragOf[r]
          /\ <<2, 2>> \notin DragOf[r]
      BY <3>0
    <3>1. q[1][1] = pts[1][1] /\ q[1][2] = cy /\ q[2][1] = cx /\ q[2][2] = pts[2][2]
      BY <1>4, <3>0, <3>4
    <3>2. r \notin OneWay /\ Opposite[r] = "c_bl"
      BY <2>11 DEF OneWay, Opposite
    <3>3. QED BY <1>5, <2>3, <2>4, <2>11, <3>1, <3>2
  <2>12. CASE r = "c_bl"
    <3>0. DragOf[r] = {<<1, 1>>, <<2, 2>>} /\ r # "center"
      BY <2>12 DEF DragOf
    <3>4. /\ <<1, 1>> \in DragOf[r]
          /\ <<1, 2>> \notin DragOf[r]
          /\ <<2, 1>> \notin DragOf[r]
          /\ <<2, 2>> \in DragOf[r]
      BY <3>0
    <3>1. q[1][1] = cx /\ q[1][2] = pts[1][2] /\ q[2][1] = pts[2][1] /\ q[2][2] = cy
      BY <1>4, <3>0, <3>4
    <3>2. r \notin OneWay /\ Opposite[r] = "c_tr"
      BY <2>12 DEF OneWay, Opposite
    <3>3. QED BY <1>5, <2>4, <2>3, <2>12, <3>1, <3>2
  <2>13. CASE r = "c_br"
    <3>0. DragOf[r] = {<<2, 1>>, <<2, 2>>} /\ r # "center"
      BY <2>13 DEF DragOf
    <3>4. /\ <<1, 1>> \notin DragOf[r]
          /\ <<1, 2>> \notin DragOf[r]
          /\ <<2, 1>> \in DragOf[r]
          /\ <<2, 2>> \in DragOf[r]
      BY <3>0
    <3>1. q[1][1] = pts[1][1] /\ q[1][2] = pts[1][2] /\ q[2][1] = cx /\ q[2][2] = cy
      BY <1>4, <3>0, <3>4
    <3>2. r \notin OneWay /\ Opposite[r] = "c_tl"
      BY <2>13 DEF OneWay, Opposite
    <3>3. QED BY <1>5, <2>5, <2>2, <2>13, <3>1, <3>2
  <2>14. CASE r = "e_t"
    <3>0. DragOf[r] = {<<1, 2>>} /\ r # "center"
      BY <2>14 DEF DragOf
    <3>4. /\ <<1, 1>> \notin DragOf[r]
          /\ <<1, 2>> \in DragOf[r]
          /\ <<2, 1>> \notin DragOf[r]
          /\ <<2, 2>> \notin DragOf[r]
      BY <3>0
    <3>1. q[1][1] = pts[1][1] /\ q[1][2] = cy /\ q[2][1] = pts[2][1] /\ q[2][2] = pts[2][2]
      BY <1>4, <3>0, <3>4
    <3>2. r \in OneWay /\ Opposite[r] = "e_b"
      BY <2>14 DEF OneWay, Opposite
    <3>3. QED BY <1>5, <2>6, <2>7, <2>14, <3>1, <3>2
  <2>15. CASE r = "e_b"
    <3>0. DragOf[r] = {<<2, 2>>} /\ r # "center"
      BY <2>15 DEF DragOf
    <3>4. /\ <<1, 1>> \notin DragOf[r]
          /\ <<1, 2>> \notin DragOf[r]
          /\ <<2, 1>> \notin DragOf[r]
          /\ <<2, 2>> \in DragOf[r]
      BY <3>0
    <3>1. q[1][1] = pts[1][1] /\ q[1][2] = pts[1][2] /\ q[2][1] = pts[2][1] /\ q[2][2] = cy
      BY <1>4, <3>0, <3>4
    <3>2. r \in OneWay /\ Opposite[r] = "e_t"
      BY <2>15 DEF OneWay, Opposite
    <3>3. QED BY <1>5, <2>7, <2>6, <2>15, <3>1, <3>2
  <2>16. CASE r = "e_l"
    <3>0. DragOf[r] = {<<1, 1>>} /\ r # "center"
      BY <2>16 DEF DragOf
    <3>4. /\ <<1, 1>> \in DragOf[r]
          /\ <<1, 2>> \notin DragOf[r]
          /\ <<2, 1>> \notin DragOf[r]
          /\ <<2, 2>> \notin DragOf[r]
      BY <3>0
    <3>1. q[1][1] = cx /\ q[1][2] = pts[1][2] /\ q[2][1] = pts[2][1] /\ q[2][2] = pts[2][2]
      BY <1>4, <3>0, <3>4
    <3>2. r \in OneWay /\ Opposite[r] = "e_r"
      BY <2>16 DEF OneWay, Opposite
    <3>3. QED BY <1>5, <2>8, <2>9, <2>16, <3>1, <3>2
  <2>17. CASE r = "e_r"
    <3>0. DragOf[r] = {<<2, 1>>} /\ r # "center"
      BY <2>17 DEF DragOf
    <3>4. /\ <<1, 1>> \notin DragOf[r]
          /\ <<1, 2>> \notin DragOf[r]
          /\ <<2, 1>> \in DragOf[r]
          /\ <<2, 2>> \notin DragOf[r]
      BY <3>0
    <3>1. q[1][1] = pts[1][1] /\ q[1][2] = pts[1][2] /\ q[2][1] = cx /\ q[2][2] = pts[2][2]
      BY <1>4, <3>0, <3>4
    <3>2. r \in OneWay /\ Opposite[r] = "e_l"
      BY <2>17 DEF OneWay, Opposite
    <3>3. QED BY <1>5, <2>9, <2>8, <2>17, <3>1, <3>2
  <2>18. QED BY <2>1, <2>10, <2>11, <2>12, <2>13, <2>14, <2>15, <2>16, <2>17
<1>7. CASE kind = "ellipse"
  <2>0. SpecOf[kind] = [center |-> <<0, 0>>, corner |-> <<2, 2>>]
    BY <1>7 DEF SpecOf
  <2>1. DOMAIN SpecOf[kind] = {"center", "corner"}
    BY <2>0
  <2>2. /\ was["center"] = <<pts[1][1] + pts[2][1], pts[1][2] + pts[2][2]>>
        /\ moved["center"] = <<q[1][1] + q[2][1], q[1][2] + q[2][2]>>
    <3>1. SpecOf[kind]["center"] = <<0, 0>>
      BY <2>0
    <3>2. "center" \in DOMAIN SpecOf[kind]
      BY <2>1
    <3>3. /\ was["center"] = <<Coord(pts, 0, 1), Coord(pts, 0, 2)>>
          /\ moved["center"] = <<Coord(q, 0, 1), Coord(q, 0, 2)>>
      BY <1>2, <3>1, <3>2
    <3>4. QED BY <3>3 DEF Coord
  <2>3. /\ was["corner"] = <<2 * pts[2][1], 2 * pts[2][2]>>
        /\ moved["corner"] = <<2 * q[2][1], 2 * q[2][2]>>
    <3>1. SpecOf[kind]["corner"] = <<2, 2>>
      BY <2>0
    <3>2. "corner" \in DOMAIN SpecOf[kind]
      BY <2>1
    <3>3. /\ was["corner"] = <<Coord(pts, 2, 1), Coord(pts, 2, 2)>>
          /\ moved["corner"] = <<Coord(q, 2, 1), Coord(q, 2, 2)>>
      BY <1>2, <3>1, <3>2
    <3>4. QED BY <3>3 DEF Coord
  <2>4. CASE r = "center"
    <3>1. q[1][1] + q[2][1] = 2 * cx /\ q[1][2] + q[2][2] = 2 * cy
      BY <1>4, <2>4
    <3>2. r \notin OneWay /\ r \notin DOMAIN Opposite
      BY <2>4 DEF OneWay, Opposite
    <3>3. QED BY <1>5, <2>2, <2>4, <3>1, <3>2
  <2>5. CASE r = "corner"
    <3>0. DragOf[r] = {<<2, 1>>, <<2, 2>>} /\ r # "center"
      BY <2>5 DEF DragOf
    <3>4. /\ <<1, 1>> \notin DragOf[r]
          /\ <<1, 2>> \notin DragOf[r]
          /\ <<2, 1>> \in DragOf[r]
          /\ <<2, 2>> \in DragOf[r]
      BY <3>0
    <3>1. q[1][1] = pts[1][1] /\ q[1][2] = pts[1][2] /\ q[2][1] = cx /\ q[2][2] = cy
      BY <1>4, <3>0, <3>4
    <3>2. r \notin OneWay /\ r \notin DOMAIN Opposite
      BY <2>5 DEF OneWay, Opposite
    <3>3. QED BY <1>5, <2>3, <2>5, <3>1, <3>2
  <2>6. QED BY <2>1, <2>4, <2>5
<1>8. CASE kind = "line"
  <2>0. SpecOf[kind] = [p0 |-> <<1, 1>>, p1 |-> <<2, 2>>]
    BY <1>8 DEF SpecOf
  <2>1. DOMAIN SpecOf[kind] = {"p0", "p1"}
    BY <2>0
  <2>2. /\ was["p0"] = <<2 * pts[1][1], 2 * pts[1][2]>>
        /\ moved["p0"] = <<2 * q[1][1], 2 * q[1][2]>>
    <3>1. SpecOf[kind]["p0"] = <<1, 1>>
      BY <2>0
    <3>2. "p0" \in DOMAIN SpecOf[kind]
      BY <2>1
    <3>3. /\ was["p0"] = <<Coord(pts, 1, 1), Coord(pts, 1, 2)>>
          /\ moved["p0"] = <<Coord(q, 1, 1), Coord(q, 1, 2)>>
      BY <1>2, <3>1, <3>2
    <3>4. QED BY <3>3 DEF Coord
  <2>3. /\ was["p1"] = <<2 * pts[2][1], 2 * pts[2][2]>>
        /\ moved["p1"] = <<2 * q[2][1], 2 * q[2][2]>>
    <3>1. SpecOf[kind]["p1"] = <<2, 2>>
      BY <2>0
    <3>2. "p1" \in DOMAIN SpecOf[kind]
      BY <2>1
    <3>3. /\ was["p1"] = <<Coord(pts, 2, 1), Coord(pts, 2, 2)>>
          /\ moved["p1"] = <<Coord(q, 2, 1), Coord(q, 2, 2)>>
      BY <1>2, <3>1, <3>2
    <3>4. QED BY <3>3 DEF Coord
  <2>4. CASE r = "p0"
    <3>0. DragOf[r] = {<<1, 1>>, <<1, 2>>} /\ r # "center"
      BY <2>4 DEF DragOf
    <3>4. /\ <<1, 1>> \in DragOf[r]
          /\ <<1, 2>> \in DragOf[r]
          /\ <<2, 1>> \notin DragOf[r]
          /\ <<2, 2>> \notin DragOf[r]
      BY <3>0
    <3>1. q[1][1] = cx /\ q[1][2] = cy /\ q[2][1] = pts[2][1] /\ q[2][2] = pts[2][2]
      BY <1>4, <3>0, <3>4
    <3>2. r \notin OneWay /\ Opposite[r] = "p1"
      BY <2>4 DEF OneWay, Opposite
    <3>3. QED BY <1>5, <2>2, <2>3, <2>4, <3>1, <3>2
  <2>5. CASE r = "p1"
    <3>0. DragOf[r] = {<<2, 1>>, <<2, 2>>} /\ r # "center"
      BY <2>5 DEF DragOf
    <3>4. /\ <<1, 1>> \notin DragOf[r]
          /\ <<1, 2>> \notin DragOf[r]
          /\ <<2, 1>> \in DragOf[r]
          /\ <<2, 2>> \in DragOf[r]
      BY <3>0
    <3>1. q[1][1] = pts[1][1] /\ q[1][2] = pts[1][2] /\ q[2][1] = cx /\ q[2][2] = cy
      BY <1>4, <3>0, <3>4
    <3>2. r \notin OneWay /\ Opposite[r] = "p0"
      BY <2>5 DEF OneWay, Opposite
    <3>3. QED BY <1>5, <2>3, <2>2, <2>5, <3>1, <3>2
  <2>6. QED BY <2>1, <2>4, <2>5
<1>9. CASE kind = "hline"
  <2>0. SpecOf[kind] = [hline |-> <<0, 1>>]
    BY <1>9 DEF SpecOf
  <2>1. DOMAIN SpecOf[kind] = {"hline"}
    BY <2>0
  <2>2. /\ was["hline"] = <<pts[1][1] + pts[2][1], 2 * pts[1][2]>>
        /\ moved["hline"] = <<q[1][1] + q[2][1], 2 * q[1][2]>>
    <3>1. SpecOf[kind]["hline"] = <<0, 1>>
      BY <2>0
    <3>2. "hline" \in DOMAIN SpecOf[kind]
      BY <2>1
    <3>3. /\ was["hline"] = <<Coord(pts, 0, 1), Coord(pts, 1, 2)>>
          /\ moved["hline"] = <<Coord(q, 0, 1), Coord(q, 1, 2)>>
      BY <1>2, <3>1, <3>2
    <3>4. QED BY <3>3 DEF Coord
  <2>3. CASE r = "hline"
    <3>0. DragOf[r] = {<<1, 2>>} /\ r # "center"
      BY <2>3 DEF DragOf
    <3>4. /\ <<1, 1>> \notin DragOf[r]
          /\ <<1, 2>> \in DragOf[r]
          /\ <<2, 1>> \notin DragOf[r]
          /\ <<2, 2>> \notin DragOf[r]
      BY <3>0
    <3>1. q[1][1] = pts[1][1] /\ q[1][2] = cy /\ q[2][1] = pts[2][1] /\ q[2][2] = pts[2][2]
      BY <1>4, <3>0, <3>4
    <3>2. r \in OneWay /\ r \notin DOMAIN Opposite
      BY <2>3 DEF OneWay, Opposite
    <3>3. QED BY <1>5, <2>2, <2>3, <3>1, <3>2
  <2>4. QED BY <2>1, <2>3
<1>10. CASE kind = "vline"
  <2>0. SpecOf[kind] = [vline |-> <<1, 0>>]
    BY <1>10 DEF SpecOf
  <2>1. DOMAIN SpecOf[kind] = {"vline"}
    BY <2>0
  <2>2. /\ was["vline"] = <<2 * pts[1][1], pts[1][2] + pts[2][2]>>
        /\ moved["vline"] = <<2 * q[1][1], q[1][2] + q[2][2]>>
    <3>1. SpecOf[kind]["vline"] = <<1, 0>>
      BY <2>0
    <3>2. "vline" \in DOMAIN SpecOf[kind]
      BY <2>1
    <3>3. /\ was["vline"] = <<Coord(pts, 1, 1), Coord(pts, 0, 2)>>
          /\ moved["vline"] = <<Coord(q, 1, 1), Coord(q, 0, 2)>>
      BY <1>2, <3>1, <3>2
    <3>4. QED BY <3>3 DEF Coord
  <2>3. CASE r = "vline"
    <3>0. DragOf[r] = {<<1, 1>>} /\ r # "center"
      BY <2>3 DEF DragOf
    <3>4. /\ <<1, 1>> \in DragOf[r]
          /\ <<1, 2>> \notin DragOf[r]
          /\ <<2, 1>> \notin DragOf[r]
          /\ <<2, 2>> \notin DragOf[r]
      BY <3>0
    <3>1. q[1][1] = cx /\ q[1][2] = pts[1][2] /\ q[2][1] = pts[2][1] /\ q[2][2] = pts[2][2]
      BY <1>4, <3>0, <3>4
    <3>2. r \in OneWay /\ r \notin DOMAIN Opposite
      BY <2>3 DEF OneWay, Opposite
    <3>3. QED BY <1>5, <2>2, <2>3, <3>1, <3>2
  <2>4. QED BY <2>1, <2>3
<1>11. QED BY <1>6, <1>7, <1>8, <1>9, <1>10 DEF Kinds, TwoPoint

-----------------------------------------------------------------------------
(* One window *)

WindowStates ==
    [phase : {"closed", "loading", "open"}, canvas : BOOLEAN, locked : BOOLEAN, index : BOOLEAN,
     tool : Tools, own : Looks, todo : Looks, idx : SUBSET Drawings, live : BOOLEAN, sel : BOOLEAN,
     edit : Edits \cup {None}, held : Roles \cup {None}, panel : Drawings \cup {None}]

(* The dots are those of a drawing of the window and sit on it.             *)
EditFits(x) ==
    x.edit # None =>
      /\ x.edit.id \in Holds(x) \ Brackets
      /\ DOMAIN x.edit.dots = DOMAIN SpecOf[KindOf[x.edit.id]]
      /\ \A r \in DOMAIN x.edit.dots \ {x.held} :
            x.edit.dots[r] = Specs(KindOf[x.edit.id], x.edit.pts)[r]
      /\ x.held # None => x.held \in DOMAIN x.edit.dots /\ HeldSits(x.edit, x.held)

(* The lists are apart, and what is written to the file came from it.       *)
ListsFit(x) ==
    /\ DOMAIN x.own \cap x.idx = {} /\ DOMAIN x.own \subseteq Stored
    /\ DOMAIN x.todo \subseteq Stored \cap Brackets

(* A window that is not open has nothing to edit, nor has one that is not   *)
(* on the canvas.                                                           *)
ModeFits(x) ==
    /\ x.phase = "open" => /\ x.locked = ~x.canvas /\ x.index = x.canvas
                           /\ ~x.canvas => x.edit = None /\ x.panel = None /\ ~x.sel /\ ~x.live
    /\ x.phase # "open" => /\ x.canvas /\ ~x.locked /\ ~x.live /\ ~x.sel /\ x.idx = {}
                           /\ x.edit = None /\ x.held = None /\ x.panel = None

Good(x) == x \in WindowStates /\ EditFits(x) /\ ListsFit(x) /\ ModeFits(x)

(* What a list of drawings with their looks is.                             *)
LEMMA LookIs ==
  ASSUME NEW f \in Looks
  PROVE  /\ DOMAIN f \subseteq Drawings /\ f = [d \in DOMAIN f |-> f[d]]
         /\ \A d \in DOMAIN f : f[d] \in BOOLEAN
<1>1. PICK S \in SUBSET Drawings : f \in [S -> BOOLEAN]
  BY DEF Looks
<1>2. QED BY <1>1

(* A Boolean for each of some drawings is such a list.                      *)
LEMMA LookMade ==
  ASSUME NEW S \in SUBSET Drawings, NEW f \in [S -> BOOLEAN]
  PROVE  f \in Looks
  BY DEF Looks

(* So is the empty one, in which no drawing is.                             *)
LEMMA EmptyLook == <<>> \in Looks /\ DOMAIN <<>> = {}
<1>1. <<>> \in [{} -> BOOLEAN] /\ DOMAIN <<>> = {}
  OBVIOUS
<1>2. QED BY <1>1, LookMade

(* What is left of a list when some drawings are taken out.                 *)
LEMMA WithoutLook ==
  ASSUME NEW f \in Looks, NEW D
  PROVE  Without(f, D) \in Looks /\ DOMAIN Without(f, D) = DOMAIN f \ D
<1>1. Without(f, D) \in [DOMAIN f \ D -> BOOLEAN]
  BY LookIs DEF Without
<1>2. QED BY <1>1, LookIs, LookMade

(* A window before it is opened.                                            *)
LEMMA GoodFresh == Good(Fresh)
<1>1. Fresh \in WindowStates
  BY EmptyLook DEF Fresh, WindowStates, Tools
<1>2. QED BY <1>1, EmptyLook DEF Good, EditFits, ListsFit, ModeFits, Fresh

(* set_tool leaves the window sound.                                        *)
LEMMA GoodArmed ==
  ASSUME NEW x, Good(x), x.phase = "open", NEW t \in Tools
  PROVE  Good(Armed(x, t))
<1> USE DEF Good
<1>1. PICK y : y = Armed(x, t)
  OBVIOUS
<1>2. y \in WindowStates
  BY <1>1 DEF Armed, WindowStates
<1>3. /\ y.phase = x.phase /\ y.canvas = x.canvas /\ y.locked = x.locked /\ y.index = x.index
      /\ y.own = x.own /\ y.todo = x.todo /\ y.idx = x.idx /\ y.sel = x.sel /\ y.held = x.held
      /\ y.live = FALSE /\ y.edit = None /\ y.panel \in {x.panel, None}
  BY <1>1 DEF Armed, WindowStates
<1>4. QED BY <1>1, <1>2, <1>3 DEF EditFits, ListsFit, ModeFits

(* So does clear_all, the trash of the toolbar.                             *)
LEMMA GoodTrashed ==
  ASSUME NEW x, Good(x), x.phase = "open"
  PROVE  Good(Trashed(x))
<1> USE DEF Good
<1>1. PICK y : y = Trashed(x)
  OBVIOUS
<1>2. y \in WindowStates
  BY <1>1, EmptyLook DEF Trashed, WindowStates
<1>3. /\ y.phase = x.phase /\ y.canvas = x.canvas /\ y.locked = x.locked /\ y.index = x.index
      /\ y.own = <<>> /\ y.todo = x.todo /\ y.idx = {} /\ y.sel = FALSE /\ y.held = x.held
      /\ y.live = FALSE /\ y.edit = None /\ y.panel = x.panel
  BY <1>1 DEF Trashed, WindowStates
<1>4. QED BY <1>1, <1>2, <1>3, EmptyLook DEF EditFits, ListsFit, ModeFits

(* So does a switch of mode, and the one that ends the construction.        *)
LEMMA GoodSwitched ==
  ASSUME NEW x, Good(x), NEW c \in BOOLEAN,
         x.phase = "open" \/ (x.phase = "loading" /\ c /\ x.todo = <<>>)
  PROVE  Good([Switched(x, c) EXCEPT !.phase = "open"])
<1> USE DEF Good
<1>1. PICK y : y = [Switched(x, c) EXCEPT !.phase = "open"]
  OBVIOUS
<1> DEFINE z1 == IF x.canvas /\ ~c THEN [x EXCEPT !.edit = None, !.sel = FALSE] ELSE x
           z2 == [z1 EXCEPT !.canvas = c, !.locked = ~c, !.index = c]
           z3 == IF c THEN z2 ELSE Cancelled(z2)
<1>2. /\ z1 \in WindowStates
      /\ z1.own = x.own /\ z1.todo = x.todo /\ z1.idx = x.idx /\ z1.held = x.held /\ z1.live = x.live
      /\ z1.edit \in {x.edit, None} /\ z1.sel \in {x.sel, FALSE} /\ z1.panel = x.panel
      /\ x.canvas /\ ~c => ~z1.sel
  BY DEF WindowStates
<1> HIDE DEF z1
<1>3. /\ z2 \in WindowStates /\ z2.canvas = c /\ z2.locked = ~c /\ z2.index = c
      /\ z2.own = x.own /\ z2.todo = x.todo /\ z2.idx = x.idx /\ z2.held = x.held /\ z2.live = x.live
      /\ z2.edit \in {x.edit, None} /\ z2.sel \in {x.sel, FALSE} /\ z2.panel = x.panel
      /\ x.canvas /\ ~c => ~z2.sel
  BY <1>2 DEF WindowStates
<1> HIDE DEF z2
<1>4. /\ z3 \in WindowStates /\ z3.canvas = c /\ z3.locked = ~c /\ z3.index = c
      /\ z3.own = x.own /\ z3.todo = x.todo /\ z3.idx = x.idx /\ z3.held = x.held
      /\ z3.live \in {x.live, FALSE} /\ z3.edit \in {x.edit, None} /\ z3.sel \in {x.sel, FALSE}
      /\ z3.panel \in {x.panel, None} /\ (x.canvas /\ ~c => ~z3.sel)
      /\ ~c => z3.edit = None /\ z3.panel = None /\ ~z3.live
  <2>1. CASE c
    BY <1>3, <2>1
  <2>2. CASE ~c
    <3>1. z3 = [z2 EXCEPT !.tool = "none", !.live = FALSE, !.edit = None, !.panel = None]
      BY <2>2 DEF Cancelled, Armed
    <3>2. QED BY <1>3, <2>2, <3>1 DEF WindowStates, Tools
  <2>3. QED BY <2>1, <2>2
<1>5. y = [z3 EXCEPT !.phase = "open"]
  BY <1>1 DEF Switched, z1, z2
<1> HIDE DEF z3
<1>6. /\ y \in WindowStates /\ y.phase = "open" /\ y.canvas = c /\ y.locked = ~c /\ y.index = c
      /\ y.own = x.own /\ y.todo = x.todo /\ y.idx = x.idx /\ y.held = x.held
      /\ y.live \in {x.live, FALSE} /\ y.edit \in {x.edit, None} /\ y.sel \in {x.sel, FALSE}
      /\ y.panel \in {x.panel, None} /\ (x.canvas /\ ~c => ~y.sel)
      /\ ~c => y.edit = None /\ y.panel = None /\ ~y.live
  BY <1>4, <1>5 DEF WindowStates
<1>7. ~c => ~y.sel
  BY <1>6 DEF ModeFits
<1>8. EditFits(y)
  BY <1>6 DEF EditFits, Holds
<1>9. QED BY <1>1, <1>6, <1>7, <1>8 DEF ListsFit, ModeFits

(* An edit of the looks changes nothing else of the window.                 *)
LEMMA GoodFlip ==
  ASSUME NEW x, Good(x), NEW d, NEW y, y = Flip(x, d)
  PROVE  /\ Good(y) /\ y.phase = x.phase /\ DOMAIN y.own = DOMAIN x.own
         /\ y.idx = x.idx /\ y.todo = x.todo /\ y.canvas = x.canvas /\ y.locked = x.locked
         /\ y.index = x.index /\ y.live = x.live /\ y.sel = x.sel /\ y.edit = x.edit
         /\ y.held = x.held /\ y.panel = x.panel /\ y.tool = x.tool
<1>1. CASE d \notin DOMAIN x.own
  BY <1>1 DEF Flip
<1>2. CASE d \in DOMAIN x.own
  <2>1. x \in WindowStates
    BY DEF Good
  <2> DEFINE own == [x.own EXCEPT ![d] = ~x.own[d]]
  <2>2. own \in [DOMAIN x.own -> BOOLEAN]
    <3>1. x.own \in Looks
      BY <2>1 DEF WindowStates
    <3>2. x.own = [e \in DOMAIN x.own |-> x.own[e]] /\ \A e \in DOMAIN x.own : x.own[e] \in BOOLEAN
      BY <3>1, LookIs
    <3>3. (~x.own[d]) \in BOOLEAN
      OBVIOUS
    <3>4. QED BY <3>2, <3>3
  <2>3. own \in Looks /\ DOMAIN own = DOMAIN x.own
    <3>1. DOMAIN x.own \in SUBSET Drawings
      BY <2>1, LookIs DEF WindowStates
    <3>2. QED BY <2>2, <3>1, LookMade
  <2>4. y = [x EXCEPT !.own = own]
    BY <1>2 DEF Flip
  <2> HIDE DEF own
  <2>5. /\ y \in WindowStates /\ y.phase = x.phase /\ y.own = own
        /\ y.idx = x.idx /\ y.todo = x.todo /\ y.canvas = x.canvas /\ y.locked = x.locked
        /\ y.index = x.index /\ y.live = x.live /\ y.sel = x.sel /\ y.edit = x.edit
        /\ y.held = x.held /\ y.panel = x.panel /\ y.tool = x.tool
    BY <2>1, <2>3, <2>4 DEF WindowStates
  <2>6. EditFits(y) /\ ListsFit(y) /\ ModeFits(y)
    BY <2>3, <2>5 DEF Good, EditFits, ListsFit, ModeFits, Holds
  <2>7. QED BY <2>3, <2>5, <2>6 DEF Good
<1>3. QED BY <1>1, <1>2

(* The eraser takes drawings out of both lists, and the dots away.          *)
LEMMA GoodErased ==
  ASSUME NEW x, Good(x), x.phase = "open", NEW E, NEW s \in {x.sel, FALSE}
  PROVE  Good([x EXCEPT !.own = Without(@, E), !.idx = @ \ E, !.edit = None, !.sel = s])
<1> USE DEF Good
<1>1. PICK y : y = [x EXCEPT !.own = Without(@, E), !.idx = @ \ E, !.edit = None, !.sel = s]
  OBVIOUS
<1>2. /\ Without(x.own, E) \in Looks /\ DOMAIN Without(x.own, E) = DOMAIN x.own \ E
  BY WithoutLook DEF WindowStates
<1>3. /\ y \in WindowStates /\ y.phase = x.phase /\ y.own = Without(x.own, E)
      /\ y.idx = x.idx \ E /\ y.todo = x.todo /\ y.canvas = x.canvas /\ y.locked = x.locked
      /\ y.index = x.index /\ y.live = x.live /\ y.sel = s /\ y.edit = None
      /\ y.held = x.held /\ y.panel = x.panel
  BY <1>1, <1>2 DEF WindowStates
<1>4. QED BY <1>1, <1>2, <1>3 DEF EditFits, ListsFit, ModeFits

(* A shape that is met is given its dots, all of them on it.               *)
LEMMA GoodAttached ==
  ASSUME NEW x, Good(x), x.phase = "open", x.canvas, x.held = None,
         NEW d \in Holds(x) \ Brackets, NEW pts \in Shapes
  PROVE  Good([x EXCEPT !.panel = d, !.edit = Attach(d, pts)])
<1> USE DEF Good
<1>1. PICK e : e = Attach(d, pts)
  OBVIOUS
<1>2. d \in Drawings /\ KindOf[d] \in Kinds \ {"bracket"}
  <2>1. DOMAIN x.own \subseteq Drawings /\ x.idx \subseteq Drawings
    BY LookIs DEF WindowStates
  <2>2. QED BY <2>1, DrawingAssumption DEF Holds, Brackets
<1>3. e.id = d /\ e.pts = pts /\ e.dots = Specs(KindOf[d], pts)
  BY <1>1 DEF Attach
<1>4. e \in Edits /\ DOMAIN e.dots = DOMAIN SpecOf[KindOf[d]]
  <2>1. DOMAIN SpecOf[KindOf[d]] \subseteq Roles
    BY <1>2, SpecRoles
  <2>2. Specs(KindOf[d], pts) \in [DOMAIN SpecOf[KindOf[d]] -> [1..2 -> Int]]
    BY <1>2, SpecsType
  <2>3. Specs(KindOf[d], pts) \in Dots
    BY <2>1, <2>2 DEF Dots
  <2>4. QED BY <1>1, <1>2, <2>2, <2>3 DEF Edits, Attach
<1>5. PICK y : y = [x EXCEPT !.panel = d, !.edit = e]
  OBVIOUS
<1>6. /\ y \in WindowStates /\ y.phase = x.phase /\ y.own = x.own
      /\ y.idx = x.idx /\ y.todo = x.todo /\ y.canvas = x.canvas /\ y.locked = x.locked
      /\ y.index = x.index /\ y.live = x.live /\ y.sel = x.sel /\ y.edit = e
      /\ y.held = None /\ y.panel = d
  BY <1>2, <1>4, <1>5 DEF WindowStates
<1>7. EditFits(y)
  BY <1>2, <1>3, <1>4, <1>6 DEF EditFits, Holds
<1>8. QED BY <1>1, <1>5, <1>6, <1>7 DEF ListsFit, ModeFits

(* The dots are put back on a shape with other points, but for the one that *)
(* is dragged.                                                              *)
LEMMA Repositioned ==
  ASSUME NEW e, e \in Edits, NEW pts \in Shapes, NEW except, KindOf[e.id] \in Kinds \ {"bracket"},
         DOMAIN e.dots = DOMAIN SpecOf[KindOf[e.id]], NEW f, f = Reposition(e, pts, except)
  PROVE  /\ f \in Edits /\ f.id = e.id /\ f.pts = pts /\ DOMAIN f.dots = DOMAIN e.dots
         /\ \A r \in DOMAIN e.dots :
              f.dots[r] = IF r = except THEN e.dots[r] ELSE Specs(KindOf[e.id], pts)[r]
<1> DEFINE kind == KindOf[e.id]
           dots == [r \in DOMAIN e.dots |-> IF r = except THEN e.dots[r] ELSE Specs(kind, pts)[r]]
<1>1. f = [e EXCEPT !.pts = pts, !.dots = dots]
  BY DEF Reposition
<1>2. PICK R \in SUBSET Roles : e.dots \in [R -> [1..2 -> Int]]
  BY DEF Edits, Dots
<1>3. Specs(kind, pts) \in [R -> [1..2 -> Int]]
  BY <1>2, SpecsType
<1>4. dots \in [R -> [1..2 -> Int]]
  BY <1>2, <1>3
<1>5. dots \in Dots
  BY <1>4 DEF Dots
<1>6. DOMAIN dots = DOMAIN e.dots
  OBVIOUS
<1>7. \A r \in DOMAIN e.dots : dots[r] = IF r = except THEN e.dots[r] ELSE Specs(kind, pts)[r]
  OBVIOUS
<1> HIDE DEF dots, kind
<1>8. f \in Edits /\ f.id = e.id /\ f.pts = pts /\ f.dots = dots
  BY <1>1, <1>5 DEF Edits
<1>9. QED BY <1>6, <1>7, <1>8 DEF kind

(* The points of a window's shape, and what is known of its kind.           *)
LEMMA EditIs ==
  ASSUME NEW x, Good(x), x.edit # None
  PROVE  /\ x.edit \in Edits /\ x.edit.id \in Holds(x) \ Brackets /\ x.edit.pts \in Shapes
         /\ KindOf[x.edit.id] \in Kinds \ {"bracket"} /\ x.phase = "open" /\ x.canvas
         /\ DOMAIN x.edit.dots = DOMAIN SpecOf[KindOf[x.edit.id]] /\ DOMAIN x.edit.dots \subseteq Roles
<1>1. x.edit \in Edits
  BY DEF Good, WindowStates
<1>2. x.edit.id \in Drawings /\ x.edit.pts \in Shapes
  BY <1>1 DEF Edits
<1>3. x.edit.id \in Holds(x) \ Brackets /\ DOMAIN x.edit.dots = DOMAIN SpecOf[KindOf[x.edit.id]]
  BY DEF Good, EditFits
<1>4. KindOf[x.edit.id] \in Kinds \ {"bracket"}
  BY <1>2, <1>3, DrawingAssumption DEF Brackets
<1>5. x.phase = "open" /\ x.canvas
  BY DEF Good, ModeFits, WindowStates
<1>6. QED BY <1>1, <1>2, <1>3, <1>4, <1>5, SpecRoles

(* The release of a dot, and a panel's edit, put every dot back.            *)
LEMMA GoodRepositioned ==
  ASSUME NEW x, Good(x), x.edit # None, NEW pts \in Shapes
  PROVE  Good([x EXCEPT !.held = None, !.edit = Reposition(x.edit, pts, None)])
<1>1. PICK f : f = Reposition(x.edit, pts, None)
  OBVIOUS
<1>2. /\ f \in Edits /\ f.id = x.edit.id /\ f.pts = pts /\ DOMAIN f.dots = DOMAIN x.edit.dots
      /\ \A r \in DOMAIN x.edit.dots :
           f.dots[r] = IF r = None THEN x.edit.dots[r] ELSE Specs(KindOf[x.edit.id], pts)[r]
  BY <1>1, EditIs, Repositioned
<1>3. \A r \in DOMAIN f.dots : f.dots[r] = Specs(KindOf[f.id], f.pts)[r]
  BY <1>2, EditIs, DrawingAssumption
<1>4. PICK y : y = [x EXCEPT !.held = None, !.edit = f]
  OBVIOUS
<1>5. /\ y \in WindowStates /\ y.phase = x.phase /\ y.own = x.own
      /\ y.idx = x.idx /\ y.todo = x.todo /\ y.canvas = x.canvas /\ y.locked = x.locked
      /\ y.index = x.index /\ y.live = x.live /\ y.sel = x.sel /\ y.edit = f
      /\ y.held = None /\ y.panel = x.panel
  BY <1>2, <1>4 DEF Good, WindowStates
<1>6. EditFits(y)
  BY <1>2, <1>3, <1>5, EditIs DEF EditFits, Holds
<1>7. QED BY <1>1, <1>4, <1>5, <1>6, EditIs DEF Good, ListsFit, ModeFits

(* What the drag of a dot leaves: it is under the mouse, the shape follows. *)
Follows(x, y, r, pts, c) ==
    /\ Good(y) /\ y.phase = x.phase /\ y.own = x.own /\ y.held = r /\ y.edit # None
    /\ y.edit.id = x.edit.id /\ y.edit.pts = pts /\ y.edit.dots[r] = c

(* The window stays sound while a dot of its shape is dragged.              *)
LEMMA GoodDragged ==
  ASSUME NEW x, Good(x), x.edit # None, NEW r \in DOMAIN x.edit.dots, NEW cx \in Int, NEW cy \in Int,
         NEW c, c = <<2 * cx, 2 * cy>>, NEW pts \in Shapes, pts = Dragged(x.edit.pts, r, c),
         r = "center" => \A a \in 1..2 : (c[a] - x.edit.pts[1][a] - x.edit.pts[2][a]) % 2 = 0,
         NEW y, y = [x EXCEPT !.held = r, !.edit = Reposition([x.edit EXCEPT !.dots[r] = c], pts, r)]
  PROVE  Follows(x, y, r, pts, c)
<1> DEFINE e == x.edit
           kind == KindOf[x.edit.id]
<1>1. PICK m : m = [e EXCEPT !.dots[r] = c]
  OBVIOUS
<1>2. c \in [1..2 -> Int]
  OBVIOUS
<1>3. e \in Edits
  BY EditIs
<1>4. /\ m \in Edits /\ m.id = e.id /\ m.pts = e.pts /\ DOMAIN m.dots = DOMAIN e.dots /\ m.dots[r] = c
  <2>1. PICK R \in SUBSET Roles : e.dots \in [R -> [1..2 -> Int]]
    BY <1>3 DEF Edits, Dots
  <2> DEFINE dots == [e.dots EXCEPT ![r] = c]
  <2>2. dots \in [R -> [1..2 -> Int]] /\ dots[r] = c /\ DOMAIN dots = DOMAIN e.dots
    BY <1>2, <2>1
  <2>3. dots \in Dots
    BY <2>2 DEF Dots
  <2>4. m = [e EXCEPT !.dots = dots]
    BY <1>1
  <2> HIDE DEF dots
  <2>5. m \in Edits /\ m.id = e.id /\ m.pts = e.pts /\ m.dots = dots
    BY <1>3, <2>3, <2>4 DEF Edits
  <2>6. QED BY <2>2, <2>5
<1>5. PICK f : f = Reposition(m, pts, r)
  OBVIOUS
<1>6. kind \in Kinds \ {"bracket"} /\ DOMAIN e.dots = DOMAIN SpecOf[kind] /\ DOMAIN e.dots \subseteq Roles
  BY EditIs
<1>7. /\ f \in Edits /\ f.id = m.id /\ f.pts = pts /\ DOMAIN f.dots = DOMAIN m.dots
      /\ \A s \in DOMAIN m.dots : f.dots[s] = IF s = r THEN m.dots[s] ELSE Specs(KindOf[m.id], pts)[s]
  BY <1>4, <1>5, <1>6, Repositioned
<1>8. f.id = e.id /\ f.dots[r] = c /\ DOMAIN f.dots = DOMAIN e.dots
      /\ \A s \in DOMAIN f.dots \ {r} : f.dots[s] = Specs(KindOf[f.id], f.pts)[s]
  BY <1>4, <1>7
<1>9. HeldSits(f, r)
  <2>1. e.pts \in Shapes /\ r \in DOMAIN SpecOf[kind]
    BY <1>6, EditIs
  <2>2. r = "center" => /\ (2 * cx - e.pts[1][1] - e.pts[2][1]) % 2 = 0
                        /\ (2 * cy - e.pts[1][2] - e.pts[2][2]) % 2 = 0
    <3>1. c[1] = 2 * cx /\ c[2] = 2 * cy
      OBVIOUS
    <3>2. QED BY <3>1
  <2>3. /\ r \notin OneWay => Specs(kind, pts)[r] = c
        /\ r \in OneWay => \E i \in 1..2 : Specs(kind, pts)[r][i] = c[i]
    BY <1>6, <2>1, <2>2, DragSits
  <2>4. QED BY <1>7, <1>8, <2>3 DEF HeldSits
<1>10. y = [x EXCEPT !.held = r, !.edit = f]
  BY <1>1, <1>5
<1>11. r \in Roles /\ r # None /\ f # None
  BY <1>6, <1>7, DrawingAssumption
<1>12. /\ y \in WindowStates /\ y.phase = x.phase /\ y.own = x.own
       /\ y.idx = x.idx /\ y.todo = x.todo /\ y.canvas = x.canvas /\ y.locked = x.locked
       /\ y.index = x.index /\ y.live = x.live /\ y.sel = x.sel /\ y.edit = f
       /\ y.held = r /\ y.panel = x.panel
  BY <1>7, <1>10, <1>11 DEF Good, WindowStates
<1>13. EditFits(y)
  <2>1. f.id \in Holds(y) \ Brackets /\ DOMAIN f.dots = DOMAIN SpecOf[KindOf[f.id]]
    BY <1>6, <1>8, <1>12, EditIs DEF Holds
  <2>2. r \in DOMAIN f.dots
    BY <1>8
  <2>3. QED BY <1>8, <1>9, <1>12, <2>1, <2>2 DEF EditFits
<1>14. QED BY <1>7, <1>8, <1>11, <1>12, <1>13, EditIs DEF Follows, Good, ListsFit, ModeFits

-----------------------------------------------------------------------------
(* The steps of an open window *)

(* An edit is saved, or it is of a dot still under the mouse.               *)
Edit(x, y) ==
    /\ Good(y) /\ x.phase = "open" /\ y.phase = "open"
    /\ \/ file' = y.own
       \/ /\ file' = file /\ DOMAIN y.own = DOMAIN x.own
          /\ y.held = None => x.held = None /\ y.own = x.own
    /\ UNCHANGED <<shared, crashes>>
LetGo(y) == y.edit = None \/ y.held = None
EditStep(w) == \E y : win' = [win EXCEPT ![w] = y] /\ Edit(win[w], y) /\ LetGo(y)

(* An edit that leaves the time-space list alone need not be saved.         *)
LEMMA StaysIs ==
  ASSUME NEW w, NEW y, Stays(w, y), Good(y), win[w].phase = "open", y.phase = "open",
         y.own = win[w].own, y.held = win[w].held, LetGo(y)
  PROVE  EditStep(w)
  BY DEF Stays, EditStep, Edit

(* An edit that is saved may change it as it likes.                         *)
LEMMA SavesIs ==
  ASSUME NEW w, NEW y, Saves(w, y), Good(y), win[w].phase = "open", y.phase = "open", LetGo(y)
  PROVE  EditStep(w)
  BY DEF Saves, Payload, EditStep, Edit

(* set_tool keeps the list and the dot under the mouse.                     *)
LEMMA ArmedIs ==
  ASSUME NEW x, Good(x), NEW t, NEW y, y = Armed(x, t)
  PROVE  y.phase = x.phase /\ y.own = x.own /\ y.held = x.held /\ y.edit = None
  BY DEF Armed, Good, WindowStates

(* So does the switch of mode.                                              *)
LEMMA SwitchedIs ==
  ASSUME NEW x, Good(x), NEW c \in BOOLEAN, NEW y, y = Switched(x, c)
  PROVE  y.phase = x.phase /\ y.own = x.own /\ y.held = x.held /\ y = [y EXCEPT !.phase = x.phase]
  BY DEF Switched, Cancelled, Armed, Good, WindowStates

(* The scanner combo, whichever mode it picks.                              *)
LEMMA ScannerEdits ==
  ASSUME NEW w \in Windows, Good(win[w]), SetScanner(w)
  PROVE  EditStep(w)
<1>1. PICK c \in BOOLEAN : Stays(w, Switched(win[w], c))
  BY DEF SetScanner
<1>2. PICK y : y = Switched(win[w], c)
  OBVIOUS
<1>3. win[w].phase = "open" /\ win[w].held = None
  BY DEF SetScanner, IsOpen, AtRest
<1>4. y.phase = "open" /\ y.own = win[w].own /\ y.held = None /\ y = [y EXCEPT !.phase = "open"]
  BY <1>2, <1>3, SwitchedIs
<1>5. Good(y)
  BY <1>2, <1>3, <1>4, GoodSwitched
<1>6. QED BY <1>1, <1>2, <1>3, <1>4, <1>5, StaysIs DEF LetGo

(* A toolbar button: a tool, or the trash.                                  *)
LEMMA ToolEdits ==
  ASSUME NEW w \in Windows, Good(win[w]), SetTool(w)
  PROVE  EditStep(w)
<1>1. win[w].phase = "open" /\ win[w].held = None
  BY DEF SetTool, IsOpen, AtRest
<1>2. CASE \E t \in Tools : Stays(w, Armed(win[w], t))
  <2>1. PICK t \in Tools : Stays(w, Armed(win[w], t))
    BY <1>2
  <2>2. PICK y : y = Armed(win[w], t)
    OBVIOUS
  <2>3. Good(y) /\ y.phase = "open" /\ y.own = win[w].own /\ y.held = None
    BY <1>1, <2>2, GoodArmed, ArmedIs
  <2>4. QED BY <1>1, <2>1, <2>2, <2>3, StaysIs DEF LetGo
<1>3. CASE Saves(w, Trashed(win[w]))
  <2>1. PICK y : y = Trashed(win[w])
    OBVIOUS
  <2>2. Good(y)
    BY <1>1, <2>1, GoodTrashed
  <2>3. y.phase = "open" /\ y.edit = None
    BY <1>1, <2>1 DEF Trashed, Good, WindowStates
  <2>4. QED BY <1>1, <1>3, <2>1, <2>2, <2>3, SavesIs DEF LetGo
<1>4. \A t \in IF w \in Editors THEN Tools \ {"none"} ELSE {"eraser"} : t \in Tools
  BY DEF Tools
<1>5. QED BY <1>2, <1>3, <1>4 DEF SetTool

(* Escape, in the middle of a drag too.                                     *)
LEMMA CancelEdits ==
  ASSUME NEW w \in Windows, Good(win[w]), Cancel(w)
  PROVE  EditStep(w)
<1>1. win[w].phase = "open" /\ Stays(w, Armed(win[w], "none"))
  BY DEF Cancel, IsOpen, Cancelled
<1>2. PICK y : y = Armed(win[w], "none")
  OBVIOUS
<1>3. Good(y) /\ y.phase = "open" /\ y.own = win[w].own /\ y.held = win[w].held /\ y.edit = None
  BY <1>1, <1>2, GoodArmed, ArmedIs DEF Tools
<1>4. QED BY <1>1, <1>2, <1>3, StaysIs DEF LetGo

(* The rubber band is on the canvas: elsewhere the window is locked.        *)
LEMMA BeginEdits ==
  ASSUME NEW w \in Windows, Good(win[w]), BeginDraw(w)
  PROVE  EditStep(w)
<1>1. /\ win[w].phase = "open" /\ ~win[w].locked /\ win[w].held = None
      /\ \E s \in {win[w].sel, FALSE} : Stays(w, [win[w] EXCEPT !.live = TRUE, !.sel = s])
  BY DEF BeginDraw, Usable, IsOpen, AtRest
<1>2. PICK s \in {win[w].sel, FALSE} : Stays(w, [win[w] EXCEPT !.live = TRUE, !.sel = s])
  BY <1>1
<1>3. PICK x : x = win[w]
  OBVIOUS
<1>4. PICK y : y = [x EXCEPT !.live = TRUE, !.sel = s]
  OBVIOUS
<1>5. x.canvas
  BY <1>1, <1>3 DEF Good, ModeFits
<1>6. /\ y \in WindowStates /\ y.phase = x.phase /\ y.own = x.own
      /\ y.idx = x.idx /\ y.todo = x.todo /\ y.canvas = x.canvas /\ y.locked = x.locked
      /\ y.index = x.index /\ y.edit = x.edit /\ y.held = x.held /\ y.panel = x.panel
  BY <1>2, <1>3, <1>4 DEF Good, WindowStates
<1>7. Good(y)
  BY <1>1, <1>3, <1>5, <1>6 DEF Good, EditFits, ListsFit, ModeFits, Holds
<1>8. QED BY <1>1, <1>2, <1>3, <1>4, <1>6, <1>7, StaysIs DEF LetGo

(* What is drawn is drawn on the canvas, and joins the list of the memory.  *)
LEMMA FinishEdits ==
  ASSUME NEW w \in Windows, Good(win[w]), FinishDraw(w)
  PROVE  EditStep(w)
<1>1. PICK x : x = [win[w] EXCEPT !.live = FALSE]
  OBVIOUS
<1>2. win[w].phase = "open" /\ win[w].canvas /\ win[w].index
  BY DEF FinishDraw, Usable, IsOpen, Good, ModeFits
<1>3. /\ x \in WindowStates /\ x.phase = "open" /\ x.own = win[w].own
      /\ x.idx = win[w].idx /\ x.todo = win[w].todo /\ x.canvas = win[w].canvas
      /\ x.locked = win[w].locked /\ x.index = win[w].index /\ x.edit = win[w].edit
      /\ x.held = win[w].held /\ x.panel = win[w].panel /\ ~x.live
  BY <1>1, <1>2 DEF Good, WindowStates
<1>4. Good(x)
  BY <1>2, <1>3 DEF Good, EditFits, ListsFit, ModeFits, Holds
<1>5. CASE \E made \in BOOLEAN : Stays(w, Armed([x EXCEPT !.sel = made], "select"))
  <2>1. PICK made \in BOOLEAN : Stays(w, Armed([x EXCEPT !.sel = made], "select"))
    BY <1>5
  <2>2. PICK z : z = [x EXCEPT !.sel = made]
    OBVIOUS
  <2>3. /\ z \in WindowStates /\ z.phase = "open" /\ z.own = x.own
        /\ z.idx = x.idx /\ z.todo = x.todo /\ z.canvas = x.canvas
        /\ z.locked = x.locked /\ z.index = x.index /\ z.edit = x.edit
        /\ z.held = x.held /\ z.panel = x.panel /\ ~z.live
    BY <1>3, <2>2 DEF WindowStates
  <2>4. Good(z)
    BY <1>2, <1>3, <1>4, <2>3 DEF Good, EditFits, ListsFit, ModeFits, Holds
  <2>5. PICK y : y = Armed(z, "select")
    OBVIOUS
  <2>6. Good(y) /\ y.phase = "open" /\ y.own = win[w].own /\ y.held = win[w].held /\ y.edit = None
    BY <1>3, <2>3, <2>4, <2>5, GoodArmed, ArmedIs DEF Tools
  <2>7. QED BY <1>2, <2>1, <2>2, <2>5, <2>6, StaysIs DEF LetGo
<1>6. CASE \E d \in Session \ UNION {Holds(win[u]) : u \in Windows} :
             Stays(w, Armed([x EXCEPT !.idx = @ \cup {d}], "select"))
  <2>1. PICK d \in Session \ UNION {Holds(win[u]) : u \in Windows} :
             Stays(w, Armed([x EXCEPT !.idx = @ \cup {d}], "select"))
    BY <1>6
  <2>2. d \notin DOMAIN x.own /\ d \in Drawings
    BY <1>3, <2>1 DEF Holds, Drawings
  <2>3. PICK z : z = [x EXCEPT !.idx = @ \cup {d}]
    OBVIOUS
  <2>4. /\ z \in WindowStates /\ z.phase = "open" /\ z.own = x.own
        /\ z.idx = x.idx \cup {d} /\ z.todo = x.todo /\ z.canvas = x.canvas
        /\ z.locked = x.locked /\ z.index = x.index /\ z.edit = x.edit
        /\ z.held = x.held /\ z.panel = x.panel /\ ~z.live /\ z.sel = x.sel
    BY <1>3, <2>2, <2>3 DEF WindowStates
  <2>5. Good(z)
    BY <1>2, <1>3, <1>4, <2>2, <2>4 DEF Good, EditFits, ListsFit, ModeFits, Holds
  <2>6. PICK y : y = Armed(z, "select")
    OBVIOUS
  <2>7. Good(y) /\ y.phase = "open" /\ y.own = win[w].own /\ y.held = win[w].held /\ y.edit = None
    BY <1>3, <2>4, <2>5, <2>6, GoodArmed, ArmedIs DEF Tools
  <2>8. QED BY <1>2, <2>1, <2>3, <2>6, <2>7, StaysIs DEF LetGo
<1>7. x.index
  BY <1>2, <1>3
<1>8. QED BY <1>1, <1>5, <1>6, <1>7 DEF FinishDraw

(* A click that selects a shape, or nothing.                                *)
LEMMA SelectEdits ==
  ASSUME NEW w \in Windows, Good(win[w]), SelectAt(w)
  PROVE  EditStep(w)
<1>1. win[w].phase = "open" /\ win[w].canvas /\ win[w].held = None
  BY DEF SelectAt, Usable, IsOpen, AtRest, Good, ModeFits
<1>2. PICK x : x = win[w]
  OBVIOUS
<1>3. CASE \E d \in Holds(x) \ Brackets, pts \in Geometries :
             Stays(w, [x EXCEPT !.panel = d, !.edit = Attach(d, pts)])
  <2>1. PICK d \in Holds(x) \ Brackets, pts \in Geometries :
             Stays(w, [x EXCEPT !.panel = d, !.edit = Attach(d, pts)])
    BY <1>3
  <2>2. PICK y : y = [x EXCEPT !.panel = d, !.edit = Attach(d, pts)]
    OBVIOUS
  <2>3. Good(y)
    BY <1>1, <1>2, <2>2, GoodAttached, DrawingAssumption
  <2>4. y.phase = "open" /\ y.own = x.own /\ y.held = None
    BY <1>1, <1>2, <2>2 DEF Good, WindowStates
  <2>5. QED BY <1>1, <1>2, <2>1, <2>2, <2>3, <2>4, StaysIs DEF LetGo
<1>4. CASE Stays(w, [x EXCEPT !.panel = None, !.edit = None])
  <2>1. PICK y : y = [x EXCEPT !.panel = None, !.edit = None]
    OBVIOUS
  <2>2. /\ y \in WindowStates /\ y.phase = x.phase /\ y.own = x.own /\ y.panel = None
        /\ y.idx = x.idx /\ y.todo = x.todo /\ y.canvas = x.canvas /\ y.locked = x.locked
        /\ y.index = x.index /\ y.edit = None /\ y.held = x.held /\ y.sel = x.sel /\ y.live = x.live
    BY <1>1, <1>2, <2>1 DEF Good, WindowStates
  <2>3. Good(y)
    BY <1>1, <1>2, <2>2 DEF Good, EditFits, ListsFit, ModeFits
  <2>4. QED BY <1>1, <1>2, <1>4, <2>1, <2>2, <2>3, StaysIs DEF LetGo
<1>5. QED BY <1>2, <1>3, <1>4 DEF SelectAt

(* A click with the eraser.                                                 *)
LEMMA EraseEdits ==
  ASSUME NEW w \in Windows, Good(win[w]), EraseAt(w)
  PROVE  EditStep(w)
<1>1. win[w].phase = "open"
  BY DEF EraseAt, Usable, IsOpen
<1>2. PICK x : x = win[w]
  OBVIOUS
<1>3. PICK E \in SUBSET Holds(x), s \in {x.sel, FALSE} :
        Saves(w, [x EXCEPT !.own = Without(@, E), !.idx = @ \ E, !.edit = None, !.sel = s])
  BY <1>2 DEF EraseAt
<1>4. PICK y : y = [x EXCEPT !.own = Without(@, E), !.idx = @ \ E, !.edit = None, !.sel = s]
  OBVIOUS
<1>5. Good(y)
  BY <1>1, <1>2, <1>4, GoodErased
<1>6. y.phase = "open" /\ y.edit = None
  BY <1>1, <1>2, <1>4 DEF Good, WindowStates
<1>7. QED BY <1>1, <1>2, <1>3, <1>4, <1>5, <1>6, SavesIs DEF LetGo

(* The release of a dot, whether or not its shape still shows its dots.     *)
LEMMA ReleaseEdits ==
  ASSUME NEW w \in Windows, Good(win[w]), ReleaseDot(w)
  PROVE  EditStep(w)
<1>1. win[w].phase = "open"
  BY DEF ReleaseDot, IsOpen
<1>2. PICK x : x = win[w]
  OBVIOUS
<1>3. CASE x.edit = None
  <2>1. PICK y : y = [x EXCEPT !.held = None, !.edit = None]
    OBVIOUS
  <2>2. Saves(w, y)
    BY <1>2, <1>3, <2>1 DEF ReleaseDot
  <2>3. /\ y \in WindowStates /\ y.phase = x.phase /\ y.own = x.own /\ y.panel = x.panel
        /\ y.idx = x.idx /\ y.todo = x.todo /\ y.canvas = x.canvas /\ y.locked = x.locked
        /\ y.index = x.index /\ y.edit = None /\ y.held = None /\ y.sel = x.sel /\ y.live = x.live
    BY <1>1, <1>2, <2>1 DEF Good, WindowStates
  <2>4. Good(y)
    BY <1>1, <1>2, <2>3 DEF Good, EditFits, ListsFit, ModeFits
  <2>5. QED BY <1>1, <1>2, <2>2, <2>3, <2>4, SavesIs DEF LetGo
<1>4. CASE x.edit # None
  <2>1. PICK y : y = [x EXCEPT !.held = None, !.edit = Reposition(x.edit, x.edit.pts, None)]
    OBVIOUS
  <2>2. Saves(w, y)
    BY <1>2, <1>4, <2>1 DEF ReleaseDot
  <2>3. Good(y)
    BY <1>2, <1>4, <2>1, EditIs, GoodRepositioned
  <2>4. y.phase = "open" /\ y.held = None
    BY <1>1, <1>2, <2>1 DEF Good, WindowStates
  <2>5. QED BY <1>1, <1>2, <2>2, <2>3, <2>4, SavesIs DEF LetGo
<1>5. QED BY <1>3, <1>4

(* An expanded rectangle is a shape (_expand).                              *)
LEMMA ExpandedShape ==
  ASSUME NEW pts \in Shapes, NEW side, NEW q, q = Expanded(pts, side), \A i \in 1..2 : q[i][1] \in 0..MaxX
  PROVE  q \in Shapes
<1> DEFINE x0 == pts[1][1]
           x1 == pts[2][1]
           step == (IF x1 >= x0 THEN x1 - x0 ELSE x0 - x1) \div 2
<1>0. Expanded(pts, side) = IF side = "right"
         THEN IF x1 >= x0 THEN [pts EXCEPT ![2][1] = x1 + step] ELSE [pts EXCEPT ![1][1] = x0 + step]
         ELSE IF x0 <= x1 THEN [pts EXCEPT ![1][1] = x0 - step] ELSE [pts EXCEPT ![2][1] = x1 - step]
  BY DEF Expanded
<1> HIDE DEF x0, x1, step
<1>1. PICK i \in 1..2 : \E v : q = [pts EXCEPT ![i][1] = v]
  <2>1. \/ q = [pts EXCEPT ![2][1] = x1 + step] \/ q = [pts EXCEPT ![1][1] = x0 + step]
        \/ q = [pts EXCEPT ![1][1] = x0 - step] \/ q = [pts EXCEPT ![2][1] = x1 - step]
    BY <1>0
  <2>2. 1 \in 1..2 /\ 2 \in 1..2
    OBVIOUS
  <2>3. QED BY <2>1, <2>2, Zenon
<1>9. PICK v : q = [pts EXCEPT ![i][1] = v]
  BY <1>1
<1>2. q = [pts EXCEPT ![i] = [pts[i] EXCEPT ![1] = v]]
  BY <1>9
<1>3. pts[i] \in [1..2 -> 0..MaxX]
  BY DEF Shapes
<1>4. q[i][1] = v
  BY <1>2, <1>3 DEF Shapes
<1>5. [pts[i] EXCEPT ![1] = v] \in [1..2 -> 0..MaxX]
  BY <1>3, <1>4
<1>6. QED BY <1>2, <1>5 DEF Shapes

(* An edit or an expansion from the panel.                                  *)
LEMMA PanelEdits ==
  ASSUME NEW w \in Windows, Good(win[w]), EditPanel(w)
  PROVE  EditStep(w)
<1>1. win[w].phase = "open" /\ win[w].held = None
  BY DEF EditPanel, IsOpen, AtRest
<1>2. PICK x : x = Flip(win[w], win[w].panel)
  OBVIOUS
<1>3. Good(x) /\ x.phase = "open" /\ x.held = None
  BY <1>1, <1>2, GoodFlip
<1>4. CASE Saves(w, x)
  BY <1>1, <1>3, <1>4, SavesIs DEF LetGo
<1>5. CASE x.edit # None /\ \E side \in {"left", "right"} :
             LET pts == Expanded(x.edit.pts, side) IN
             /\ \A i \in 1..2 : pts[i][1] \in 0..MaxX
             /\ Saves(w, [x EXCEPT !.edit = Reposition(x.edit, pts, None)])
  <2>1. PICK side \in {"left", "right"} :
             LET pts == Expanded(x.edit.pts, side) IN
             /\ \A i \in 1..2 : pts[i][1] \in 0..MaxX
             /\ Saves(w, [x EXCEPT !.edit = Reposition(x.edit, pts, None)])
    BY <1>5
  <2>2. PICK pts : pts = Expanded(x.edit.pts, side)
    OBVIOUS
  <2>3. pts \in Shapes
    BY <1>3, <1>5, <2>1, <2>2, EditIs, ExpandedShape
  <2>4. PICK f : f = Reposition(x.edit, pts, None)
    OBVIOUS
  <2>5. PICK y : y = [x EXCEPT !.held = None, !.edit = f]
    OBVIOUS
  <2>6. Good(y)
    BY <1>3, <1>5, <2>3, <2>4, <2>5, GoodRepositioned
  <2>7. y = [x EXCEPT !.edit = f] /\ y.phase = "open" /\ y.held = None
    BY <1>3, <2>5 DEF Good, WindowStates
  <2>8. Saves(w, y)
    BY <2>1, <2>2, <2>4, <2>7
  <2>9. QED BY <1>1, <2>6, <2>7, <2>8, SavesIs DEF LetGo
<1>6. QED BY <1>2, <1>4, <1>5 DEF EditPanel

(* A line of a bracket that is dragged.                                     *)
LEMMA BracketEdits ==
  ASSUME NEW w \in Windows, Good(win[w]), DragBracketLine(w)
  PROVE  EditStep(w)
<1>1. win[w].phase = "open" /\ win[w].held = None
  BY DEF DragBracketLine, IsOpen, AtRest
<1>2. PICK d : Saves(w, Flip(win[w], d))
  BY DEF DragBracketLine
<1>3. PICK y : y = Flip(win[w], d)
  OBVIOUS
<1>4. Good(y) /\ y.phase = "open" /\ y.held = None
  BY <1>1, <1>3, GoodFlip
<1>5. QED BY <1>1, <1>2, <1>3, <1>4, SavesIs DEF LetGo

(* The step that drags: the shape of the window follows its dot.            *)
DragTo(w, x, r, cx, cy, pts) ==
    LET c == <<2 * cx, 2 * cy>>  e == win[w].edit IN
    /\ Good(x) /\ x.edit = e /\ e # None /\ r \in DOMAIN e.dots /\ cx \in Int /\ cy \in Int
    /\ pts \in Shapes /\ pts = Dragged(e.pts, r, c)
    /\ r = "center" => \A a \in 1..2 : (c[a] - e.pts[1][a] - e.pts[2][a]) % 2 = 0
    /\ DOMAIN x.own = DOMAIN win[w].own /\ x.phase = win[w].phase /\ win[w].phase = "open"
    /\ win' = [win EXCEPT ![w] = [x EXCEPT !.held = r,
                                           !.edit = Reposition([e EXCEPT !.dots[r] = c], pts, r)]]
    /\ UNCHANGED <<file, shared, crashes>>
Dragging(w) == \E x, r, cx, cy, pts : DragTo(w, x, r, cx, cy, pts)

(* A dot that is dragged, at the start of the drag or in its middle.        *)
LEMMA DragIs ==
  ASSUME NEW w \in Windows, Good(win[w]), DragDot(w)
  PROVE  Dragging(w)
<1>1. win[w].phase = "open" /\ win[w].edit # None
  BY DEF DragDot, IsOpen
<1>2. PICK e : e = win[w].edit
  OBVIOUS
<1>3. PICK x : x = IF win[w].held = None THEN Flip(win[w], e.id) ELSE win[w]
  OBVIOUS
<1>4. PICK r \in DOMAIN e.dots, cx \in Grid, cy \in Grid :
        LET c == <<2 * cx, 2 * cy>>  pts == Dragged(e.pts, r, c) IN
        /\ \A i, a \in 1..2 : pts[i][a] \in 0..MaxX
        /\ r = "center" => \A a \in 1..2 : (c[a] - e.pts[1][a] - e.pts[2][a]) % 2 = 0
        /\ Stays(w, [x EXCEPT !.held = r, !.edit = Reposition([e EXCEPT !.dots[r] = c], pts, r)])
  BY <1>2, <1>3 DEF DragDot
<1>5. PICK pts : pts = Dragged(e.pts, r, <<2 * cx, 2 * cy>>)
  OBVIOUS
<1>6. pts \in Shapes
  BY <1>4, <1>5 DEF Shapes, Dragged
<1>7. cx \in Int /\ cy \in Int
  BY DrawingAssumption
<1>8. Good(x) /\ x.edit = e /\ DOMAIN x.own = DOMAIN win[w].own /\ x.phase = win[w].phase
  BY <1>2, <1>3, GoodFlip
<1>9. DragTo(w, x, r, cx, cy, pts)
  BY <1>1, <1>2, <1>4, <1>5, <1>6, <1>7, <1>8 DEF Stays, DragTo
<1>10. QED BY <1>9 DEF Dragging

-----------------------------------------------------------------------------
(* The drawings of all windows and the file *)

FileFits(f) == f # None => f \in Looks /\ DOMAIN f \subseteq Stored

(* A window that shares the file with no other holds what the file holds, with *)
(* the looks it shows unless a dot is being dragged.  While it starts, what the *)
(* file holds is in its list or still to be built.                             *)
LoneFits(x, f) ==
    /\ x.phase = "open" =>
         IF f = None THEN x.own = <<>>
         ELSE DOMAIN f = DOMAIN x.own /\ (x.held = None => f = x.own)
    /\ x.phase = "loading" =>
         /\ f # None => DOMAIN f \subseteq DOMAIN x.own \cup DOMAIN x.todo
         /\ x.todo = <<>> => IF f = None THEN x.own = <<>> ELSE f = x.own

DrawingIInv ==
    /\ win \in [Windows -> WindowStates] /\ \A w \in Windows : Good(win[w])
    /\ FileFits(file) /\ shared \in BOOLEAN /\ crashes \in 0..MaxCrashes
    /\ ~shared => /\ \A w \in Windows : LoneFits(win[w], file)
                  /\ \A u, w \in Windows : u # w => win[u].phase = "closed" \/ win[w].phase = "closed"

(* One window changes, the others being closed unless the file is shared.   *)
LEMMA WindowKeeps ==
  ASSUME DrawingIInv, NEW w \in Windows, NEW y, win' = [win EXCEPT ![w] = y], Good(y),
         FileFits(file'), shared' \in BOOLEAN, crashes' \in 0..MaxCrashes,
         ~shared' => LoneFits(y, file') /\ \A u \in Windows \ {w} : win[u].phase = "closed"
  PROVE  DrawingIInv'
<1>1. y \in WindowStates /\ win \in [Windows -> WindowStates]
  BY DEF DrawingIInv, Good
<1>2. win' \in [Windows -> WindowStates] /\ win'[w] = y /\ \A u \in Windows \ {w} : win'[u] = win[u]
  BY <1>1
<1>3. \A u \in Windows : Good(win'[u])
  BY <1>2 DEF DrawingIInv
<1>4. ASSUME ~shared'
      PROVE  /\ \A u \in Windows : LoneFits(win'[u], file')
             /\ \A u, v \in Windows : u # v => win'[u].phase = "closed" \/ win'[v].phase = "closed"
  <2>1. \A u \in Windows \ {w} : win'[u].phase = "closed"
    BY <1>2, <1>4
  <2>2. \A u \in Windows \ {w} : LoneFits(win'[u], file')
    BY <2>1 DEF LoneFits
  <2>3. LoneFits(win'[w], file')
    BY <1>2, <1>4
  <2>4. QED BY <2>1, <2>2, <2>3
<1>5. QED BY <1>2, <1>3, <1>4 DEF DrawingIInv

(* What a window that is not closed knows of the others.                    *)
LEMMA OthersClosed ==
  ASSUME DrawingIInv, NEW w \in Windows, win[w].phase # "closed", ~shared
  PROVE  LoneFits(win[w], file) /\ \A u \in Windows \ {w} : win[u].phase = "closed"
  BY DEF DrawingIInv

(* An edit keeps the invariant, saved or still under the mouse.             *)
LEMMA EditKeeps ==
  ASSUME DrawingIInv, NEW w \in Windows, NEW y, win' = [win EXCEPT ![w] = y], Edit(win[w], y)
  PROVE  DrawingIInv'
<1>1. PICK x : x = win[w]
  OBVIOUS
<1>2. /\ Good(y) /\ x.phase = "open" /\ y.phase = "open" /\ UNCHANGED <<shared, crashes>>
      /\ y.own \in Looks /\ DOMAIN y.own \subseteq Stored /\ y.own # None
  BY <1>1, DrawingAssumption DEF Edit, Good, WindowStates, ListsFit
<1>3. CASE file' = y.own
  <2>1. LoneFits(y, file') /\ FileFits(file')
    BY <1>2, <1>3 DEF LoneFits, FileFits
  <2>2. QED BY <1>1, <1>2, <2>1, OthersClosed, WindowKeeps DEF DrawingIInv
<1>4. CASE file' = file /\ DOMAIN y.own = DOMAIN x.own /\ (y.held = None => x.held = None /\ y.own = x.own)
  <2>1. ~shared => LoneFits(x, file) /\ \A u \in Windows \ {w} : win[u].phase = "closed"
    BY <1>1, <1>2, OthersClosed
  <2>2. x.own = <<>> => y.own = <<>>
    <3>1. y.own = [d \in DOMAIN y.own |-> y.own[d]]
      BY <1>2, LookIs
    <3>2. ASSUME x.own = <<>> PROVE y.own = <<>>
      <4>1. DOMAIN y.own = {}
        BY <1>4, <3>2, EmptyLook
      <4>2. y.own = [d \in {} |-> y.own[d]] /\ <<>> = [d \in {} |-> y.own[d]]
        BY <3>1, <4>1
      <4>3. QED BY <4>2
    <3>3. QED BY <3>2
  <2>3. ~shared => LoneFits(y, file')
    BY <1>2, <1>4, <2>1, <2>2 DEF LoneFits
  <2>4. QED BY <1>2, <1>4, <2>1, <2>3, WindowKeeps DEF DrawingIInv
<1>5. QED BY <1>1, <1>3, <1>4 DEF Edit

(* What the drag of a dot does to the file and to the window.               *)
LEMMA DragEdits ==
  ASSUME NEW w \in Windows, NEW x, NEW r, NEW cx, NEW cy, NEW pts, DragTo(w, x, r, cx, cy, pts)
  PROVE  \E y : /\ win' = [win EXCEPT ![w] = y] /\ Edit(win[w], y) /\ y.held = r /\ y.edit # None
                /\ y.edit.id = win[w].edit.id /\ y.edit.pts = pts
                /\ y.edit.dots[r] = <<2 * cx, 2 * cy>>
<1>1. PICK c : c = <<2 * cx, 2 * cy>>
  OBVIOUS
<1>2. PICK e : e = win[w].edit
  OBVIOUS
<1>3. PICK y : y = [x EXCEPT !.held = r, !.edit = Reposition([e EXCEPT !.dots[r] = c], pts, r)]
  OBVIOUS
<1>4. /\ Good(x) /\ x.edit = e /\ e # None /\ r \in DOMAIN e.dots /\ cx \in Int /\ cy \in Int
      /\ pts \in Shapes /\ pts = Dragged(e.pts, r, c)
      /\ r = "center" => \A a \in 1..2 : (c[a] - e.pts[1][a] - e.pts[2][a]) % 2 = 0
      /\ DOMAIN x.own = DOMAIN win[w].own /\ x.phase = win[w].phase /\ win[w].phase = "open"
      /\ win' = [win EXCEPT ![w] = y]
      /\ UNCHANGED <<file, shared, crashes>>
  BY <1>1, <1>2, <1>3 DEF DragTo
<1>5. /\ Good(y) /\ y.phase = x.phase /\ y.own = x.own /\ y.held = r /\ y.edit # None
      /\ y.edit.id = x.edit.id /\ y.edit.pts = pts /\ y.edit.dots[r] = c
  <2>1. x.edit # None /\ r \in DOMAIN x.edit.dots
    BY <1>4
  <2>2. y = [x EXCEPT !.held = r, !.edit = Reposition([x.edit EXCEPT !.dots[r] = c], pts, r)]
    BY <1>3, <1>4
  <2>3. pts = Dragged(x.edit.pts, r, c)
    BY <1>4
  <2>4. r = "center" => \A a \in 1..2 : (c[a] - x.edit.pts[1][a] - x.edit.pts[2][a]) % 2 = 0
    BY <1>4
  <2>5. Follows(x, y, r, pts, c)
    BY <1>1, <1>4, <2>1, <2>2, <2>3, <2>4, GoodDragged
  <2>6. QED BY <2>5 DEF Follows
<1>6. r # None
  <2>1. r \in Roles
    BY <1>4, EditIs
  <2>2. QED BY <2>1, DrawingAssumption
<1>7. Edit(win[w], y)
  BY <1>4, <1>5, <1>6 DEF Edit
<1>8. QED BY <1>1, <1>2, <1>4, <1>5, <1>7

-----------------------------------------------------------------------------
(* The life of a window *)

(* A window that starts reads the file, or nothing of it (_load).           *)
LEMMA OpenKeeps ==
  ASSUME DrawingIInv, NEW w \in Windows, Open(w)
  PROVE  DrawingIInv' /\ file' = file /\ win'[w].edit = None
<1>1. PICK read \in {file} \cup {None : v \in {u \in Windows \ {w} : win[u].phase # "closed"}} :
        LET data == IF read = None THEN <<>> ELSE read
        IN win' = [win EXCEPT ![w] = [Fresh EXCEPT !.phase = "loading",
                     !.own = Without(data, Brackets), !.todo = Restrict(data, DOMAIN data \cap Brackets)]]
  BY DEF Open
<1>2. PICK data : data = IF read = None THEN <<>> ELSE read
  OBVIOUS
<1>3. PICK own : own = Without(data, Brackets)
  OBVIOUS
<1>4. PICK todo : todo = Restrict(data, DOMAIN data \cap Brackets)
  OBVIOUS
<1>5. PICK y : y = [Fresh EXCEPT !.phase = "loading", !.own = own, !.todo = todo]
  OBVIOUS
<1>6. win' = [win EXCEPT ![w] = y] /\ file' = file /\ crashes' = crashes
      /\ shared' = \E u \in Windows \ {w} : win[u].phase # "closed"
  BY <1>1, <1>2, <1>3, <1>4, <1>5 DEF Open
<1>7. data \in Looks /\ DOMAIN data \subseteq Stored
  BY <1>1, <1>2, EmptyLook DEF DrawingIInv, FileFits
<1>8. own \in Looks /\ DOMAIN own = DOMAIN data \ Brackets
  BY <1>3, <1>7, WithoutLook
<1>9. todo \in Looks /\ DOMAIN todo = DOMAIN data \cap Brackets
  <2>1. todo \in [DOMAIN data \cap Brackets -> BOOLEAN]
    BY <1>4, <1>7, LookIs DEF Restrict
  <2>2. QED BY <1>7, <2>1, LookIs, LookMade
<1>10. /\ y \in WindowStates /\ y.phase = "loading" /\ y.own = own /\ y.todo = todo /\ y.idx = {}
       /\ y.canvas /\ ~y.locked /\ ~y.live /\ ~y.sel /\ y.edit = None /\ y.held = None /\ y.panel = None
  BY <1>5, <1>8, <1>9 DEF Fresh, WindowStates, Tools
<1>11. Good(y)
  BY <1>7, <1>8, <1>9, <1>10 DEF Good, EditFits, ListsFit, ModeFits
<1>12. ASSUME ~shared'
       PROVE  LoneFits(y, file') /\ \A u \in Windows \ {w} : win[u].phase = "closed"
  <2>1. \A u \in Windows \ {w} : win[u].phase = "closed"
    BY <1>6, <1>12
  <2>2. read = file
    BY <1>1, <2>1
  <2>3. data # None => DOMAIN data \subseteq DOMAIN own \cup DOMAIN todo
    BY <1>8, <1>9
  <2>4. ASSUME todo = <<>> PROVE own = data
    <3>1. DOMAIN data \cap Brackets = {}
      BY <1>9, <2>4, EmptyLook
    <3>2. own = [d \in DOMAIN data |-> data[d]]
      BY <1>3, <3>1 DEF Without
    <3>3. QED BY <1>7, <3>2, LookIs
  <2>5. LoneFits(y, file)
    BY <1>2, <1>10, <2>2, <2>3, <2>4 DEF LoneFits
  <2>6. QED BY <1>6, <2>1, <2>5
<1>13. DrawingIInv'
  BY <1>6, <1>11, <1>12, WindowKeeps DEF DrawingIInv
<1>14. QED BY <1>6, <1>10, <1>13 DEF DrawingIInv

(* A bracket that is built joins the list, and the list is saved.           *)
LEMMA BracketLoads ==
  ASSUME DrawingIInv, NEW w \in Windows, LoadBracket(w)
  PROVE  /\ DrawingIInv' /\ win'[w].edit = None /\ UNCHANGED <<shared, crashes>>
         /\ win[w].phase = "loading" /\ win'[w].phase = "loading"
         /\ \E d \in DOMAIN win[w].todo :
              /\ file' \in Looks /\ DOMAIN file' = DOMAIN win[w].own \cup {d}
              /\ DOMAIN win'[w].todo = DOMAIN win[w].todo \ {d}
<1>1. PICK x : x = win[w]
  OBVIOUS
<1>2. PICK d \in DOMAIN x.todo :
        Saves(w, [x EXCEPT !.own = [e \in DOMAIN @ \cup {d} |-> IF e = d THEN x.todo[d] ELSE @[e]],
                           !.todo = Without(@, {d})])
  BY <1>1 DEF LoadBracket
<1>3. PICK own : own = [e \in DOMAIN x.own \cup {d} |-> IF e = d THEN x.todo[d] ELSE x.own[e]]
  OBVIOUS
<1>4. PICK todo : todo = Without(x.todo, {d})
  OBVIOUS
<1>5. PICK y : y = [x EXCEPT !.own = own, !.todo = todo]
  OBVIOUS
<1>6. Good(x) /\ x.phase = "loading" /\ x \in WindowStates
  BY <1>1 DEF LoadBracket, DrawingIInv, Good
<1>7. x.own \in Looks /\ x.todo \in Looks /\ DOMAIN x.own \subseteq Stored
      /\ DOMAIN x.todo \subseteq Stored \cap Brackets
  BY <1>6 DEF Good, WindowStates, ListsFit
<1>8. own \in Looks /\ DOMAIN own = DOMAIN x.own \cup {d}
  <2>1. own \in [DOMAIN x.own \cup {d} -> BOOLEAN]
    BY <1>3, <1>7, LookIs
  <2>2. DOMAIN x.own \cup {d} \subseteq Drawings
    BY <1>7, LookIs
  <2>3. QED BY <2>1, <2>2, LookMade
<1>9. todo \in Looks /\ DOMAIN todo = DOMAIN x.todo \ {d}
  BY <1>4, <1>7, WithoutLook
<1>10. Saves(w, y)
  BY <1>2, <1>3, <1>4, <1>5, <1>6 DEF WindowStates
<1>11. /\ y \in WindowStates /\ y.phase = "loading" /\ y.own = own /\ y.todo = todo /\ y.idx = x.idx
       /\ y.canvas = x.canvas /\ y.locked = x.locked /\ y.live = x.live /\ y.sel = x.sel
       /\ y.edit = x.edit /\ y.held = x.held /\ y.panel = x.panel /\ y.index = x.index
  BY <1>5, <1>6, <1>8, <1>9 DEF WindowStates
<1>12. /\ x.canvas /\ ~x.locked /\ ~x.live /\ ~x.sel /\ x.idx = {}
       /\ x.edit = None /\ x.held = None /\ x.panel = None
  BY <1>6 DEF Good, ModeFits
<1>13. Good(y)
  BY <1>7, <1>8, <1>9, <1>11, <1>12 DEF Good, EditFits, ListsFit, ModeFits
<1>14. own # None
  BY <1>8, DrawingAssumption
<1>15. win' = [win EXCEPT ![w] = y] /\ file' = own /\ UNCHANGED <<shared, crashes>>
  BY <1>10, <1>11 DEF Saves, Payload
<1>16. LoneFits(y, file') /\ FileFits(file')
  BY <1>7, <1>8, <1>11, <1>14, <1>15 DEF LoneFits, FileFits
<1>17. DrawingIInv'
  BY <1>1, <1>6, <1>13, <1>15, <1>16, OthersClosed, WindowKeeps DEF DrawingIInv
<1>18. win'[w] = y
  BY <1>15 DEF DrawingIInv
<1>19. QED BY <1>1, <1>6, <1>8, <1>9, <1>11, <1>12, <1>15, <1>17, <1>18

(* The construction ends on the canvas.                                     *)
LEMMA OpenedKeeps ==
  ASSUME DrawingIInv, NEW w \in Windows, Opened(w)
  PROVE  DrawingIInv' /\ file' = file /\ win'[w].edit = None
<1>1. PICK x : x = win[w]
  OBVIOUS
<1>2. x.phase = "loading" /\ x.todo = <<>> /\ Good(x)
  BY <1>1 DEF Opened, DrawingIInv
<1>3. PICK z : z = Switched(x, TRUE)
  OBVIOUS
<1>4. PICK y : y = [z EXCEPT !.phase = "open"]
  OBVIOUS
<1>5. Good(y)
  BY <1>2, <1>3, <1>4, GoodSwitched
<1>6. z = [x EXCEPT !.canvas = TRUE, !.locked = FALSE, !.index = TRUE]
  BY <1>3 DEF Switched
<1>7. y.phase = "open" /\ y.own = x.own /\ y.held = x.held /\ y.edit = x.edit
  BY <1>2, <1>4, <1>6 DEF Good, WindowStates
<1>8. x.edit = None /\ x.held = None
  BY <1>2 DEF Good, ModeFits
<1>9. win' = [win EXCEPT ![w] = y] /\ UNCHANGED <<file, shared, crashes>>
  BY <1>1, <1>3, <1>4 DEF Opened, Stays
<1>10. ~shared => LoneFits(x, file) /\ \A u \in Windows \ {w} : win[u].phase = "closed"
  BY <1>1, <1>2, OthersClosed
<1>11. ~shared => LoneFits(y, file)
  BY <1>2, <1>7, <1>10 DEF LoneFits
<1>12. DrawingIInv'
  BY <1>5, <1>9, <1>10, <1>11, WindowKeeps DEF DrawingIInv
<1>13. QED BY <1>7, <1>8, <1>9, <1>12 DEF DrawingIInv

(* A window that closes leaves the file as it is.                           *)
LEMMA CloseKeeps ==
  ASSUME DrawingIInv, NEW w \in Windows, Close(w)
  PROVE  DrawingIInv' /\ file' = file /\ win'[w].edit = None
<1>1. win' = [win EXCEPT ![w] = Fresh] /\ UNCHANGED <<file, shared, crashes>> /\ win[w].phase = "open"
  BY DEF Close, IsOpen, Stays
<1>2. Fresh.phase = "closed" /\ Fresh.edit = None
  BY DEF Fresh
<1>3. LoneFits(Fresh, file)
  BY <1>2 DEF LoneFits
<1>4. DrawingIInv'
  BY <1>1, <1>3, GoodFresh, OthersClosed, WindowKeeps DEF DrawingIInv
<1>5. QED BY <1>1, <1>2, <1>4 DEF DrawingIInv

(* One that dies may leave it unreadable.                                   *)
LEMMA CrashKeeps ==
  ASSUME DrawingIInv, NEW w \in Windows, Crash(w)
  PROVE  DrawingIInv' /\ crashes' # crashes /\ win'[w].edit = None
<1>1. /\ win' = [win EXCEPT ![w] = Fresh] /\ shared' = shared /\ win[w].phase # "closed"
      /\ file' \in {file, None} /\ crashes' = crashes + 1 /\ crashes < MaxCrashes
  BY DEF Crash
<1>2. Fresh.phase = "closed" /\ Fresh.edit = None
  BY DEF Fresh
<1>3. LoneFits(Fresh, file') /\ FileFits(file')
  BY <1>1, <1>2 DEF LoneFits, FileFits, DrawingIInv
<1>4. crashes' \in 0..MaxCrashes /\ crashes' # crashes
  BY <1>1, DrawingAssumption DEF DrawingIInv
<1>5. DrawingIInv'
  BY <1>1, <1>3, <1>4, GoodFresh, OthersClosed, WindowKeeps DEF DrawingIInv
<1>6. QED BY <1>1, <1>2, <1>4, <1>5 DEF DrawingIInv

-----------------------------------------------------------------------------
(* The steps of all windows *)

(* No window is open, and the file holds what an earlier run saved.         *)
LEMMA DrawingInit ==
  ASSUME Init
  PROVE  DrawingIInv
<1>1. \A w \in Windows : win[w] = Fresh
  BY DEF Init
<1>2. win \in [Windows -> WindowStates]
  BY GoodFresh DEF Init, Good
<1>3. FileFits(file)
  <2>1. CASE file = None
    BY <2>1 DEF FileFits
  <2>2. CASE \E S \in SUBSET Stored : file = [d \in S |-> FALSE]
    <3>1. PICK S \in SUBSET Stored : file = [d \in S |-> FALSE]
      BY <2>2
    <3>2. file \in [S -> BOOLEAN] /\ DOMAIN file = S /\ S \subseteq Drawings
      BY <3>1 DEF Drawings
    <3>3. QED BY <3>2, LookMade DEF FileFits
  <2>3. QED BY <2>1, <2>2 DEF Init
<1>4. \A w \in Windows : LoneFits(win[w], file) /\ win[w].phase = "closed"
  BY <1>1 DEF LoneFits, Fresh
<1>5. shared = FALSE /\ crashes \in 0..MaxCrashes
  BY DrawingAssumption DEF Init
<1>6. QED BY <1>1, <1>2, <1>3, <1>4, <1>5, GoodFresh DEF DrawingIInv

(* The steps that do not edit leave the window without dots.                *)
LifeStep(w) == Open(w) \/ LoadBracket(w) \/ Opened(w) \/ Close(w) \/ Crash(w)

(* Every other step is an edit or a drag.                                   *)
LEMMA StepSplits ==
  ASSUME DrawingIInv, NEW w \in Windows, WindowStep(w)
  PROVE  LifeStep(w) \/ EditStep(w) \/ Dragging(w)
<1>1. Good(win[w])
  BY DEF DrawingIInv
<1>2. QED BY <1>1, ScannerEdits, ToolEdits, CancelEdits, BeginEdits, FinishEdits, SelectEdits, EraseEdits,
             ReleaseEdits, PanelEdits, BracketEdits, DragIs DEF WindowStep, LifeStep

(* They keep the invariant.                                                 *)
LEMMA LifeKeeps ==
  ASSUME DrawingIInv, NEW w \in Windows, LifeStep(w)
  PROVE  DrawingIInv' /\ win'[w].edit = None
  BY OpenKeeps, BracketLoads, OpenedKeeps, CloseKeeps, CrashKeeps DEF LifeStep

(* So does every step of a window.                                          *)
LEMMA DrawingStep ==
  ASSUME DrawingIInv, NEW w \in Windows, WindowStep(w)
  PROVE  DrawingIInv'
<1>1. CASE LifeStep(w)
  BY <1>1, LifeKeeps
<1>2. CASE EditStep(w)
  BY <1>2, EditKeeps DEF EditStep
<1>3. CASE Dragging(w)
  <2>1. PICK x, r, cx, cy, pts : DragTo(w, x, r, cx, cy, pts)
    BY <1>3 DEF Dragging
  <2>2. PICK y : win' = [win EXCEPT ![w] = y] /\ Edit(win[w], y)
    BY <2>1, DragEdits
  <2>3. QED BY <2>2, EditKeeps
<1>4. QED BY <1>1, <1>2, <1>3, StepSplits

(* And every step of the specification, a stutter too.                      *)
LEMMA DrawingNext ==
  ASSUME DrawingIInv, [Next]_vars
  PROVE  DrawingIInv'
<1>1. CASE Next
  BY <1>1, DrawingStep DEF Next
<1>2. CASE UNCHANGED vars
  BY <1>2 DEF vars, DrawingIInv
<1>3. QED BY <1>1, <1>2

(* The invariant holds of every behaviour.                                  *)
LEMMA DrawingInvariant == Spec => []DrawingIInv
<1>1. Init => DrawingIInv
  BY DrawingInit
<1>2. DrawingIInv /\ [Next]_vars => DrawingIInv'
  BY DrawingNext
<1>3. QED BY <1>1, <1>2, PTL DEF Spec

(* What each window holds, and what the file does, agree: nothing drawn on  *)
(* the canvas reaches the file, and a window that has the file to itself    *)
(* has written there every edit, erasure and trash (_save, _load).          *)
THEOREM FileHolds == Spec => []FileAndMemoryAgree
<1>1. DrawingIInv => FileAndMemoryAgree
  <2> SUFFICES ASSUME DrawingIInv PROVE FileAndMemoryAgree
    OBVIOUS
  <2>1. file # None => DOMAIN file \subseteq Stored
    BY DEF DrawingIInv, FileFits
  <2>2. Stored \cap Session = {}
    BY DrawingAssumption
  <2>3. \A w \in Windows : DOMAIN win[w].own \subseteq Stored
    BY DEF DrawingIInv, Good, ListsFit
  <2>4. SessionDrawingsStayInMemory
    BY <2>1, <2>2, <2>3 DEF SessionDrawingsStayInMemory
  <2>5. LoneWindowOwnsTheFile
    BY DEF LoneWindowOwnsTheFile, DrawingIInv, LoneFits, IsOpen
  <2>6. QED BY <2>4, <2>5 DEF FileAndMemoryAgree
<1>2. QED BY <1>1, DrawingInvariant, PTL

(* Editing happens on the canvas only, and the dots of a shape sit on it, in *)
(* whatever order tools, modes, drags and releases come (_set_scanner,      *)
(* _on_drag, _reposition, set_tool).                                        *)
THEOREM EditsHold == Spec => []EditsFollowTheCanvas
<1>1. DrawingIInv => EditsFollowTheCanvas
  <2> SUFFICES ASSUME DrawingIInv PROVE EditsFollowTheCanvas
    OBVIOUS
  <2>1. file = None \/ (DOMAIN file \subseteq Drawings /\ \A d \in DOMAIN file : file[d] \in BOOLEAN)
    BY LookIs DEF DrawingIInv, FileFits
  <2>2. ASSUME NEW w \in Windows, NEW x, x = win[w]
        PROVE  /\ x.phase \in {"closed", "loading", "open"} /\ x.tool \in Tools
               /\ {x.canvas, x.locked, x.index, x.live, x.sel} \subseteq BOOLEAN
               /\ DOMAIN x.own \cap x.idx = {} /\ Holds(x) \subseteq Drawings
               /\ DOMAIN x.todo \subseteq Brackets
               /\ x.panel \in Drawings \cup {None}
               /\ x.edit # None => \A i, a \in 1..2 : x.edit.pts[i][a] \in 0..MaxX
               /\ x.phase = "open" => x.locked = ~x.canvas /\ x.index = x.canvas
    <3>1. Good(x)
      BY <2>2 DEF DrawingIInv
    <3>2. /\ x.phase \in {"closed", "loading", "open"} /\ x.tool \in Tools
          /\ {x.canvas, x.locked, x.index, x.live, x.sel} \subseteq BOOLEAN
          /\ x.panel \in Drawings \cup {None} /\ x.own \in Looks /\ x.idx \subseteq Drawings
      BY <3>1 DEF Good, WindowStates
    <3>3. Holds(x) \subseteq Drawings
      BY <3>2, LookIs DEF Holds
    <3>4. x.edit # None => \A i, a \in 1..2 : x.edit.pts[i][a] \in 0..MaxX
      BY <3>1, EditIs DEF Shapes
    <3>5. QED BY <3>1, <3>2, <3>3, <3>4 DEF Good, ListsFit, ModeFits
  <2>3. TypeOK
    BY <2>1, <2>2 DEF TypeOK, DrawingIInv
  <2>4. DotsSitOnTheShape
    BY DEF DrawingIInv, Good, EditFits, DotsSitOnTheShape
  <2>5. OnlyTheCanvasIsEdited
    BY DEF DrawingIInv, Good, ModeFits, OnlyTheCanvasIsEdited, IsOpen
  <2>6. QED BY <2>3, <2>4, <2>5 DEF EditsFollowTheCanvas
<1>2. QED BY <1>1, DrawingInvariant, PTL

-----------------------------------------------------------------------------
(* What a step may not do *)

(* The shape f that the dot r of e was dragged to.                          *)
DragFits(e, f, r) ==
    LET was == Specs(KindOf[e.id], e.pts)  moved == Specs(KindOf[f.id], f.pts)
    IN  /\ r \notin OneWay => moved[r] = f.dots[r]
        /\ r \in OneWay => \E i \in 1..2 : moved[r][i] = f.dots[r][i] /\ moved[r][3 - i] = was[r][3 - i]
        /\ r \in DOMAIN Opposite => moved[Opposite[r]] = was[Opposite[r]]

(* A window that no step touches keeps its dot where the shape is.          *)
LEMMA UntouchedFits ==
  ASSUME NEW x, Good(x), x.edit # None, x.held # None
  PROVE  DragFits(x.edit, x.edit, x.held)
<1>1. HeldSits(x.edit, x.held)
  BY DEF Good, EditFits
<1>2. QED BY <1>1 DEF HeldSits, DragFits

(* The window that drags.                                                   *)
LEMMA DraggedFits ==
  ASSUME DrawingIInv, NEW w \in Windows, NEW x, NEW r, NEW cx, NEW cy, NEW pts,
         DragTo(w, x, r, cx, cy, pts)
  PROVE  win'[w].held = r /\ DragFits(win[w].edit, win'[w].edit, r)
<1>1. PICK y : /\ win' = [win EXCEPT ![w] = y] /\ Edit(win[w], y) /\ y.held = r /\ y.edit # None
               /\ y.edit.id = win[w].edit.id /\ y.edit.pts = pts
               /\ y.edit.dots[r] = <<2 * cx, 2 * cy>>
  BY DragEdits
<1>2. win'[w] = y
  BY <1>1 DEF DrawingIInv
<1>3. PICK e : e = win[w].edit
  OBVIOUS
<1>4. PICK c : c = <<2 * cx, 2 * cy>>
  OBVIOUS
<1>5. /\ e # None /\ r \in DOMAIN e.dots /\ cx \in Int /\ cy \in Int
      /\ pts \in Shapes /\ pts = Dragged(e.pts, r, c)
      /\ r = "center" => \A a \in 1..2 : (c[a] - e.pts[1][a] - e.pts[2][a]) % 2 = 0
  BY <1>3, <1>4 DEF DragTo
<1>6. Good(win[w])
  BY DEF DrawingIInv
<1>7. PICK kind : kind = KindOf[e.id]
  OBVIOUS
<1>8. kind \in Kinds \ {"bracket"} /\ e.pts \in Shapes /\ r \in DOMAIN SpecOf[kind]
  BY <1>3, <1>5, <1>6, <1>7, EditIs
<1>9. r = "center" => /\ (2 * cx - e.pts[1][1] - e.pts[2][1]) % 2 = 0
                      /\ (2 * cy - e.pts[1][2] - e.pts[2][2]) % 2 = 0
  <2>1. c[1] = 2 * cx /\ c[2] = 2 * cy
    BY <1>4
  <2>2. QED BY <1>5, <2>1
<1>10. pts = Dragged(e.pts, r, <<2 * cx, 2 * cy>>)
  BY <1>4, <1>5
<1>11. LET was == Specs(kind, e.pts)  moved == Specs(kind, pts)  k == <<2 * cx, 2 * cy>>
       IN  /\ r \notin OneWay => moved[r] = k
           /\ r \in OneWay => \E i \in 1..2 : moved[r][i] = k[i] /\ moved[r][3 - i] = was[r][3 - i]
           /\ r \in DOMAIN Opposite => moved[Opposite[r]] = was[Opposite[r]]
  BY <1>5, <1>8, <1>9, <1>10, DragSits
<1>12. QED BY <1>1, <1>2, <1>3, <1>7, <1>11 DEF DragFits

(* The action of DragMovesOnlyItsSide.                                      *)
LEMMA StepDrags ==
  ASSUME DrawingIInv, NEW w \in Windows, WindowStep(w), NEW v \in Windows,
         win[v].edit # None, win'[v].edit # None, win'[v].held # None
  PROVE  DragFits(win[v].edit, win'[v].edit, win'[v].held)
<1>1. Good(win[v]) /\ win \in [Windows -> WindowStates]
  BY DEF DrawingIInv
<1>2. \E y : win' = [win EXCEPT ![w] = y]
  <2>1. CASE LifeStep(w)
    BY <2>1 DEF LifeStep, Open, LoadBracket, Opened, Close, Crash, Stays, Saves
  <2>2. CASE EditStep(w)
    BY <2>2 DEF EditStep
  <2>3. CASE Dragging(w)
    BY <2>3 DEF Dragging, DragTo
  <2>4. QED BY <2>1, <2>2, <2>3, StepSplits
<1>3. CASE v # w
  <2>1. win'[v] = win[v]
    BY <1>1, <1>2, <1>3
  <2>2. QED BY <1>1, <2>1, UntouchedFits
<1>4. CASE v = w
  <2>1. CASE LifeStep(w)
    BY <1>4, <2>1, LifeKeeps
  <2>2. CASE EditStep(w)
    <3>1. PICK y : win' = [win EXCEPT ![w] = y] /\ LetGo(y)
      BY <2>2 DEF EditStep
    <3>2. win'[w] = y
      BY <1>1, <3>1
    <3>3. QED BY <1>4, <3>1, <3>2 DEF LetGo
  <2>3. CASE Dragging(w)
    BY <1>4, <2>3, DraggedFits DEF Dragging
  <2>4. QED BY <2>1, <2>2, <2>3, StepSplits
<1>5. QED BY <1>3, <1>4

(* A drag moves the point of the shape that is under the mouse, and leaves  *)
(* the opposite one where it was, whatever the shape (_on_drag, _specs).    *)
THEOREM DragHolds == Spec => DragMovesOnlyItsSide
<1> DEFINE Fits == \A v \in Windows :
             win[v].edit # None /\ win'[v].edit # None /\ win'[v].held # None
               => DragFits(win[v].edit, win'[v].edit, win'[v].held)
<1>1. DrawingIInv /\ [Next]_vars => [Fits]_vars
  BY StepDrags DEF Next
<1>2. Fits =>
        \A w \in Windows : LET e == win[w].edit  f == win'[w].edit  r == win'[w].held IN
          e # None /\ f # None /\ r # None =>
            LET was == Specs(KindOf[e.id], e.pts)  moved == Specs(KindOf[f.id], f.pts) IN
            /\ r \notin OneWay => moved[r] = f.dots[r]
            /\ r \in OneWay => \E i \in 1..2 : moved[r][i] = f.dots[r][i] /\ moved[r][3 - i] = was[r][3 - i]
            /\ r \in DOMAIN Opposite => moved[Opposite[r]] = was[Opposite[r]]
  BY DEF DragFits
<1> HIDE DEF Fits
<1>3. QED BY <1>1, <1>2, DrawingInvariant, PTL DEF Spec, DragMovesOnlyItsSide

(* How a drawing may leave the file.                                        *)
MayLose(d) ==
    \/ crashes' # crashes
    \/ \E w \in Windows :
         \/ IsOpen(w) /\ d \in DOMAIN win[w].own \ DOMAIN win'[w].own
         \/ win'[w].phase = "loading" /\ d \in DOMAIN win'[w].todo
         \/ shared /\ win[w].phase # "closed" /\ d \notin DOMAIN win[w].own

(* What an edit loses from the file was erased by it, or never its own.     *)
LEMMA EditLoses ==
  ASSUME DrawingIInv, NEW w \in Windows, NEW y, win' = [win EXCEPT ![w] = y], Edit(win[w], y),
         NEW d, Readable(file, d), ~Readable(file', d)
  PROVE  MayLose(d)
<1>1. /\ Good(y) /\ win[w].phase = "open" /\ win'[w] = y
      /\ (file' = y.own \/ file' = file)
  BY DEF Edit, DrawingIInv
<1>2. file' = y.own /\ file # None /\ d \in DOMAIN file
  BY <1>1 DEF Readable
<1>3. y.own # None
  <2>1. y.own \in Looks
    BY <1>1 DEF Good, WindowStates
  <2>2. QED BY <2>1, DrawingAssumption
<1>4. d \notin DOMAIN y.own
  BY <1>2, <1>3 DEF Readable
<1>5. CASE d \in DOMAIN win[w].own
  BY <1>1, <1>4, <1>5 DEF MayLose, IsOpen
<1>6. CASE d \notin DOMAIN win[w].own
  <2>1. shared
    <3>1. ~shared => LoneFits(win[w], file)
      BY DEF DrawingIInv
    <3>2. ~shared => DOMAIN file = DOMAIN win[w].own
      BY <1>1, <1>2, <3>1 DEF LoneFits
    <3>3. QED BY <1>2, <1>6, <3>2 DEF DrawingIInv
  <2>2. QED BY <1>1, <1>6, <2>1 DEF MayLose
<1>7. QED BY <1>5, <1>6

(* What a starting window loses it has yet to build, or never read.         *)
LEMMA LoadLoses ==
  ASSUME DrawingIInv, NEW w \in Windows, LoadBracket(w),
         NEW d, Readable(file, d), ~Readable(file', d)
  PROVE  MayLose(d)
<1>1. PICK b \in DOMAIN win[w].todo :
        /\ file' \in Looks /\ DOMAIN file' = DOMAIN win[w].own \cup {b}
        /\ DOMAIN win'[w].todo = DOMAIN win[w].todo \ {b}
  BY BracketLoads
<1>2. win[w].phase = "loading" /\ win'[w].phase = "loading"
  BY BracketLoads
<1>3. file' # None
  BY <1>1, DrawingAssumption
<1>4. d \notin DOMAIN win[w].own /\ d # b /\ file # None /\ d \in DOMAIN file
  BY <1>1, <1>3 DEF Readable
<1>5. CASE shared
  BY <1>2, <1>4, <1>5 DEF MayLose
<1>6. CASE ~shared
  <2>1. DOMAIN file \subseteq DOMAIN win[w].own \cup DOMAIN win[w].todo
    <3>1. LoneFits(win[w], file)
      BY <1>6 DEF DrawingIInv
    <3>2. QED BY <1>2, <1>4, <3>1 DEF LoneFits
  <2>2. d \in DOMAIN win'[w].todo
    BY <1>1, <1>4, <2>1
  <2>3. QED BY <1>2, <2>2 DEF MayLose
<1>7. QED BY <1>5, <1>6

(* What any step loses.                                                     *)
LEMMA StepLoses ==
  ASSUME DrawingIInv, NEW w \in Windows, WindowStep(w),
         NEW d, Readable(file, d), ~Readable(file', d)
  PROVE  MayLose(d)
<1>1. CASE LifeStep(w)
  <2>1. CASE LoadBracket(w)
    BY <2>1, LoadLoses
  <2>2. CASE Crash(w)
    BY <2>2, CrashKeeps DEF MayLose
  <2>3. CASE Open(w) \/ Opened(w) \/ Close(w)
    BY <2>3, OpenKeeps, OpenedKeeps, CloseKeeps
  <2>4. QED BY <1>1, <2>1, <2>2, <2>3 DEF LifeStep
<1>2. CASE EditStep(w)
  BY <1>2, EditLoses DEF EditStep
<1>3. CASE Dragging(w)
  <2>1. PICK x, r, cx, cy, pts : DragTo(w, x, r, cx, cy, pts)
    BY <1>3 DEF Dragging
  <2>2. PICK y : win' = [win EXCEPT ![w] = y] /\ Edit(win[w], y)
    BY <2>1, DragEdits
  <2>3. QED BY <2>2, EditLoses
<1>4. QED BY <1>1, <1>2, <1>3, StepSplits

(* A drawing leaves the file only by an erasure, by a window that shares the *)
(* file and never had it, while a starting window has yet to build it, or   *)
(* with a window that dies (_save writes a whole list over the file).       *)
THEOREM LossHolds == Spec => LostOnlyWhenErasedOrShared
<1> DEFINE Loses == \A d \in Drawings : Readable(file, d) /\ ~Readable(file', d) => MayLose(d)
<1>1. DrawingIInv /\ [Next]_vars => [Loses]_vars
  BY StepLoses DEF Next
<1>2. Loses =>
        \A d \in Drawings : Readable(file, d) /\ ~Readable(file', d) =>
          \/ crashes' # crashes
          \/ \E w \in Windows :
               \/ IsOpen(w) /\ d \in DOMAIN win[w].own \ DOMAIN win'[w].own
               \/ win'[w].phase = "loading" /\ d \in DOMAIN win'[w].todo
               \/ shared /\ win[w].phase # "closed" /\ d \notin DOMAIN win[w].own
  BY DEF MayLose
<1> HIDE DEF Loses
<1>3. QED BY <1>1, <1>2, DrawingInvariant, PTL DEF Spec, LostOnlyWhenErasedOrShared

-----------------------------------------------------------------------------
(* The selection's readout. *)

SelBucket == [id : Nat, vol : Nat, forced : Nat]

(* Buckets numbered without holes, none after the forming one, all but the *)
(* last full: up to number B with the volume of the first timeframe, after *)
(* it with that of the second.                                             *)
Numbered(s) == \A i, j \in DOMAIN s : s[j].id = s[i].id + (j - i)
FullFor(s, t) == \A i \in DOMAIN s : i < Len(s) => s[i].vol = SelTargets[t]
Made(s, B) ==
    \/ FullFor(s, 1) /\ \A i \in DOMAIN s : s[i].id <= B
    \/ FullFor(s, 2) /\ \A i \in DOMAIN s : s[i].id > B
Sane(s, B) ==
    /\ s \in Seq(SelBucket) /\ Numbered(s) /\ Made(s, B)
    /\ \A i \in DOMAIN s : s[i].id <= edge.id

(* The signature of a readout, its panels and switch named.                *)
SignatureOf(l, b, ps, on, thr, tv) ==
    <<b, Len(l), SpanOf(l, b), TouchesLive(l, b),
      IF TouchesLive(l, b) \/ Ranked(l, b) THEN l[Len(l)].vol ELSE 0,
      ps, on, thr, tv>>

(* The readout was computed from a list whose signature is remembered.     *)
ComputedFrom(l, b, ps, on, thr, tv) ==
    /\ l # <<>> /\ Inside(l, b)
    /\ selSig = SignatureOf(l, b, ps, on, thr, tv)
    /\ readout = Computed(l, b, ps, readout.thr, tv)
ReadoutIsComputed(B) ==
    IF selSig = NoKey THEN readout = NoReadout
    ELSE \E l \in Seq(SelBucket), b \in SelBoxes : \E ps, on, thr, tv :
            Sane(l, B) /\ ComputedFrom(l, b, ps, on, thr, tv)

(* The feed's state: its buckets are numbered and full up to the forming   *)
(* one.                                                                    *)
FeedIsSound(B) ==
    /\ selTf \in {1, 2} \cap DOMAIN SelTargets
    /\ bars \in Seq(SelBucket) /\ Len(bars) <= SelCap
    /\ edge \in SelBucket /\ edge.id \in 1..SelMaxId /\ edge.vol < SelTargets[selTf]
    /\ Sane(Append(bars, edge), B)
    /\ selTf = 1 => B >= SelMaxId
    /\ selTf = 2 => B < edge.id

ListsAreSound(B) ==
    /\ snap.closed \in Seq(SelBucket) /\ snap.live \in SelBucket
    /\ Sane(Append(snap.closed, snap.live), B) /\ Sane(list, B)

ViewIsSound ==
    /\ box \in SelBoxes \cup {NoBox} /\ panels \subseteq SelPanels
    /\ slider.by \in {"auto", "user"} /\ slider.obj = sliderOf
    /\ slider = [by |-> slider.by, obj |-> slider.obj]
    /\ statsBox \in BOOLEAN /\ boxOn \in BOOLEAN
    /\ statsBox => boxOn /\ readout # NoReadout

SelectionIInv ==
    /\ ViewIsSound
    /\ \E B \in Nat : FeedIsSound(B) /\ ListsAreSound(B) /\ ReadoutIsComputed(B)

LEMMA SelBucketParts ==
  ASSUME NEW s \in Seq(SelBucket), NEW i \in DOMAIN s
  PROVE  s[i].id \in Nat /\ s[i].vol \in Nat /\ i \in 1..Len(s) /\ Len(s) \in Nat
<1>1. s[i] \in SelBucket
  OBVIOUS
<1>2. s[i].id \in Nat /\ s[i].vol \in Nat
  BY <1>1 DEF SelBucket
<1>3. QED BY <1>2

(* A suffix and a beginning of such buckets are such buckets.              *)
LEMMA SuffixIsSane ==
  ASSUME NEW s, NEW B, Sane(s, B), NEW k \in 0..Len(s)
  PROVE  Sane(SubSeq(s, k + 1, Len(s)), B)
<1>1. s \in Seq(SelBucket) /\ Len(s) \in Nat
  BY DEF Sane
<1>2. PICK r : r = SubSeq(s, k + 1, Len(s))
  OBVIOUS
<1>3. /\ r \in Seq(SelBucket) /\ Len(r) = Len(s) - k
      /\ \A i \in DOMAIN r : i + k \in DOMAIN s /\ r[i] = s[i + k] /\ i \in Int
  BY <1>1, <1>2
<1>4. Numbered(r)
  <2>1. ASSUME NEW i \in DOMAIN r, NEW j \in DOMAIN r PROVE r[j].id = r[i].id + (j - i)
    <3>1. i + k \in DOMAIN s /\ j + k \in DOMAIN s /\ i \in Int /\ j \in Int /\ k \in Int
      BY <1>3
    <3>2. s[j + k].id = s[i + k].id + ((j + k) - (i + k))
      BY <3>1 DEF Sane, Numbered
    <3>3. (j + k) - (i + k) = j - i
      BY <3>1
    <3>4. QED BY <1>3, <3>2, <3>3
  <2>2. QED BY <2>1 DEF Numbered
<1>5. ASSUME NEW t, FullFor(s, t) PROVE FullFor(r, t)
  <2>1. \A i \in DOMAIN r : i < Len(r) => i + k < Len(s)
    BY <1>1, <1>3
  <2>2. QED BY <1>3, <1>5, <2>1 DEF FullFor
<1>6. Made(r, B)
  <2>1. Made(s, B)
    BY DEF Sane
  <2>2. QED BY <1>3, <1>5, <2>1 DEF Made
<1>7. \A i \in DOMAIN r : r[i].id <= edge.id
  BY <1>3 DEF Sane
<1>8. QED BY <1>2, <1>3, <1>4, <1>6, <1>7 DEF Sane

LEMMA BeginningIsSane ==
  ASSUME NEW s \in Seq(SelBucket), NEW x \in SelBucket, NEW B, Sane(Append(s, x), B)
  PROVE  Sane(s, B)
<1>1. PICK r : r = Append(s, x)
  OBVIOUS
<1>2. /\ r \in Seq(SelBucket) /\ Len(r) = Len(s) + 1 /\ Len(s) \in Nat
      /\ \A i \in DOMAIN s : i \in DOMAIN r /\ r[i] = s[i] /\ i \in Nat
  BY <1>1
<1>3. Numbered(s)
  BY <1>1, <1>2 DEF Sane, Numbered
<1>4. ASSUME NEW t, FullFor(r, t) PROVE FullFor(s, t)
  BY <1>2, <1>4 DEF FullFor
<1>5. Made(s, B)
  <2>1. Made(r, B)
    BY <1>1 DEF Sane
  <2>2. QED BY <1>2, <1>4, <2>1 DEF Made
<1>6. \A i \in DOMAIN s : s[i].id <= edge.id
  BY <1>1, <1>2 DEF Sane
<1>7. QED BY <1>3, <1>5, <1>6 DEF Sane

(* Two such lists of one length, the same first bucket and, where it is    *)
(* asked, the same last volume, differ in forced volumes only.             *)
LEMMA SameLists ==
  ASSUME NEW s, NEW r, NEW B \in Nat, Sane(s, B), Sane(r, B), s # <<>>,
         Len(s) = Len(r), s[1].id = r[1].id, NEW i \in 1..Len(s)
  PROVE  s[i].id = r[i].id /\ (i < Len(s) => s[i].vol = r[i].vol)
<1>1. /\ s \in Seq(SelBucket) /\ r \in Seq(SelBucket) /\ Len(s) \in Nat
      /\ 1 \in DOMAIN s /\ 1 \in DOMAIN r /\ i \in DOMAIN s /\ i \in DOMAIN r
  BY DEF Sane
<1>2. s[1].id \in Nat
  BY <1>1, SelBucketParts
<1>3. s[i].id = r[i].id
  <2>1. Numbered(s) /\ Numbered(r)
    BY DEF Sane
  <2>2. s[i].id = s[1].id + (i - 1) /\ r[i].id = r[1].id + (i - 1)
    BY <1>1, <2>1 DEF Numbered
  <2>3. QED BY <2>2
<1>4. s[1].id <= B \/ s[1].id > B
  BY <1>2
<1>5. ASSUME i < Len(s) PROVE s[i].vol = r[i].vol
  <2>1. Made(s, B) /\ Made(r, B)
    BY DEF Sane
  <2>2. CASE s[1].id <= B
    <3>1. FullFor(s, 1) /\ FullFor(r, 1)
      BY <1>1, <1>2, <2>1, <2>2 DEF Made
    <3>2. QED BY <1>1, <1>5, <3>1 DEF FullFor
  <2>3. CASE s[1].id > B
    <3>1. FullFor(s, 2) /\ FullFor(r, 2)
      BY <1>1, <1>2, <2>1, <2>3 DEF Made
    <3>2. QED BY <1>1, <1>5, <3>1 DEF FullFor
  <2>4. QED BY <1>4, <2>2, <2>3
<1>6. QED BY <1>3, <1>5

LEMMA SaneStays ==
  ASSUME NEW s, NEW B, Sane(s, B), edge.id \in Nat, edge'.id \in Nat, edge.id <= edge'.id
  PROVE  Sane(s, B)'
<1>1. s \in Seq(SelBucket) /\ Numbered(s) /\ Made(s, B)
  BY DEF Sane
<1>2. ASSUME NEW i \in DOMAIN s PROVE s[i].id <= edge'.id
  <2>1. s[i].id \in Nat /\ s[i].id <= edge.id
    BY <1>1, SelBucketParts DEF Sane
  <2>2. QED BY <2>1
<1>3. QED BY <1>1, <1>2 DEF Sane

LEMMA SameSane ==
  ASSUME NEW s, NEW B, edge' = edge
  PROVE  Sane(s, B)' <=> Sane(s, B)
BY DEF Sane

(* The list from the Zero Point on.                                        *)
LEMMA FromZeroIsSane ==
  ASSUME NEW s, NEW B, NEW a, s.closed \in Seq(SelBucket), s.live \in SelBucket,
         Sane(Append(s.closed, s.live), B)
  PROVE  Sane(FromZero(s, a), B)
<1>1. PICK j : j = Joined(s)
  OBVIOUS
<1>2. Sane(j, B)
  BY <1>1, BeginningIsSane DEF Joined
<1>3. j \in Seq(SelBucket) /\ Len(j) \in Nat
  BY <1>2 DEF Sane
<1>4. PICK E : E = Early(s, a)
  OBVIOUS
<1>5. E \subseteq 1..Len(j)
  BY <1>1, <1>3, <1>4 DEF Early
<1>6. Cardinality(E) \in 0..Len(j)
  <2>1. IsFiniteSet(1..Len(j)) /\ Cardinality(1..Len(j)) = Len(j)
    <3>1. PICK m \in Nat : m = Len(j)
      BY <1>3
    <3>2. 1 \in Int /\ m \in Int
      BY <3>1
    <3>3. IsFiniteSet(1..m) /\ Cardinality(1..m) = IF 1 > m THEN 0 ELSE m - 1 + 1
      BY <3>2, FS_Interval
    <3>4. QED BY <3>1, <3>3
  <2>2. IsFiniteSet(E) /\ Cardinality(E) <= Len(j)
    BY <1>5, <2>1, FS_Subset
  <2>3. Cardinality(E) \in Nat
    BY <2>2, FS_CardinalityType
  <2>4. QED BY <1>3, <2>2, <2>3
<1>7. FromZero(s, a) = SubSeq(j, Cardinality(E) + 1, Len(j))
  BY <1>1, <1>4 DEF FromZero
<1>8. PICK k \in 0..Len(j) : k = Cardinality(E)
  BY <1>6
<1>9. QED BY <1>2, <1>7, <1>8, SuffixIsSane

(* The readout knows its list by the signature.                            *)
LEMMA SignatureParts ==
  ASSUME NEW l, NEW b, NEW ps, NEW on, NEW thr, NEW tv,
         NEW r, NEW c, NEW qs, NEW off, NEW hold, NEW target,
         SignatureOf(l, b, ps, on, thr, tv) = SignatureOf(r, c, qs, off, hold, target)
  PROVE  /\ b = c /\ Len(l) = Len(r) /\ SpanOf(l, b) = SpanOf(r, c) /\ ps = qs /\ tv = target
         /\ TouchesLive(l, b) \/ Ranked(l, b) => l[Len(l)].vol = r[Len(r)].vol
<1>1. PICK x, y : x = SignatureOf(l, b, ps, on, thr, tv) /\ y = SignatureOf(r, c, qs, off, hold, target)
  OBVIOUS
<1>2. /\ x[1] = b /\ x[2] = Len(l) /\ x[3] = SpanOf(l, b) /\ x[6] = ps /\ x[9] = tv
      /\ x[5] = IF TouchesLive(l, b) \/ Ranked(l, b) THEN l[Len(l)].vol ELSE 0
      /\ y[1] = c /\ y[2] = Len(r) /\ y[3] = SpanOf(r, c) /\ y[6] = qs /\ y[9] = target
      /\ y[5] = IF TouchesLive(r, c) \/ Ranked(r, c) THEN r[Len(r)].vol ELSE 0
  BY <1>1 DEF SignatureOf
<1>3. b = c /\ Len(l) = Len(r) /\ SpanOf(l, b) = SpanOf(r, c) /\ ps = qs /\ tv = target
  BY <1>1, <1>2
<1>4. (TouchesLive(l, b) <=> TouchesLive(r, c)) /\ (Ranked(l, b) <=> Ranked(r, c))
  BY <1>3 DEF TouchesLive, Ranked, Held
<1>5. QED BY <1>1, <1>2, <1>3, <1>4

LEMMA SignatureIsKey ==
  ASSUME NEW l, NEW b, NEW ps, NEW on, NEW thr, NEW tv
  PROVE  SignatureOf(l, b, ps, on, thr, tv) # NoKey
BY DEF SignatureOf, NoKey

LEMMA ComputedIsReadout ==
  ASSUME NEW l, NEW b, NEW ps, NEW thr, NEW tv
  PROVE  Computed(l, b, ps, thr, tv) # NoReadout /\ Computed(l, b, ps, thr, tv).thr = thr
BY DEF Computed, NoReadout

(* What a refresh leaves is sound.                                         *)
LEMMA RefreshIsSound ==
  ASSUME NEW B \in Nat, edge' = edge, Sane(list, B), ReadoutIsComputed(B), ViewIsSound,
         snap'.closed \in Seq(SelBucket), snap'.live \in SelBucket,
         Sane(Append(snap'.closed, snap'.live), B),
         box' \in SelBoxes \cup {NoBox}, panels' \subseteq SelPanels, boxOn' \in BOOLEAN,
         NEW thr, thr = [by |-> thr.by, obj |-> sliderOf], thr.by \in {"auto", "user"},
         Refresh(thr)
  PROVE  ListsAreSound(B)' /\ ReadoutIsComputed(B)' /\ ViewIsSound'
<1>1. PICK sn, l, b, ps, on, a : sn = snap' /\ l = list' /\ b = box' /\ ps = panels' /\ on = boxOn' /\ a = selAnchor'
  OBVIOUS
<1>2. PICK ob : ob = boxObj'
  OBVIOUS
<1>3. Sane(l, B)
  <2>1. l = list \/ l = FromZero(sn, a)
    BY <1>1 DEF Refresh, Rebuild
  <2>2. sn.closed \in Seq(SelBucket) /\ sn.live \in SelBucket /\ Sane(Append(sn.closed, sn.live), B)
    BY <1>1
  <2>3. Sane(FromZero(sn, a), B)
    BY <2>2, FromZeroIsSane
  <2>4. QED BY <2>1, <2>3
<1>4. ListsAreSound(B)'
  <2>1. Sane(l, B)' /\ Sane(Append(sn.closed, sn.live), B)'
    BY <1>1, <1>3, SameSane
  <2>2. QED BY <1>1, <2>1 DEF ListsAreSound
<1>5. \/ HideReadout(thr)
      \/ /\ b # NoBox /\ l # <<>> /\ Inside(l, b)
         /\ \E sig \in {SignatureOf(l, b, ps, on, thr, sn.tv)} :
               IF sig = selSig THEN KeepReadout(thr) ELSE DrawReadout(l, b, thr, sig)
  BY <1>1 DEF Refresh, Signature, SignatureOf
<1>6. thr.obj = sliderOf /\ thr = [by |-> thr.by, obj |-> thr.obj]
  OBVIOUS
<1>7. CASE HideReadout(thr)
  <2>1. readout' = NoReadout /\ selSig' = NoKey /\ statsBox' = FALSE /\ slider' = thr /\ sliderOf' = sliderOf
    BY <1>7 DEF HideReadout
  <2>2. ReadoutIsComputed(B)'
    BY <2>1 DEF ReadoutIsComputed
  <2>3. ViewIsSound'
    BY <1>6, <2>1 DEF ViewIsSound
  <2>4. QED BY <1>4, <2>2, <2>3
<1>8. CASE /\ b # NoBox /\ l # <<>> /\ Inside(l, b) /\ selSig = SignatureOf(l, b, ps, on, thr, sn.tv)
           /\ KeepReadout(thr)
  <2>1. statsBox' = on /\ slider' = thr /\ UNCHANGED <<sliderOf, selSig, readout>>
    BY <1>1, <1>8 DEF KeepReadout
  <2>2. selSig # NoKey
    BY <1>8, SignatureIsKey
  <2>3. PICK s \in Seq(SelBucket), c \in SelBoxes : \E qs, off, hold, tv :
            Sane(s, B) /\ ComputedFrom(s, c, qs, off, hold, tv)
    BY <2>2 DEF ReadoutIsComputed
  <2>4. PICK qs, off, hold, tv : Sane(s, B) /\ ComputedFrom(s, c, qs, off, hold, tv)
    BY <2>3
  <2>5. Sane(s, B)' /\ ComputedFrom(s, c, qs, off, hold, tv)'
    BY <2>1, <2>4, SameSane DEF ComputedFrom
  <2>6. ReadoutIsComputed(B)'
    BY <2>1, <2>2, <2>5 DEF ReadoutIsComputed
  <2>7. readout # NoReadout
    BY <2>4, ComputedIsReadout DEF ComputedFrom
  <2>8. ViewIsSound'
    BY <1>1, <1>6, <2>1, <2>7 DEF ViewIsSound
  <2>9. QED BY <1>4, <2>6, <2>8
<1>9. CASE /\ b # NoBox /\ l # <<>> /\ Inside(l, b)
           /\ DrawReadout(l, b, thr, SignatureOf(l, b, ps, on, thr, sn.tv))
  <2>1. PICK hold : hold = slider'
    OBVIOUS
  <2>2. /\ selSig' = SignatureOf(l, b, ps, on, thr, sn.tv)
        /\ hold = Seeded(thr, ob) /\ sliderOf' = ob
        /\ readout' = Computed(l, b, ps, hold, sn.tv) /\ statsBox' = on
    BY <1>1, <1>2, <1>9, <2>1 DEF DrawReadout
  <2>3. readout'.thr = hold /\ readout' # NoReadout /\ selSig' # NoKey
    BY <2>2, ComputedIsReadout, SignatureIsKey
  <2>4. ComputedFrom(l, b, ps, on, thr, sn.tv)'
    BY <1>9, <2>2, <2>3 DEF ComputedFrom
  <2>5. l \in Seq(SelBucket) /\ b \in SelBoxes /\ Sane(l, B)'
    BY <1>1, <1>3, <1>9, SameSane DEF Sane
  <2>6. ReadoutIsComputed(B)'
    BY <2>3, <2>4, <2>5 DEF ReadoutIsComputed
  <2>7. hold.by \in {"auto", "user"} /\ hold.obj = ob /\ hold = [by |-> hold.by, obj |-> hold.obj]
    <3>1. CASE ob # sliderOf
      BY <2>2, <3>1 DEF Seeded
    <3>2. CASE ob = sliderOf
      BY <1>6, <2>2, <3>2 DEF Seeded
    <3>3. QED BY <3>1, <3>2
  <2>8. ViewIsSound'
    BY <1>1, <2>1, <2>2, <2>3, <2>7 DEF ViewIsSound
  <2>9. QED BY <1>4, <2>6, <2>8
<1>10. QED BY <1>5, <1>7, <1>8, <1>9

(* One empty bucket.                                                       *)
LEMMA OneIsSane ==
  ASSUME NEW x \in SelBucket, NEW B \in Nat, x.id <= edge.id
  PROVE  Sane(<<x>>, B)
<1>1. /\ <<x>> \in Seq(SelBucket) /\ Len(<<x>>) = 1 /\ <<x>>[1] = x
      /\ \A i \in DOMAIN <<x>> : i = 1
      /\ x.id \in Nat
  <2>1. x.id \in Nat
    BY DEF SelBucket
  <2>2. QED BY <2>1
<1>2. Numbered(<<x>>)
  <2>1. x.id = x.id + (1 - 1)
    BY <1>1
  <2>2. QED BY <1>1, <2>1 DEF Numbered
<1>3. FullFor(<<x>>, 1) /\ FullFor(<<x>>, 2)
  BY <1>1 DEF FullFor
<1>4. x.id <= B \/ x.id > B
  BY <1>1
<1>5. Made(<<x>>, B)
  BY <1>1, <1>3, <1>4 DEF Made
<1>6. QED BY <1>1, <1>2, <1>5 DEF Sane

LEMMA NoneIsSane ==
  ASSUME NEW B
  PROVE  Sane(<<>>, B)
BY DEF Sane, Numbered, Made, FullFor

LEMMA EmptyIsBucket ==
  ASSUME NEW n \in Nat
  PROVE  Empty(n) \in SelBucket /\ Empty(n).id = n /\ Empty(n).vol = 0
<1>1. Empty(n) = [id |-> n, vol |-> 0, forced |-> 0]
  BY DEF Empty
<1>2. QED BY <1>1 DEF SelBucket

LEMMA InitSelectionIInv == SelectionInit => SelectionIInv
<1> SUFFICES ASSUME SelectionInit PROVE SelectionIInv
  OBVIOUS
<1>1. /\ selTf = 1 /\ bars = <<>> /\ edge = Empty(1) /\ list = <<>>
      /\ snap = [closed |-> <<>>, live |-> Empty(1), tv |-> SelTargets[1]]
      /\ box = NoBox /\ panels = SelPanels /\ boxOn = TRUE
      /\ slider = [by |-> "auto", obj |-> 0] /\ sliderOf = 0
      /\ selSig = NoKey /\ readout = NoReadout /\ statsBox = FALSE
  BY DEF SelectionInit
<1>2. Empty(1) \in SelBucket /\ edge.id = 1 /\ edge.vol = 0 /\ Empty(1).id = 1
  BY <1>1, EmptyIsBucket
<1>3. SelMaxId \in Nat \ {0} /\ SelCap \in Nat \ {0} /\ 1 \in DOMAIN SelTargets /\ SelTargets[1] \in Nat \ {0}
  BY TerminalSelectionAssumption
<1>4. Append(<<>>, Empty(1)) = <<Empty(1)>>
  OBVIOUS
<1>5. Sane(Append(<<>>, Empty(1)), SelMaxId)
  <2>1. Sane(<<Empty(1)>>, SelMaxId)
    BY <1>2, <1>3, OneIsSane
  <2>2. QED BY <1>4, <2>1
<1>6. FeedIsSound(SelMaxId)
  BY <1>1, <1>2, <1>3, <1>5 DEF FeedIsSound
<1>7. ListsAreSound(SelMaxId)
  <2>1. snap.closed = <<>> /\ snap.live = Empty(1)
    BY <1>1
  <2>2. QED BY <1>1, <1>2, <1>5, <2>1, NoneIsSane DEF ListsAreSound
<1>8. ReadoutIsComputed(SelMaxId)
  BY <1>1 DEF ReadoutIsComputed
<1>9. ViewIsSound
  BY <1>1 DEF ViewIsSound
<1>10. QED BY <1>3, <1>6, <1>7, <1>8, <1>9 DEF SelectionIInv

(* A step of the feed leaves the view alone: what it holds stays sound when *)
(* no bucket comes before the edge.                                        *)
LEMMA FeedKeepsLists ==
  ASSUME NEW B \in Nat, NEW C \in Nat, ListsAreSound(B), ReadoutIsComputed(B),
         edge.id \in Nat, edge'.id \in Nat, edge.id <= edge'.id,
         \A s : Sane(s, B) => Sane(s, C), UNCHANGED <<snap, list, selSig, readout>>
  PROVE  ListsAreSound(C)' /\ ReadoutIsComputed(C)'
<1>1. \A s : Sane(s, B) => Sane(s, C)'
  BY SaneStays
<1>2. ListsAreSound(C)'
  BY <1>1 DEF ListsAreSound
<1>3. ReadoutIsComputed(C)'
  <2>1. CASE selSig = NoKey
    BY <2>1 DEF ReadoutIsComputed
  <2>2. CASE selSig # NoKey
    <3>1. PICK s \in Seq(SelBucket), c \in SelBoxes : \E qs, off, hold, tv :
              Sane(s, B) /\ ComputedFrom(s, c, qs, off, hold, tv)
      BY <2>2 DEF ReadoutIsComputed
    <3>2. PICK qs, off, hold, tv : Sane(s, B) /\ ComputedFrom(s, c, qs, off, hold, tv)
      BY <3>1
    <3>3. ComputedFrom(s, c, qs, off, hold, tv)'
      BY <3>2 DEF ComputedFrom
    <3>4. QED BY <1>1, <2>2, <3>2, <3>3 DEF ReadoutIsComputed
  <2>3. QED BY <2>1, <2>2
<1>4. QED BY <1>2, <1>3

(* The forming bucket is changed in place.                                 *)
LEMMA EdgeChanges ==
  ASSUME NEW s \in Seq(SelBucket), NEW x \in SelBucket, NEW y \in SelBucket, x.id = y.id,
         NEW B, Sane(Append(s, x), B)
  PROVE  Sane(Append(s, y), B)
<1>1. PICK r, q : r = Append(s, x) /\ q = Append(s, y)
  OBVIOUS
<1>2. /\ r \in Seq(SelBucket) /\ q \in Seq(SelBucket) /\ Len(r) = Len(s) + 1 /\ Len(q) = Len(s) + 1
      /\ Len(s) \in Nat /\ DOMAIN q = DOMAIN r
      /\ \A i \in DOMAIN r : (i < Len(r) => q[i] = r[i]) /\ q[i].id = r[i].id
  BY <1>1
<1>3. Numbered(q)
  BY <1>1, <1>2 DEF Sane, Numbered
<1>4. ASSUME NEW t, FullFor(r, t) PROVE FullFor(q, t)
  BY <1>2, <1>4 DEF FullFor
<1>5. Made(q, B)
  <2>1. Made(r, B)
    BY <1>1 DEF Sane
  <2>2. QED BY <1>2, <1>4, <2>1 DEF Made
<1>6. \A i \in DOMAIN q : q[i].id <= edge.id
  BY <1>1, <1>2 DEF Sane
<1>7. QED BY <1>1, <1>2, <1>3, <1>5, <1>6 DEF Sane

(* The next bucket is numbered on.                                         *)
LEMMA AppendNext ==
  ASSUME NEW q, NEW B \in Nat, Sane(q, B), q # <<>>, NEW x \in SelBucket,
         x.id = q[Len(q)].id + 1, NEW t \in {1, 2}, FullFor(q, t), q[Len(q)].vol = SelTargets[t],
         t = 1 => x.id <= B, t = 2 => \A i \in DOMAIN q : q[i].id > B, edge'.id = x.id
  PROVE  Sane(Append(q, x), B)'
<1>1. PICK r, n : r = Append(q, x) /\ n = Len(q)
  OBVIOUS
<1>2. /\ q \in Seq(SelBucket) /\ n \in Nat /\ n # 0 /\ n \in DOMAIN q
      /\ r \in Seq(SelBucket) /\ Len(r) = n + 1 /\ DOMAIN q = 1..n /\ DOMAIN r = 1..(n + 1)
      /\ \A i \in 1..n : r[i] = q[i]
      /\ r[n + 1] = x
  BY <1>1 DEF Sane
<1>3. \A i \in 1..n : q[i].id \in Nat
  BY <1>2, SelBucketParts
<1>4. \A i \in 1..(n + 1) : r[i].id = q[n].id + (i - n)
  <2>1. ASSUME NEW i \in 1..n PROVE r[i].id = q[n].id + (i - n)
    <3>1. q[i].id = q[n].id + (i - n)
      BY <1>2 DEF Sane, Numbered
    <3>2. QED BY <1>2, <3>1
  <2>2. r[n + 1].id = q[n].id + ((n + 1) - n)
    BY <1>1, <1>2, <1>3
  <2>3. QED BY <1>2, <2>1, <2>2
<1>5. Numbered(r)
  <2>1. ASSUME NEW i \in 1..(n + 1), NEW j \in 1..(n + 1) PROVE r[j].id = r[i].id + (j - i)
    BY <1>2, <1>3, <1>4
  <2>2. QED BY <1>2, <2>1 DEF Numbered
<1>6. FullFor(r, t)
  <2>1. ASSUME NEW i \in 1..n PROVE q[i].vol = SelTargets[t]
    BY <1>1, <1>2 DEF FullFor
  <2>2. QED BY <1>2, <2>1 DEF FullFor
<1>7. \A i \in DOMAIN r : r[i].id <= x.id
  BY <1>1, <1>2, <1>3, <1>4
<1>8. x.id \in Nat
  BY DEF SelBucket
<1>9. Made(r, B)
  <2>1. CASE t = 1
    <3>1. \A i \in DOMAIN r : r[i].id <= B
      BY <1>1, <1>2, <1>3, <1>4, <1>8, <2>1
    <3>2. QED BY <1>6, <2>1, <3>1 DEF Made
  <2>2. CASE t = 2
    <3>1. \A i \in DOMAIN r : r[i].id > B
      BY <1>1, <1>2, <1>3, <1>4, <2>2
    <3>2. QED BY <1>6, <2>2, <3>1 DEF Made
  <2>3. QED BY <2>1, <2>2
<1>10. QED BY <1>1, <1>2, <1>5, <1>7, <1>9 DEF Sane

(* A list that ends at the forming bucket is of its timeframe.             *)
LEMMA EdgeTellsEra ==
  ASSUME NEW q, NEW B \in Nat, Sane(q, B), q # <<>>, q[Len(q)].id = edge.id, FeedIsSound(B)
  PROVE  FullFor(q, selTf) /\ (selTf = 2 => \A i \in DOMAIN q : q[i].id > B) /\ selTf \in {1, 2}
<1>1. Len(q) \in DOMAIN q /\ q \in Seq(SelBucket)
  BY DEF Sane
<1>2. edge.id \in Nat /\ SelMaxId \in Nat /\ edge.id <= SelMaxId
  BY TerminalSelectionAssumption DEF FeedIsSound
<1>3. Made(q, B) /\ selTf \in {1, 2}
  BY DEF Sane, FeedIsSound
<1>4. CASE selTf = 1
  <2>1. ~(edge.id > B)
    BY <1>2, <1>4 DEF FeedIsSound
  <2>2. QED BY <1>1, <1>3, <1>4, <2>1 DEF Made
<1>5. CASE selTf = 2
  <2>1. ~(edge.id <= B)
    BY <1>2, <1>5 DEF FeedIsSound
  <2>2. QED BY <1>1, <1>3, <1>5, <2>1 DEF Made
<1>6. QED BY <1>3, <1>4, <1>5

LEMMA AtMostParts ==
  ASSUME NEW q \in Seq(SelBucket), q # <<>>
  PROVE  \E k \in 0..Len(q) :
            /\ AtMost(q, SelCap) = SubSeq(q, k + 1, Len(q))
            /\ Len(AtMost(q, SelCap)) <= SelCap /\ AtMost(q, SelCap) \in Seq(SelBucket)
            /\ AtMost(q, SelCap) # <<>>
            /\ AtMost(q, SelCap)[Len(AtMost(q, SelCap))] = q[Len(q)]
<1>1. SelCap \in Nat \ {0} /\ Len(q) \in Nat /\ Len(q) # 0
  BY TerminalSelectionAssumption
<1>2. PICK k \in 0..Len(q) : k = (IF Len(q) > SelCap THEN Len(q) - SelCap ELSE 0)
  BY <1>1
<1>3. PICK r : r = SubSeq(q, k + 1, Len(q))
  OBVIOUS
<1>4. /\ r \in Seq(SelBucket) /\ Len(r) = Len(q) - k /\ Len(r) # 0
      /\ r[Len(r)] = q[Len(q)]
  <2>1. k < Len(q)
    BY <1>1, <1>2
  <2>2. r \in Seq(SelBucket) /\ Len(r) = Len(q) - k
    BY <1>1, <1>3
  <2>3. r[Len(q) - k] = q[k + 1 + (Len(q) - k) - 1]
    BY <1>1, <1>3, <2>1
  <2>4. k + 1 + (Len(q) - k) - 1 = Len(q)
    BY <1>1
  <2>5. QED BY <1>1, <2>1, <2>2, <2>3, <2>4
<1>5. AtMost(q, SelCap) = r
  <2>1. CASE Len(q) > SelCap
    <3>1. k + 1 = Len(q) - SelCap + 1
      BY <1>2, <2>1
    <3>2. QED BY <1>3, <2>1, <3>1 DEF AtMost
  <2>2. CASE ~(Len(q) > SelCap)
    <3>1. k + 1 = 1
      BY <1>2, <2>2
    <3>2. SubSeq(q, 1, Len(q)) = q
      OBVIOUS
    <3>3. QED BY <1>3, <2>2, <3>1, <3>2 DEF AtMost
  <2>3. QED BY <2>1, <2>2
<1>6. Len(r) <= SelCap
  BY <1>1, <1>2, <1>4
<1>7. r # <<>>
  BY <1>4
<1>8. QED BY <1>3, <1>4, <1>5, <1>6, <1>7

LEMMA TradeKeepsSelection ==
  ASSUME SelectionIInv, FeedTrade
  PROVE  SelectionIInv'
<1>1. PICK B \in Nat : FeedIsSound(B) /\ ListsAreSound(B) /\ ReadoutIsComputed(B)
  BY DEF SelectionIInv
<1>2. /\ ViewIsSound /\ UNCHANGED <<selTf, snap, list, selSig, readout>>
      /\ UNCHANGED <<box, panels, slider, sliderOf, statsBox, boxOn>>
  BY DEF SelectionIInv, FeedTrade, unseen, viewSide
<1>3. ViewIsSound'
  BY <1>2 DEF ViewIsSound
<1>4. /\ selTf \in {1, 2} \cap DOMAIN SelTargets /\ SelTargets[selTf] \in Nat \ {0}
      /\ bars \in Seq(SelBucket) /\ Len(bars) <= SelCap
      /\ edge \in SelBucket /\ edge.id \in 1..SelMaxId /\ edge.vol < SelTargets[selTf]
      /\ Sane(Append(bars, edge), B) /\ (selTf = 1 => B >= SelMaxId) /\ (selTf = 2 => B < edge.id)
      /\ SelMaxId \in Nat
  BY <1>1, TerminalSelectionAssumption DEF FeedIsSound
<1>5. edge.id \in Nat /\ edge.vol \in Nat /\ edge = [id |-> edge.id, vol |-> edge.vol, forced |-> edge.forced]
      /\ edge.forced \in Nat
  BY <1>4 DEF SelBucket
<1>6. PICK full : full = [edge EXCEPT !.vol = @ + 1]
  OBVIOUS
<1>7. full \in SelBucket /\ full.id = edge.id /\ full.vol = edge.vol + 1
  BY <1>5, <1>6 DEF SelBucket
<1>8. CASE edge.vol + 1 < SelTargets[selTf]
  <2>1. edge' = full /\ bars' = bars
    BY <1>6, <1>8 DEF FeedTrade
  <2>2. Sane(Append(bars, full), B)
    BY <1>4, <1>7, EdgeChanges
  <2>3. Sane(Append(bars, full), B)'
    BY <1>5, <1>7, <2>1, <2>2, SaneStays
  <2>4. FeedIsSound(B)'
    BY <1>2, <1>4, <1>7, <1>8, <2>1, <2>3 DEF FeedIsSound
  <2>5. ListsAreSound(B)' /\ ReadoutIsComputed(B)'
    BY <1>1, <1>2, <1>5, <1>7, <2>1, FeedKeepsLists
  <2>6. QED BY <1>3, <2>4, <2>5 DEF SelectionIInv
<1>9. CASE ~(edge.vol + 1 < SelTargets[selTf])
  <2>1. PICK q, x : q = AtMost(Append(bars, full), SelCap) /\ x = Empty(edge.id + 1)
    OBVIOUS
  <2>2. bars' = q /\ edge' = x /\ edge.id < SelMaxId
    BY <1>6, <1>9, <2>1 DEF FeedTrade
  <2>3. full.vol = SelTargets[selTf]
    BY <1>4, <1>5, <1>7, <1>9
  <2>4. x \in SelBucket /\ x.id = edge.id + 1 /\ x.vol = 0
    BY <1>5, <2>1, EmptyIsBucket
  <2>5. PICK r : r = Append(bars, full)
    OBVIOUS
  <2>6. r \in Seq(SelBucket) /\ r # <<>> /\ r[Len(r)] = full /\ Sane(r, B)
    BY <1>4, <1>7, <2>5, EdgeChanges
  <2>7. PICK k \in 0..Len(r) :
            /\ q = SubSeq(r, k + 1, Len(r))
            /\ Len(q) <= SelCap /\ q \in Seq(SelBucket) /\ q # <<>> /\ q[Len(q)] = full
    BY <2>1, <2>5, <2>6, AtMostParts
  <2>8. Sane(q, B)
    BY <2>6, <2>7, SuffixIsSane
  <2>9. FullFor(q, selTf) /\ (selTf = 2 => \A i \in DOMAIN q : q[i].id > B)
    BY <1>1, <1>7, <2>7, <2>8, EdgeTellsEra
  <2>10. selTf = 1 => x.id <= B
    BY <1>1, <1>4, <1>5, <2>2, <2>4
  <2>11. Sane(Append(q, x), B)'
    BY <1>4, <1>7, <2>2, <2>3, <2>4, <2>7, <2>8, <2>9, <2>10, AppendNext
  <2>12. x.id \in 1..SelMaxId /\ x.vol < SelTargets[selTf] /\ (selTf = 2 => B < x.id)
    BY <1>1, <1>4, <1>5, <2>2, <2>4
  <2>13. FeedIsSound(B)'
    BY <1>2, <1>4, <2>2, <2>4, <2>7, <2>11, <2>12 DEF FeedIsSound
  <2>14. ListsAreSound(B)' /\ ReadoutIsComputed(B)'
    <3>1. edge'.id \in Nat /\ edge.id <= edge'.id
      BY <1>5, <2>2, <2>4
    <3>2. QED BY <1>1, <1>2, <1>5, <3>1, FeedKeepsLists
  <2>15. QED BY <1>3, <2>13, <2>14 DEF SelectionIInv
<1>10. QED BY <1>8, <1>9

LEMMA ForcedKeepsSelection ==
  ASSUME SelectionIInv, FeedForced
  PROVE  SelectionIInv'
<1>1. PICK B \in Nat : FeedIsSound(B) /\ ListsAreSound(B) /\ ReadoutIsComputed(B)
  BY DEF SelectionIInv
<1>2. /\ ViewIsSound /\ UNCHANGED <<selTf, bars, snap, list, selSig, readout>>
      /\ UNCHANGED <<box, panels, slider, sliderOf, statsBox, boxOn>>
  BY DEF SelectionIInv, FeedForced, unseen, viewSide
<1>3. ViewIsSound'
  BY <1>2 DEF ViewIsSound
<1>4. edge \in SelBucket /\ edge.id \in Nat
  BY <1>1 DEF FeedIsSound, SelBucket
<1>5. PICK x : x = [edge EXCEPT !.forced = @ + 1]
  OBVIOUS
<1>6. x \in SelBucket /\ x.id = edge.id /\ x.vol = edge.vol /\ edge' = x
  BY <1>4, <1>5 DEF FeedForced, SelBucket
<1>7. Sane(Append(bars, x), B)
  BY <1>1, <1>4, <1>6, EdgeChanges DEF FeedIsSound
<1>8. Sane(Append(bars, x), B)'
  <2>1. edge'.id \in Nat /\ edge.id <= edge'.id
    BY <1>4, <1>6
  <2>2. PICK r : r = Append(bars, x)
    OBVIOUS
  <2>3. Sane(r, B)'
    BY <1>4, <1>7, <2>1, <2>2, SaneStays
  <2>4. bars' = bars
    BY <1>2
  <2>5. QED BY <2>2, <2>3, <2>4
<1>9. FeedIsSound(B)'
  BY <1>1, <1>2, <1>6, <1>8 DEF FeedIsSound
<1>10. ListsAreSound(B)' /\ ReadoutIsComputed(B)'
  BY <1>1, <1>2, <1>4, <1>6, FeedKeepsLists
<1>11. QED BY <1>3, <1>9, <1>10 DEF SelectionIInv

(* The other timeframe's buckets are numbered on from the forming one.     *)
LEMMA SwitchKeepsSelection ==
  ASSUME SelectionIInv, FeedSwitch
  PROVE  SelectionIInv'
<1>1. PICK B \in Nat : FeedIsSound(B) /\ ListsAreSound(B) /\ ReadoutIsComputed(B)
  BY DEF SelectionIInv
<1>2. /\ ViewIsSound /\ UNCHANGED <<snap, list, selSig, readout>>
      /\ UNCHANGED <<box, panels, slider, sliderOf, statsBox, boxOn>>
  BY DEF SelectionIInv, FeedSwitch, viewSide
<1>3. ViewIsSound'
  BY <1>2 DEF ViewIsSound
<1>4. /\ edge.id \in Nat /\ edge.id <= B /\ selTf = 1 /\ selTf' = 2 /\ 2 \in DOMAIN SelTargets
      /\ edge.id >= 1 /\ edge.id <= SelMaxId /\ SelMaxId \in Nat /\ SelCap \in Nat
  BY <1>1, TerminalSelectionAssumption DEF FeedIsSound, FeedSwitch
<1>5. PICK n \in 0..LeastOf(SelCap, SelMaxId - 1 - edge.id) :
          /\ bars' = [i \in 1..n |-> [id |-> edge.id + i, vol |-> SelTargets[2], forced |-> 0]]
          /\ edge' = Empty(edge.id + n + 1)
  BY DEF FeedSwitch
<1>6. n \in Nat /\ n <= SelCap /\ edge.id + n + 1 <= SelMaxId /\ SelTargets[2] \in Nat \ {0}
  BY <1>4, <1>5, TerminalSelectionAssumption DEF LeastOf
<1>7. PICK q, x, r : /\ q = [i \in 1..n |-> [id |-> edge.id + i, vol |-> SelTargets[2], forced |-> 0]]
                     /\ x = Empty(edge.id + n + 1) /\ r = Append(q, x)
  OBVIOUS
<1>8. x \in SelBucket /\ x.id = edge.id + n + 1 /\ x.vol = 0
  <2>1. edge.id + n + 1 \in Nat
    BY <1>4, <1>6
  <2>2. QED BY <1>7, <2>1, EmptyIsBucket
<1>9. q \in Seq(SelBucket) /\ Len(q) = n
  <2>1. \A i \in 1..n : [id |-> edge.id + i, vol |-> SelTargets[2], forced |-> 0] \in SelBucket
    BY <1>4, <1>6 DEF SelBucket
  <2>2. QED BY <1>6, <1>7, <2>1
<1>e. PICK e \in Nat : e = edge.id
  BY <1>4
<1>10. /\ r \in Seq(SelBucket) /\ Len(r) = n + 1 /\ DOMAIN r = 1..(n + 1)
       /\ \A i \in 1..n : r[i] = q[i]
       /\ r[n + 1] = x
  BY <1>6, <1>7, <1>8, <1>9
<1>q. \A i \in 1..n : r[i].id = e + i /\ r[i].vol = SelTargets[2]
  BY <1>7, <1>10, <1>e
<1>11. \A i \in 1..(n + 1) : r[i].id = e + i
  <2>1. r[n + 1].id = e + (n + 1)
    BY <1>6, <1>8, <1>10, <1>e
  <2>2. \A i \in 1..(n + 1) : i \in 1..n \/ i = n + 1
    BY <1>6
  <2>3. QED BY <1>q, <2>1, <2>2
<1>12. Numbered(r)
  <2>1. ASSUME NEW i \in 1..(n + 1), NEW j \in 1..(n + 1) PROVE r[j].id = r[i].id + (j - i)
    <3>1. r[j].id = e + j /\ r[i].id = e + i
      BY <1>11
    <3>2. e + j = (e + i) + (j - i)
      BY <1>6
    <3>3. QED BY <3>1, <3>2
  <2>2. QED BY <1>10, <2>1 DEF Numbered
<1>13. FullFor(r, 2)
  <2>1. \A i \in DOMAIN r : i < n + 1 => i \in 1..n
    BY <1>6, <1>10
  <2>2. QED BY <1>10, <1>q, <2>1 DEF FullFor
<1>14. \A i \in DOMAIN r : r[i].id > edge.id /\ r[i].id <= x.id
  <2>1. ASSUME NEW i \in 1..(n + 1) PROVE r[i].id > e /\ r[i].id <= e + n + 1
    BY <1>6, <1>11
  <2>2. QED BY <1>8, <1>10, <1>e, <2>1
<1>15. PICK C \in Nat : C = edge.id
  BY <1>4
<1>16. Sane(r, C)'
  BY <1>5, <1>7, <1>10, <1>12, <1>13, <1>14, <1>15 DEF Sane, Made
<1>17. FeedIsSound(C)'
  <2>1. x.id \in 1..SelMaxId /\ x.vol < SelTargets[2] /\ C < x.id
    BY <1>4, <1>6, <1>8, <1>15
  <2>2. bars' = q /\ edge' = x
    BY <1>5, <1>7
  <2>3. QED BY <1>4, <1>6, <1>7, <1>8, <1>9, <1>16, <2>1, <2>2 DEF FeedIsSound
<1>18. ASSUME NEW s, Sane(s, B) PROVE Sane(s, C)
  <2>1. s \in Seq(SelBucket) /\ Numbered(s) /\ Made(s, B) /\ \A i \in DOMAIN s : s[i].id <= edge.id
    BY <1>18 DEF Sane
  <2>2. \A i \in DOMAIN s : ~(s[i].id > B)
    <3>1. \A i \in DOMAIN s : s[i].id \in Nat
      BY <2>1, SelBucketParts
    <3>2. QED BY <1>4, <2>1, <3>1
  <2>3. FullFor(s, 1)
    BY <2>1, <2>2 DEF Made, FullFor
  <2>4. QED BY <1>15, <2>1, <2>3 DEF Sane, Made
<1>19. ListsAreSound(C)' /\ ReadoutIsComputed(C)'
  <2>1. edge'.id \in Nat /\ edge.id <= edge'.id
    BY <1>4, <1>5, <1>6, <1>7, <1>8
  <2>2. QED BY <1>1, <1>2, <1>4, <1>18, <2>1, FeedKeepsLists
<1>20. QED BY <1>3, <1>17, <1>19 DEF SelectionIInv

(* The steps that leave the feed alone and end in a refresh: what they read *)
(* is the snapshot held, or a new one of the feed.                         *)
LEMMA FeedStays ==
  ASSUME NEW B, FeedIsSound(B), UNCHANGED feedSide
  PROVE  FeedIsSound(B)'
<1>1. selTf' = selTf /\ bars' = bars /\ edge' = edge
  BY DEF feedSide
<1>2. PICK s : s = Append(bars, edge)
  OBVIOUS
<1>3. Sane(s, B)'
  BY <1>1, <1>2, SameSane DEF FeedIsSound
<1>4. Sane(Append(bars, edge), B)'
  BY <1>1, <1>2, <1>3
<1>5. QED BY <1>1, <1>4 DEF FeedIsSound

LEMMA RefreshKeepsSelection ==
  ASSUME SelectionIInv, UNCHANGED feedSide,
         snap' = snap \/ snap' = [closed |-> bars, live |-> edge, tv |-> SelTargets[selTf]],
         box' \in SelBoxes \cup {NoBox}, panels' \subseteq SelPanels, boxOn' \in BOOLEAN,
         NEW thr, thr = [by |-> thr.by, obj |-> sliderOf], thr.by \in {"auto", "user"},
         Refresh(thr)
  PROVE  SelectionIInv'
<1>1. PICK B \in Nat : FeedIsSound(B) /\ ListsAreSound(B) /\ ReadoutIsComputed(B)
  BY DEF SelectionIInv
<1>2. snap'.closed \in Seq(SelBucket) /\ snap'.live \in SelBucket
      /\ Sane(Append(snap'.closed, snap'.live), B)
  <2>1. CASE snap' = snap
    BY <1>1, <2>1 DEF ListsAreSound
  <2>2. CASE snap' = [closed |-> bars, live |-> edge, tv |-> SelTargets[selTf]]
    <3>1. snap'.closed = bars /\ snap'.live = edge
      BY <2>2
    <3>2. QED BY <1>1, <3>1 DEF FeedIsSound
  <2>3. QED BY <2>1, <2>2
<1>3. edge' = edge /\ Sane(list, B) /\ ViewIsSound
  BY <1>1 DEF feedSide, ListsAreSound, SelectionIInv
<1>4. ListsAreSound(B)' /\ ReadoutIsComputed(B)' /\ ViewIsSound'
  BY <1>1, <1>2, <1>3, RefreshIsSound
<1>5. FeedIsSound(B)'
  BY <1>1, FeedStays
<1>6. QED BY <1>4, <1>5 DEF SelectionIInv

(* The slider as it is, and dragged.                                       *)
LEMMA SliderParts ==
  ASSUME ViewIsSound, NEW thr, thr = slider \/ thr = [slider EXCEPT !.by = "user"]
  PROVE  thr = [by |-> thr.by, obj |-> sliderOf] /\ thr.by \in {"auto", "user"}
<1>1. slider = [by |-> slider.by, obj |-> slider.obj] /\ slider.by \in {"auto", "user"}
      /\ slider.obj = sliderOf
  BY DEF ViewIsSound
<1>2. CASE thr = slider
  BY <1>1, <1>2
<1>3. CASE thr = [slider EXCEPT !.by = "user"]
  <2>1. thr = [by |-> "user", obj |-> slider.obj]
    BY <1>1, <1>3
  <2>2. QED BY <1>1, <2>1
<1>4. QED BY <1>2, <1>3

LEMMA ViewKeepsSelection ==
  ASSUME SelectionIInv,
         SelFrame \/ DrawBox \/ ResizeBox \/ EraseBox \/ (\E p \in SelPanels : TogglePanel(p))
             \/ (ToggleBox /\ boxOn') \/ DragThreshold \/ MoveZeroPoint
  PROVE  SelectionIInv'
<1>1. ViewIsSound
  BY DEF SelectionIInv
<1>2. box \in SelBoxes \cup {NoBox} /\ panels \subseteq SelPanels /\ boxOn \in BOOLEAN
  BY <1>1 DEF ViewIsSound
<1>3. UNCHANGED feedSide
  BY DEF SelFrame, DrawBox, ResizeBox, EraseBox, TogglePanel, ToggleBox, DragThreshold, MoveZeroPoint
<1>4. snap' = snap \/ snap' = [closed |-> bars, live |-> edge, tv |-> SelTargets[selTf]]
  BY DEF SelFrame, DrawBox, ResizeBox, EraseBox, TogglePanel, ToggleBox, DragThreshold, MoveZeroPoint
<1>5. box' \in SelBoxes \cup {NoBox}
  BY <1>2 DEF SelFrame, DrawBox, ResizeBox, EraseBox, TogglePanel, ToggleBox, DragThreshold,
              MoveZeroPoint, viewSide
<1>6. panels' \subseteq SelPanels
  BY <1>2 DEF SelFrame, DrawBox, ResizeBox, EraseBox, TogglePanel, ToggleBox, DragThreshold,
              MoveZeroPoint, viewSide
<1>7. boxOn' \in BOOLEAN
  BY <1>2 DEF SelFrame, DrawBox, ResizeBox, EraseBox, TogglePanel, ToggleBox, DragThreshold,
              MoveZeroPoint, viewSide
<1>8. \E thr \in {slider, [slider EXCEPT !.by = "user"]} : Refresh(thr)
  BY DEF SelFrame, DrawBox, ResizeBox, EraseBox, TogglePanel, ToggleBox, DragThreshold, MoveZeroPoint
<1>9. PICK thr \in {slider, [slider EXCEPT !.by = "user"]} : Refresh(thr)
  BY <1>8
<1>10. thr = [by |-> thr.by, obj |-> sliderOf] /\ thr.by \in {"auto", "user"}
  BY <1>1, SliderParts
<1>11. QED BY <1>3, <1>4, <1>5, <1>6, <1>7, <1>9, <1>10, RefreshKeepsSelection

(* Hiding the box only hides.                                              *)
LEMMA HidingKeepsSelection ==
  ASSUME SelectionIInv, ToggleBox, ~boxOn'
  PROVE  SelectionIInv'
<1>1. PICK B \in Nat : FeedIsSound(B) /\ ListsAreSound(B) /\ ReadoutIsComputed(B)
  BY DEF SelectionIInv
<1>2. /\ UNCHANGED feedSide /\ boxOn' = ~boxOn /\ statsBox' = FALSE
      /\ UNCHANGED <<snap, box, panels, list, slider, sliderOf, selSig, readout>>
      /\ edge' = edge /\ boxOn \in BOOLEAN
  BY DEF ToggleBox, feedSide, SelectionIInv, ViewIsSound
<1>3. ViewIsSound'
  BY <1>2 DEF SelectionIInv, ViewIsSound
<1>4. edge.id \in Nat
  BY <1>1 DEF FeedIsSound
<1>5. ListsAreSound(B)' /\ ReadoutIsComputed(B)'
  BY <1>1, <1>2, <1>4, FeedKeepsLists
<1>6. FeedIsSound(B)'
  BY <1>1, <1>2, FeedStays
<1>7. QED BY <1>3, <1>5, <1>6 DEF SelectionIInv

LEMMA ModeKeepsSelection ==
  ASSUME SelectionIInv, SwitchMode
  PROVE  SelectionIInv'
<1>1. PICK B \in Nat : FeedIsSound(B) /\ ListsAreSound(B) /\ ReadoutIsComputed(B)
  BY DEF SelectionIInv
<1>2. PICK sn, l : sn = snap' /\ l = list'
  OBVIOUS
<1>3. /\ UNCHANGED feedSide /\ edge' = edge /\ box' = NoBox
      /\ sn = [closed |-> bars, live |-> edge, tv |-> SelTargets[selTf]]
      /\ l = FromZero(sn, selAnchor) /\ UNCHANGED <<panels, boxOn, sliderOf>>
      /\ readout' = NoReadout /\ selSig' = NoKey /\ statsBox' = FALSE /\ slider' = slider
  BY <1>2 DEF SwitchMode, HideReadout, feedSide
<1>4. sn.closed = bars /\ sn.live = edge
  BY <1>3
<1>5. sn.closed \in Seq(SelBucket) /\ sn.live \in SelBucket /\ Sane(Append(sn.closed, sn.live), B)
  BY <1>1, <1>4 DEF FeedIsSound
<1>6. Sane(l, B)
  BY <1>3, <1>5, FromZeroIsSane
<1>7. ListsAreSound(B)'
  <2>1. Sane(l, B)' /\ Sane(Append(sn.closed, sn.live), B)'
    BY <1>3, <1>5, <1>6, SameSane
  <2>2. QED BY <1>2, <1>5, <2>1 DEF ListsAreSound
<1>8. ReadoutIsComputed(B)'
  BY <1>3 DEF ReadoutIsComputed
<1>9. ViewIsSound'
  BY <1>3 DEF SelectionIInv, ViewIsSound
<1>10. FeedIsSound(B)'
  BY <1>1, <1>3, FeedStays
<1>11. QED BY <1>7, <1>8, <1>9, <1>10 DEF SelectionIInv

(* Slices of two lists that agree but for forced volumes agree as well.    *)
LEMMA SameSlice ==
  ASSUME NEW s \in Seq(SelBucket), NEW r \in Seq(SelBucket), Len(s) = Len(r),
         \A i \in 1..Len(s) : s[i].id = r[i].id /\ (i < Len(s) => s[i].vol = r[i].vol),
         NEW m \in Nat \ {0}, NEW k \in Int, k <= Len(s),
         k = Len(s) => s[Len(s)].vol = r[Len(r)].vol
  PROVE  WithoutForced(SubSeq(s, m, k)) = WithoutForced(SubSeq(r, m, k))
<1>1. PICK p, q : p = SubSeq(s, m, k) /\ q = SubSeq(r, m, k)
  OBVIOUS
<1>2. Len(s) \in Nat
  OBVIOUS
<1>3. /\ DOMAIN p = DOMAIN q
      /\ \A i \in DOMAIN p : /\ i \in Nat /\ i + m - 1 \in 1..Len(s) /\ i + m - 1 <= k
                             /\ p[i] = s[i + m - 1] /\ q[i] = r[i + m - 1]
  BY <1>1, <1>2
<1>4. ASSUME NEW i \in DOMAIN p
      PROVE  p[i].id = q[i].id /\ p[i].vol = q[i].vol
  <2>1. PICK j \in 1..Len(s) : j = i + m - 1 /\ j <= k /\ p[i] = s[j] /\ q[i] = r[j]
    BY <1>3
  <2>2. s[j].id = r[j].id
    OBVIOUS
  <2>3. s[j].vol = r[j].vol
    <3>1. CASE j < Len(s)
      BY <3>1
    <3>2. CASE ~(j < Len(s))
      <4>1. j = Len(s) /\ k = Len(s)
        BY <1>2, <2>1, <3>2
      <4>2. QED BY <4>1
    <3>3. QED BY <3>1, <3>2
  <2>4. QED BY <2>1, <2>2, <2>3
<1>5. WithoutForced(p) = WithoutForced(q)
  BY <1>3, <1>4 DEF WithoutForced
<1>6. QED BY <1>1, <1>5

(* Two lists with one signature and one first bucket are read out alike.   *)
LEMMA SameReadout ==
  ASSUME NEW l, NEW r, NEW B \in Nat, Sane(l, B), Sane(r, B), l # <<>>, Len(l) = Len(r),
         NEW b \in SelBoxes, SpanOf(l, b) = SpanOf(r, b),
         TouchesLive(l, b) \/ Ranked(l, b) => l[Len(l)].vol = r[Len(r)].vol,
         l[1].id = r[1].id, NEW ps, NEW qs, NEW thr, NEW hold, NEW tv, NEW target
  PROVE  SameButForced(Computed(l, b, ps, thr, tv), Computed(r, b, qs, hold, target))
<1>1. l \in Seq(SelBucket) /\ r \in Seq(SelBucket) /\ Len(l) \in Nat
  BY DEF Sane
<1>2. \A i \in 1..Len(l) : l[i].id = r[i].id /\ (i < Len(l) => l[i].vol = r[i].vol)
  BY SameLists
<1>3. Lookback \in Nat /\ VpinWindow \in Nat \ {0} /\ b[1] \in Nat /\ b[2] \in Nat
  BY TerminalSelectionAssumption
<1>4. PICK x, y : x = SpanOf(l, b)[1] /\ y = SpanOf(l, b)[2]
  OBVIOUS
<1>5. x \in Nat /\ y \in Int /\ y <= Len(l) - 1
  BY <1>1, <1>3, <1>4 DEF SpanOf, LeastOf
<1>6. PICK m, k : m = MostOf(1, x + 1 - Lookback) /\ k = y + 1
  OBVIOUS
<1>7. m \in Nat \ {0} /\ k \in Int /\ k <= Len(l)
  BY <1>1, <1>3, <1>5, <1>6 DEF MostOf
<1>8. SpanRead(l, b) = SubSeq(l, m, k) /\ SpanRead(r, b) = SubSeq(r, m, k)
  BY <1>4, <1>6 DEF SpanRead
<1>9. WithoutForced(SpanRead(l, b)) = WithoutForced(SpanRead(r, b))
  <2>1. k = Len(l) => l[Len(l)].vol = r[Len(r)].vol
    BY <1>1, <1>4, <1>5, <1>6 DEF TouchesLive
  <2>2. WithoutForced(SubSeq(l, m, k)) = WithoutForced(SubSeq(r, m, k))
    BY <1>1, <1>2, <1>7, <2>1, SameSlice
  <2>3. QED BY <1>8, <2>2
<1>10. Ranked(l, b) <=> Ranked(r, b)
  BY DEF Ranked, Held
<1>11. ASSUME Ranked(l, b)
       PROVE  WithoutForced(AtMost(l, VpinWindow)) = WithoutForced(AtMost(r, VpinWindow))
  <2>1. PICK n : n = (IF Len(l) > VpinWindow THEN Len(l) - VpinWindow + 1 ELSE 1)
    OBVIOUS
  <2>2. AtMost(l, VpinWindow) = SubSeq(l, n, Len(l)) /\ AtMost(r, VpinWindow) = SubSeq(r, n, Len(l))
    <3>1. CASE Len(l) > VpinWindow
      BY <2>1, <3>1 DEF AtMost
    <3>2. CASE ~(Len(l) > VpinWindow)
      <4>1. n = 1 /\ AtMost(l, VpinWindow) = l /\ AtMost(r, VpinWindow) = r
        BY <2>1, <3>2 DEF AtMost
      <4>2. SubSeq(l, 1, Len(l)) = l /\ SubSeq(r, 1, Len(r)) = r
        BY <1>1
      <4>3. QED BY <4>1, <4>2
    <3>3. QED BY <3>1, <3>2
  <2>3. l[Len(l)].vol = r[Len(r)].vol
    BY <1>11
  <2>4. n \in Nat \ {0} /\ Len(l) \in Int /\ Len(l) <= Len(l)
    BY <1>1, <1>3, <2>1
  <2>5. WithoutForced(SubSeq(l, n, Len(l))) = WithoutForced(SubSeq(r, n, Len(l)))
    BY <1>1, <1>2, <2>3, <2>4, SameSlice
  <2>6. QED BY <2>2, <2>5
<1>12. PICK p, q : p = Computed(l, b, ps, thr, tv) /\ q = Computed(r, b, qs, hold, target)
  OBVIOUS
<1>13. /\ p.span = SpanRead(l, b) /\ q.span = SpanRead(r, b)
       /\ p.tail = (IF Ranked(l, b) THEN AtMost(l, VpinWindow) ELSE <<>>)
       /\ q.tail = (IF Ranked(r, b) THEN AtMost(r, VpinWindow) ELSE <<>>)
  BY <1>12 DEF Computed
<1>14. WithoutForced(p.tail) = WithoutForced(q.tail)
  BY <1>10, <1>11, <1>13
<1>15. QED BY <1>9, <1>12, <1>13, <1>14 DEF SameButForced

(* A frame leaves a readout of the box.                                    *)
LEMMA FrameReadsItsBox ==
  ASSUME SelectionIInv, SelectionIInv', SelFrame, readout' # NoReadout
  PROVE  /\ readout'.tv = snap'.tv
         /\ readout'.panels = PanelsShown(list', box', panels')
         /\ \/ list'[1].id # readout'.front
            \/ SameButForced(readout', Computed(list', box', panels', readout'.thr, snap'.tv))
<1>1. PICK sn, r, c, qs, off : sn = snap' /\ r = list' /\ c = box' /\ qs = panels' /\ off = boxOn'
  OBVIOUS
<1>2. edge' = edge /\ UNCHANGED feedSide /\ Refresh(slider)
  BY DEF SelFrame, feedSide
<1>3. PICK B \in Nat : FeedIsSound(B) /\ ListsAreSound(B) /\ ReadoutIsComputed(B)
  BY DEF SelectionIInv
<1>4. sn.closed \in Seq(SelBucket) /\ sn.live \in SelBucket /\ Sane(Append(sn.closed, sn.live), B)
  <2>1. sn = [closed |-> bars, live |-> edge, tv |-> SelTargets[selTf]]
    BY <1>1 DEF SelFrame
  <2>2. sn.closed = bars /\ sn.live = edge
    BY <2>1
  <2>3. QED BY <1>3, <2>2 DEF FeedIsSound, SelBucket
<1>5. Sane(r, B)
  <2>1. r = list \/ r = FromZero(sn, selAnchor')
    BY <1>1, <1>2 DEF Refresh, Rebuild
  <2>2. Sane(list, B)
    BY <1>3 DEF ListsAreSound
  <2>3. QED BY <1>4, <2>1, <2>2, FromZeroIsSane
<1>6. PICK sig : sig = SignatureOf(r, c, qs, off, slider, sn.tv)
  OBVIOUS
<1>7. Signature(list', box', slider, snap'.tv) = sig
  BY <1>1, <1>6 DEF Signature, SignatureOf
<1>8. \/ readout' = NoReadout
      \/ sig = selSig /\ readout' = readout
      \/ readout' = Computed(r, c, qs, slider', sn.tv)
  BY <1>1, <1>2, <1>7 DEF Refresh, HideReadout, KeepReadout, DrawReadout
<1>9. CASE readout' = Computed(r, c, qs, slider', sn.tv)
  <2>1. PICK ro, t : ro = readout' /\ t = slider'
    OBVIOUS
  <2>2. ro = Computed(r, c, qs, t, sn.tv)
    BY <1>9, <2>1
  <2>3. ro.tv = sn.tv /\ ro.panels = PanelsShown(r, c, qs) /\ ro.thr = t
    BY <2>2 DEF Computed
  <2>4. SameButForced(ro, Computed(r, c, qs, ro.thr, sn.tv))
    BY <2>2, <2>3 DEF SameButForced
  <2>5. QED BY <1>1, <2>1, <2>3, <2>4
<1>10. CASE sig = selSig /\ readout' = readout
  <2>1. selSig # NoKey /\ readout # NoReadout
    BY <1>6, <1>10, SignatureIsKey
  <2>2. PICK l \in Seq(SelBucket), b \in SelBoxes : \E ps, on, thr, tv :
            Sane(l, B) /\ ComputedFrom(l, b, ps, on, thr, tv)
    BY <1>3, <2>1 DEF ReadoutIsComputed
  <2>3. PICK ps, on, thr, tv : Sane(l, B) /\ ComputedFrom(l, b, ps, on, thr, tv)
    BY <2>2
  <2>4. /\ l # <<>> /\ selSig = SignatureOf(l, b, ps, on, thr, tv)
        /\ readout = Computed(l, b, ps, readout.thr, tv)
    BY <2>3 DEF ComputedFrom
  <2>5. SignatureOf(l, b, ps, on, thr, tv) = SignatureOf(r, c, qs, off, slider, sn.tv)
    BY <1>6, <1>10, <2>4
  <2>6. PICK h, target : h = slider /\ target = sn.tv
    OBVIOUS
  <2>7. SignatureOf(l, b, ps, on, thr, tv) = SignatureOf(r, c, qs, off, h, target)
    BY <2>5, <2>6
  <2>8. /\ b = c /\ Len(l) = Len(r) /\ SpanOf(l, b) = SpanOf(r, c) /\ ps = qs /\ tv = target
        /\ TouchesLive(l, b) \/ Ranked(l, b) => l[Len(l)].vol = r[Len(r)].vol
    BY <2>7, SignatureParts
  <2>9. PICK ro, t : ro = readout /\ t = readout.thr
    OBVIOUS
  <2>10. ro = Computed(l, b, ps, t, tv) /\ ro.thr = t
    BY <2>4, <2>9
  <2>11. ro.tv = tv /\ ro.panels = PanelsShown(l, b, ps) /\ ro.front = l[1].id
    BY <2>10 DEF Computed
  <2>12. PanelsShown(l, b, ps) = PanelsShown(r, c, qs)
    BY <2>8 DEF PanelsShown, Held
  <2>13. ASSUME r[1].id = ro.front
         PROVE  SameButForced(ro, Computed(r, c, qs, ro.thr, target))
    <3>1. l[1].id = r[1].id /\ SpanOf(l, b) = SpanOf(r, b)
      BY <2>8, <2>11, <2>13
    <3>2. SameButForced(Computed(l, b, ps, t, tv), Computed(r, b, qs, t, target))
      BY <1>5, <2>3, <2>4, <2>8, <3>1, SameReadout
    <3>3. QED BY <2>8, <2>10, <3>2
  <2>14. QED BY <1>1, <1>10, <2>6, <2>8, <2>9, <2>11, <2>12, <2>13
<1>11. QED BY <1>8, <1>9, <1>10

LEMMA NextSelectionIInv ==
  ASSUME SelectionIInv, [SelectionNext]_selectionVars
  PROVE  SelectionIInv'
<1>1. CASE SelectionNext
  <2>1. CASE FeedTrade
    BY <2>1, TradeKeepsSelection
  <2>2. CASE FeedForced
    BY <2>2, ForcedKeepsSelection
  <2>3. CASE FeedSwitch
    BY <2>3, SwitchKeepsSelection
  <2>4. CASE \/ SelFrame \/ DrawBox \/ ResizeBox \/ EraseBox
             \/ \E p \in SelPanels : TogglePanel(p)
             \/ ToggleBox /\ boxOn'
             \/ DragThreshold \/ MoveZeroPoint
    BY <2>4, ViewKeepsSelection
  <2>5. CASE ToggleBox /\ ~boxOn'
    BY <2>5, HidingKeepsSelection
  <2>6. CASE SwitchMode
    BY <2>6, ModeKeepsSelection
  <2>7. QED BY <1>1, <2>1, <2>2, <2>3, <2>4, <2>5, <2>6 DEF SelectionNext
<1>2. CASE UNCHANGED selectionVars
  <2>1. PICK B \in Nat : FeedIsSound(B) /\ ListsAreSound(B) /\ ReadoutIsComputed(B)
    BY DEF SelectionIInv
  <2>2. /\ UNCHANGED feedSide /\ edge' = edge /\ UNCHANGED <<snap, list, selSig, readout>>
        /\ UNCHANGED <<box, panels, slider, sliderOf, statsBox, boxOn>>
    BY <1>2 DEF selectionVars, feedSide, viewSide
  <2>3. ViewIsSound'
    BY <2>2 DEF SelectionIInv, ViewIsSound
  <2>4. edge.id \in Nat
    BY <2>1 DEF FeedIsSound
  <2>5. ListsAreSound(B)' /\ ReadoutIsComputed(B)'
    BY <2>1, <2>2, <2>4, FeedKeepsLists
  <2>6. FeedIsSound(B)'
    BY <2>1, <2>2, FeedStays
  <2>7. QED BY <2>3, <2>5, <2>6 DEF SelectionIInv
<1>3. QED BY <1>1, <1>2

LEMMA SelectionIInvIsTyped == SelectionIInv => SelectionTypeOK
<1> SUFFICES ASSUME SelectionIInv PROVE SelectionTypeOK
  OBVIOUS
<1>1. PICK B \in Nat : FeedIsSound(B) /\ ReadoutIsComputed(B)
  BY DEF SelectionIInv
<1>2. (readout = NoReadout) <=> (selSig = NoKey)
  <2>1. CASE selSig = NoKey
    BY <1>1, <2>1 DEF ReadoutIsComputed
  <2>2. CASE selSig # NoKey
    <3>1. PICK l \in Seq(SelBucket), b \in SelBoxes : \E ps, on, thr, tv :
              Sane(l, B) /\ ComputedFrom(l, b, ps, on, thr, tv)
      BY <1>1, <2>2 DEF ReadoutIsComputed
    <3>2. PICK ps, on, thr, tv : readout = Computed(l, b, ps, readout.thr, tv)
      BY <3>1 DEF ComputedFrom
    <3>3. readout # NoReadout
      BY <3>2, ComputedIsReadout
    <3>4. QED BY <2>2, <3>3
  <2>3. QED BY <2>1, <2>2
<1>3. (readout = NoReadout) = (selSig = NoKey)
  BY <1>2, Zenon
<1>4. selTf \in DOMAIN SelTargets /\ Len(bars) <= SelCap /\ edge.id \in 1..SelMaxId
  BY <1>1 DEF FeedIsSound
<1>5. QED BY <1>3, <1>4 DEF SelectionIInv, ViewIsSound, SelectionTypeOK

LEMMA DragStays ==
  ASSUME SelectionIInv, [SelectionNext]_selectionVars, slider = [by |-> "user", obj |-> boxObj']
  PROVE  slider' = slider
<1>1. slider.by = "user" /\ slider.obj = boxObj' /\ sliderOf = boxObj'
  BY DEF SelectionIInv, ViewIsSound
<1>2. Seeded(slider, boxObj') = slider
  BY <1>1 DEF Seeded
<1>3. ASSUME Refresh(slider) PROVE slider' = slider
  BY <1>2, <1>3 DEF Refresh, HideReadout, KeepReadout, DrawReadout
<1>4. ~DragThreshold
  BY <1>1 DEF DragThreshold
<1>5. CASE FeedTrade \/ FeedForced \/ FeedSwitch
  BY <1>5 DEF FeedTrade, FeedForced, FeedSwitch, unseen
<1>6. CASE SelFrame \/ DrawBox \/ ResizeBox \/ EraseBox \/ MoveZeroPoint
  BY <1>3, <1>6 DEF SelFrame, DrawBox, ResizeBox, EraseBox, MoveZeroPoint
<1>7. CASE \E p \in SelPanels : TogglePanel(p)
  BY <1>3, <1>7 DEF TogglePanel
<1>8. CASE ToggleBox
  BY <1>3, <1>8 DEF ToggleBox
<1>9. CASE SwitchMode
  BY <1>9 DEF SwitchMode, HideReadout
<1>10. CASE UNCHANGED selectionVars
  BY <1>10 DEF selectionVars
<1>11. QED BY <1>4, <1>5, <1>6, <1>7, <1>8, <1>9, <1>10 DEF SelectionNext

(* What the selection reads out belongs to its box: a frame leaves the      *)
(* figures the bucket list gives for it, the same signature or not, but for *)
(* liquidations since the last trade or a list that moved on at its length; *)
(* and a dragged threshold stays until another box is drawn                 *)
(* (_refresh_selection_stats).                                              *)
THEOREM SelectionHolds == SelectionInit /\ [][SelectionNext]_selectionVars => SelectionReadsItsBox
<1>1. SelectionIInv /\ [SelectionNext]_selectionVars => SelectionIInv'
  BY NextSelectionIInv
<1>2. SelectionIInv /\ SelectionIInv' /\ [SelectionNext]_selectionVars
      => [SelFrame /\ readout' # NoReadout =>
            /\ readout'.tv = snap'.tv
            /\ readout'.panels = PanelsShown(list', box', panels')
            /\ \/ list'[1].id # readout'.front
               \/ SameButForced(readout', Computed(list', box', panels', readout'.thr, snap'.tv))
         ]_selectionVars
  BY FrameReadsItsBox
<1>3. SelectionIInv /\ [SelectionNext]_selectionVars
      => [slider = [by |-> "user", obj |-> boxObj'] => slider' = slider]_selectionVars
  BY DragStays
<1>4. QED
  BY <1>1, <1>2, <1>3, InitSelectionIInv, SelectionIInvIsTyped, PTL
     DEF SelectionReadsItsBox, ReadoutIsOfTheBox, DragPinsTheThreshold

-----------------------------------------------------------------------------
(* The heat-map. *)

LEMMA DivParts ==
  ASSUME NEW a \in Nat, NEW n \in Nat \ {0}
  PROVE  a \div n \in Nat /\ n * (a \div n) <= a /\ a < n * (a \div n) + n
OBVIOUS

LEMMA DivIsMonotone ==
  ASSUME NEW a \in Nat, NEW b \in Nat, a <= b, NEW n \in Nat \ {0}
  PROVE  a \div n <= b \div n
<1>1. PICK p \in Nat : p = a \div n /\ n * p <= a /\ a < n * p + n
  BY DivParts
<1>2. PICK q \in Nat : q = b \div n /\ n * q <= b /\ b < n * q + n
  BY DivParts
<1>3. n * p < n * q + n
  BY <1>1, <1>2
<1>4. p < q + 1
  <2>1. SUFFICES ASSUME q + 1 <= p PROVE FALSE
    BY <1>1, <1>2
  <2>2. n * (q + 1) <= n * p
    BY <2>1
  <2>3. n * (q + 1) = n * q + n
    OBVIOUS
  <2>4. QED BY <1>3, <2>2, <2>3
<1>5. QED BY <1>1, <1>2, <1>4

(* The i-th of n parts of a span.                                          *)
LEMMA PartOfSpan ==
  ASSUME NEW d \in Nat, NEW n \in Nat \ {0}, NEW i \in 1..n, NEW j \in 1..n, i <= j
  PROVE  /\ (i * d) \div n \in 0..d /\ (j * d) \div n \in 0..d
         /\ (i * d) \div n <= (j * d) \div n
         /\ (n * d) \div n = d
<1>1. i * d \in Nat /\ j * d \in Nat /\ n * d \in Nat
  OBVIOUS
<1>2. i * d <= j * d /\ j * d <= n * d
  OBVIOUS
<1>3. (i * d) \div n <= (j * d) \div n /\ (j * d) \div n <= (n * d) \div n
  BY <1>1, <1>2, DivIsMonotone
<1>4. (n * d) \div n = d
  <2>1. PICK q \in Nat : q = (n * d) \div n /\ n * q <= n * d /\ n * d < n * q + n
    BY <1>1, DivParts
  <2>2. ~(q > d)
    <3>1. SUFFICES ASSUME d + 1 <= q PROVE FALSE
      BY <2>1
    <3>2. n * (d + 1) <= n * q
      BY <3>1
    <3>3. n * (d + 1) = n * d + n
      OBVIOUS
    <3>4. QED BY <2>1, <3>2, <3>3
  <2>3. ~(q < d)
    <3>1. SUFFICES ASSUME q + 1 <= d PROVE FALSE
      BY <2>1
    <3>2. n * (q + 1) <= n * d
      BY <3>1
    <3>3. n * (q + 1) = n * q + n
      OBVIOUS
    <3>4. QED BY <2>1, <3>2, <3>3
  <2>4. QED BY <2>1, <2>2, <2>3
<1>5. (i * d) \div n \in Nat /\ (j * d) \div n \in Nat
  BY <1>1, DivParts
<1>6. QED BY <1>3, <1>4, <1>5

(* Induction on the naturals, about sets.                                  *)
LEMMA AllNaturals ==
  ASSUME NEW T, 0 \in T, \A n \in Nat : n \in T => n + 1 \in T
  PROVE  Nat \subseteq T
<1> SUFFICES ASSUME Nat \ T # {} PROVE FALSE
  OBVIOUS
<1>1. PICK R : R = {ss \in Nat \X Nat : ss[1] < ss[2]}
  OBVIOUS
<1>2. IsWellFoundedOn(R, Nat)
  BY <1>1, NatLessThanWellFounded DEF OpToRel
<1>3. PICK x \in Nat \ T : \A y \in Nat \ T : <<y, x>> \notin R
  <2>1. Nat \ T \subseteq Nat
    OBVIOUS
  <2>2. QED BY <1>2, <2>1, WFMin
<1>4. \A y \in Nat : y < x => <<y, x>> \in R
  BY <1>1
<1>5. x # 0 /\ x - 1 \in Nat /\ x - 1 < x
  BY <1>3
<1>6. x - 1 \in T
  BY <1>3, <1>4, <1>5
<1>7. x - 1 + 1 \in T
  BY <1>5, <1>6
<1>8. QED BY <1>3, <1>7

(* The least and the greatest of some numbers.                             *)
LEMMA LeastExists ==
  ASSUME NEW E, E \subseteq Nat, E # {}
  PROVE  Min(E) \in E /\ \A y \in E : Min(E) <= y
<1>1. \E x \in E : \A y \in E : x <= y
  <2>1. PICK T : T = {n \in Nat : \A y \in E : n <= y}
    OBVIOUS
  <2>2. SUFFICES ASSUME ~(\E x \in E : \A y \in E : x <= y) PROVE FALSE
    OBVIOUS
  <2>3. 0 \in T
    BY <2>1
  <2>4. ASSUME NEW n \in Nat, n \in T PROVE n + 1 \in T
    <3>1. n \notin E
      BY <2>1, <2>2, <2>4
    <3>2. \A y \in E : n <= y /\ n # y
      BY <2>1, <2>4, <3>1
    <3>3. QED BY <2>1, <3>2
  <2>5. Nat \subseteq T
    BY <2>3, <2>4, AllNaturals
  <2>6. PICK e \in E : TRUE
    OBVIOUS
  <2>7. e \in Nat /\ e + 1 \in Nat
    OBVIOUS
  <2>8. e + 1 \in T
    BY <2>5, <2>7
  <2>9. e + 1 <= e
    BY <2>1, <2>8
  <2>10. QED BY <2>7, <2>9
<1>2. QED BY <1>1 DEF Min

LEMMA GreatestExists ==
  ASSUME NEW E, NEW n \in Nat, E \subseteq 1..n, E # {}
  PROVE  Max(E) \in E /\ \A y \in E : y <= Max(E)
<1>1. PICK F : F = {n - y : y \in E}
  OBVIOUS
<1>2. F \subseteq Nat /\ F # {}
  <2>1. ASSUME NEW y \in E PROVE n - y \in Nat
    <3>1. y \in 1..n
      OBVIOUS
    <3>2. QED BY <3>1
  <2>2. QED BY <1>1, <2>1
<1>3. PICK m : m = Min(F)
  OBVIOUS
<1>4. m \in F /\ \A y \in F : m <= y
  BY <1>2, <1>3, LeastExists
<1>5. PICK x \in E : m = n - x
  BY <1>1, <1>4
<1>6. \A y \in E : y <= x
  BY <1>1, <1>4, <1>5
<1>7. QED BY <1>6 DEF Max

(* The columns are appended one after the other: what holds of a cache and *)
(* is kept by each of them holds in the end.                               *)
LEMMA AppendAllKeeps ==
  ASSUME NEW S, NEW c \in S, NEW cols, Len(cols) \in Nat,
         \A x \in S : \A i \in 1..Len(cols) : AppendLive(x, cols[i]) \in S
  PROVE  AppendAll(c, cols) \subseteq S
<1>1. PICK n : n = Len(cols)
  OBVIOUS
<1> DEFINE Appended(m) ==
      \E f : /\ f = [k \in 0..m |-> IF k = 0 THEN {c} ELSE {AppendLive(x, cols[k]) : x \in f[k - 1]}]
             /\ \A k \in 0..m : f[k] \subseteq S
<1>2. PICK T : T = {m \in Nat : m <= n => Appended(m)}
  OBVIOUS
<1>3. Appended(0)
  <2>1. PICK f : f = [k \in 0..0 |-> {c}]
    OBVIOUS
  <2>2. f = [k \in 0..0 |-> IF k = 0 THEN {c} ELSE {AppendLive(x, cols[k]) : x \in f[k - 1]}]
    BY <2>1
  <2>3. \A k \in 0..0 : f[k] \subseteq S
    BY <2>1
  <2>4. QED BY <2>2, <2>3
<1>4. ASSUME NEW m \in Nat, m + 1 <= n, Appended(m) PROVE Appended(m + 1)
  <2>2. m <= n /\ m + 1 \in 1..n
    BY <1>1, <1>4
  <2>3. PICK f : /\ f = [k \in 0..m |-> IF k = 0 THEN {c} ELSE {AppendLive(x, cols[k]) : x \in f[k - 1]}]
                 /\ \A k \in 0..m : f[k] \subseteq S
    BY <1>4
  <2>4. PICK g : g = [k \in 0..(m + 1) |-> IF k <= m THEN f[k] ELSE {AppendLive(x, cols[m + 1]) : x \in f[m]}]
    OBVIOUS
  <2>5. ASSUME NEW k \in 0..(m + 1)
        PROVE  g[k] = (IF k = 0 THEN {c} ELSE {AppendLive(x, cols[k]) : x \in g[k - 1]}) /\ g[k] \subseteq S
    <3>1. CASE k = 0
      <4>1. g[k] = f[k] /\ 0 \in 0..m
        BY <2>4, <3>1
      <4>2. f[0] = {c}
        BY <2>3, <4>1
      <4>3. QED BY <3>1, <4>1, <4>2
    <3>2. CASE k # 0 /\ k <= m
      <4>1. g[k] = f[k] /\ k \in 0..m /\ k - 1 \in 0..m /\ g[k - 1] = f[k - 1]
        BY <2>4, <3>2
      <4>2. f[k] = {AppendLive(x, cols[k]) : x \in f[k - 1]}
        BY <2>3, <3>2, <4>1
      <4>3. QED BY <2>3, <3>2, <4>1, <4>2
    <3>3. CASE k = m + 1
      <4>1. g[k] = {AppendLive(x, cols[k]) : x \in f[m]} /\ k - 1 = m /\ g[k - 1] = f[m] /\ k # 0 /\ m \in 0..m
        BY <2>4, <3>3
      <4>2. f[m] \subseteq S
        BY <2>3, <4>1
      <4>3. \A x \in f[m] : AppendLive(x, cols[k]) \in S
        BY <1>1, <2>2, <3>3, <4>2
      <4>4. QED BY <4>1, <4>3
    <3>4. QED BY <3>1, <3>2, <3>3
  <2>6. g = [k \in 0..(m + 1) |-> IF k = 0 THEN {c} ELSE {AppendLive(x, cols[k]) : x \in g[k - 1]}]
    <3>1. DOMAIN g = 0..(m + 1) /\ g = [k \in 0..(m + 1) |-> g[k]]
      BY <2>4
    <3>2. QED BY <2>5, <3>1
  <2>7. QED BY <2>5, <2>6
<1>5. Appended(n)
  <2> HIDE DEF Appended
  <2>1. 0 \in T
    BY <1>2, <1>3
  <2>2. ASSUME NEW m \in Nat, m \in T PROVE m + 1 \in T
    <3>1. CASE m + 1 <= n
      <4>1. m <= n
        BY <1>1, <3>1
      <4>2. Appended(m)
        BY <1>2, <2>2, <4>1
      <4>3. Appended(m + 1)
        BY <1>4, <3>1, <4>2
      <4>4. QED BY <1>2, <4>3
    <3>2. CASE ~(m + 1 <= n)
      BY <1>2, <3>2
    <3>3. QED BY <3>1, <3>2
  <2>3. n \in Nat /\ n <= n
    BY <1>1
  <2>4. n \in T
    BY <2>1, <2>2, <2>3, AllNaturals
  <2>5. QED BY <1>2, <2>3, <2>4
<1>6. \E f : f = [k \in 0..Len(cols) |-> IF k = 0 THEN {c} ELSE {AppendLive(x, cols[k]) : x \in f[k - 1]}]
  BY <1>1, <1>5
<1>7. PICK f : /\ f = [k \in 0..n |-> IF k = 0 THEN {c} ELSE {AppendLive(x, cols[k]) : x \in f[k - 1]}]
               /\ AppendAll(c, cols) = f[n]
  BY <1>1, <1>6 DEF AppendAll
<1>8. PICK V : V = {m \in Nat : m <= n => f[m] \subseteq S}
  OBVIOUS
<1>9. 0 \in V
  BY <1>1, <1>7, <1>8
<1>10. ASSUME NEW m \in Nat, m \in V PROVE m + 1 \in V
  <2>1. SUFFICES ASSUME m + 1 <= n PROVE f[m + 1] \subseteq S
    BY <1>8
  <2>2. m + 1 \in 0..n /\ m + 1 \in 1..n /\ m + 1 # 0 /\ m + 1 - 1 = m /\ m <= n
    BY <1>1, <2>1
  <2>3. f[m + 1] = {AppendLive(x, cols[m + 1]) : x \in f[m]}
    <3>1. \A k \in 0..n : k # 0 => f[k] = {AppendLive(x, cols[k]) : x \in f[k - 1]}
      BY <1>7
    <3>2. f[m + 1] = {AppendLive(x, cols[m + 1]) : x \in f[m + 1 - 1]}
      BY <2>2, <3>1
    <3>3. QED BY <2>2, <3>2
  <2>4. f[m] \subseteq S
    BY <1>8, <1>10, <2>2
  <2>5. QED BY <1>1, <2>2, <2>3, <2>4
<1>11. f[n] \subseteq S
  <2>1. n \in V
    BY <1>1, <1>9, <1>10, AllNaturals
  <2>2. n <= n
    BY <1>1
  <2>3. QED BY <1>8, <2>1, <2>2
<1>12. QED BY <1>7, <1>11

HeatCol    == [ts : Nat, band : Bands]
HeatWindow == [kind : {"window"}, id : Nat, t0 : Nat, t1 : Nat, n : Nat \ {0}, band : Bands]

(* Columns in order, caches of such columns and windows, from time f to t. *)
SoundCols(f, t) ==
    {s \in Seq(HeatCol) : /\ \A i \in DOMAIN s : f <= s[i].ts /\ s[i].ts <= t
                          /\ \A i, j \in DOMAIN s : i < j => s[i].ts <= s[j].ts}
SoundCache(f, t) ==
    {c \in [step : Nat, band : Bands \cup {Absent}, cols : Seq(HeatCol)] : c.cols \in SoundCols(f, t)}
SoundWindow(f, t) ==
    {w \in HeatWindow : f <= w.t0 /\ w.t0 <= w.t1 /\ w.t1 <= t}

LEMMA SliceIsSound ==
  ASSUME NEW f, NEW t, NEW s \in SoundCols(f, t), NEW k \in Nat \ {0}, NEW m \in Nat, m <= Len(s)
  PROVE  SubSeq(s, k, m) \in SoundCols(f, t)
<1>1. s \in Seq(HeatCol) /\ Len(s) \in Nat
  BY DEF SoundCols
<1>2. PICK r : r = SubSeq(s, k, m)
  OBVIOUS
<1>3. /\ r \in Seq(HeatCol)
      /\ \A i \in DOMAIN r : i \in Nat /\ i + k - 1 \in DOMAIN s /\ r[i] = s[i + k - 1]
  BY <1>1, <1>2
<1>4. \A i \in DOMAIN r : f <= r[i].ts /\ r[i].ts <= t
  BY <1>3 DEF SoundCols
<1>5. ASSUME NEW i \in DOMAIN r, NEW j \in DOMAIN r, i < j PROVE r[i].ts <= r[j].ts
  <2>1. PICK p, q : p = i + k - 1 /\ q = j + k - 1
    OBVIOUS
  <2>2. p \in DOMAIN s /\ q \in DOMAIN s /\ p < q /\ r[i] = s[p] /\ r[j] = s[q]
    BY <1>3, <1>5, <2>1
  <2>3. QED BY <2>2 DEF SoundCols
<1>6. QED BY <1>2, <1>3, <1>4, <1>5 DEF SoundCols

LEMMA WindowColsAreSound ==
  ASSUME NEW f, NEW t \in Nat, f \in Nat, NEW w \in SoundWindow(f, t)
  PROVE  WindowCols(w) \in SoundCols(f, t) /\ Len(WindowCols(w)) = w.n /\ w.n \in Nat \ {0}
<1>1. w.t0 \in Nat /\ w.t1 \in Nat /\ w.n \in Nat \ {0} /\ w.band \in Bands
      /\ f <= w.t0 /\ w.t0 <= w.t1 /\ w.t1 <= t
  BY DEF SoundWindow, HeatWindow
<1>2. PICK d \in Nat, n \in Nat \ {0}, b \in Bands, z \in Nat : d = w.t1 - w.t0 /\ n = w.n /\ b = w.band /\ z = w.t0
  BY <1>1
<1>3. PICK s : s = WindowCols(w)
  OBVIOUS
<1>4. s = [i \in 1..n |-> [ts |-> z + (i * d) \div n, band |-> b]]
  BY <1>2, <1>3 DEF WindowCols
<1>5. \A i \in 1..n : s[i].ts = z + (i * d) \div n /\ s[i].band = b
  BY <1>4
<1>6. \A i \in 1..n : (i * d) \div n \in 0..d
  BY PartOfSpan
<1>7. \A i \in 1..n : s[i].ts \in Nat /\ f <= s[i].ts /\ s[i].ts <= t
  BY <1>1, <1>2, <1>5, <1>6
<1>8. \A i \in 1..n : s[i] \in HeatCol
  <2>1. \A i \in 1..n : z + (i * d) \div n \in Nat
    BY <1>6
  <2>2. QED BY <1>4, <2>1 DEF HeatCol
<1>9. s \in Seq(HeatCol) /\ DOMAIN s = 1..n /\ Len(s) = n
  <2>1. s = [i \in 1..n |-> s[i]]
    BY <1>4
  <2>2. QED BY <1>8, <2>1
<1>10. \A i, j \in 1..n : i < j => s[i].ts <= s[j].ts
  <2>1. SUFFICES ASSUME NEW i \in 1..n, NEW j \in 1..n, i < j PROVE s[i].ts <= s[j].ts
    OBVIOUS
  <2>2. i <= j
    BY <2>1
  <2>3. (i * d) \div n <= (j * d) \div n
    BY <2>2, PartOfSpan
  <2>4. (i * d) \div n \in Int /\ (j * d) \div n \in Int
    BY <1>6
  <2>5. QED BY <1>5, <2>3, <2>4
<1>11. s \in SoundCols(f, t)
  BY <1>7, <1>9, <1>10 DEF SoundCols
<1>12. QED BY <1>2, <1>3, <1>9, <1>11

LEMMA TrimIsSound ==
  ASSUME NEW f, NEW t, NEW s \in SoundCols(f, t), s # <<>>
  PROVE  Trim(s) \in SoundCols(f, t) /\ Trim(s) # <<>>
<1>1. s \in Seq(HeatCol) /\ Len(s) \in Nat \ {0}
  BY DEF SoundCols
<1>2. PICK E : E = {i \in DOMAIN s : i = Len(s) \/ s[i].ts >= s[Len(s)].ts - MaxSpan}
  OBVIOUS
<1>3. E \subseteq 1..Len(s) /\ Len(s) \in E
  BY <1>1, <1>2
<1>4. Min(E) \in 1..Len(s)
  <2>1. E \subseteq Nat /\ E # {}
    BY <1>3
  <2>2. QED BY <1>3, <2>1, LeastExists
<1>5. PICK k \in 1..Len(s) : k = Min(E)
  BY <1>4
<1>6. Trim(s) = SubSeq(s, k, Len(s))
  BY <1>2, <1>5 DEF Trim
<1>7. k \in Nat \ {0} /\ k <= Len(s)
  BY <1>1
<1>8. SubSeq(s, k, Len(s)) \in SoundCols(f, t)
  <2>1. Len(s) \in Nat /\ Len(s) <= Len(s)
    BY <1>1
  <2>2. QED BY <1>7, <2>1, SliceIsSound
<1>9. SubSeq(s, k, Len(s)) # <<>>
  <2>1. Len(SubSeq(s, k, Len(s))) = Len(s) - k + 1
    BY <1>1, <1>7
  <2>2. QED BY <1>1, <1>7, <2>1
<1>10. QED BY <1>6, <1>8, <1>9

LEMMA ResetIsSound ==
  ASSUME NEW f \in Nat, NEW t \in Nat, NEW w \in SoundWindow(f, t)
  PROVE  CacheReset(w) \in SoundCache(f, t)
<1>1. w.t0 \in Nat /\ w.t1 \in Nat /\ w.n \in Nat \ {0} /\ w.band \in Bands /\ w.t0 <= w.t1
  BY DEF SoundWindow, HeatWindow
<1>2. (w.t1 - w.t0) \div w.n \in Nat
  <2>1. w.t1 - w.t0 \in Nat
    BY <1>1
  <2>2. QED BY <1>1, <2>1, DivParts
<1>3. WindowCols(w) \in SoundCols(f, t) /\ Len(WindowCols(w)) # 0
  BY WindowColsAreSound
<1>4. Trim(WindowCols(w)) \in SoundCols(f, t)
  <2>1. WindowCols(w) # <<>>
    BY <1>3
  <2>2. QED BY <1>3, <2>1, TrimIsSound
<1>5. PICK c : c = CacheReset(w)
  OBVIOUS
<1>6. c = [step |-> (w.t1 - w.t0) \div w.n, band |-> w.band, cols |-> Trim(WindowCols(w))]
  BY <1>5 DEF CacheReset
<1>7. c \in [step : Nat, band : Bands \cup {Absent}, cols : Seq(HeatCol)]
  BY <1>1, <1>2, <1>4, <1>6 DEF SoundCols
<1>8. c.cols \in SoundCols(f, t)
  BY <1>4, <1>6
<1>9. QED BY <1>5, <1>7, <1>8 DEF SoundCache

LEMMA LabelIsSound ==
  ASSUME NEW f \in Nat, NEW t \in Nat, NEW s \in SoundCols(f, t), s # <<>>,
         NEW x \in HeatCol, s[Len(s)].ts <= x.ts, x.ts <= t
  PROVE  Append(s, x) \in SoundCols(f, t)
<1>1. s \in Seq(HeatCol) /\ Len(s) \in Nat \ {0} /\ Len(s) \in DOMAIN s /\ x.ts \in Nat
  BY DEF SoundCols, HeatCol
<1>2. PICK r : r = Append(s, x)
  OBVIOUS
<1>3. /\ r \in Seq(HeatCol) /\ DOMAIN r = 1..(Len(s) + 1) /\ DOMAIN s = 1..Len(s)
      /\ \A i \in 1..Len(s) : r[i] = s[i]
      /\ r[Len(s) + 1] = x
  BY <1>1, <1>2
<1>4. \A i \in 1..Len(s) : s[i].ts \in Nat /\ f <= s[i].ts /\ s[i].ts <= t
  <2>1. \A i \in 1..Len(s) : s[i] \in HeatCol
    BY <1>1
  <2>2. QED BY <1>3, <2>1 DEF SoundCols, HeatCol
<1>5. \A i \in 1..Len(s) : s[i].ts <= x.ts
  <2>1. \A i \in 1..Len(s) : s[i].ts <= s[Len(s)].ts
    <3>1. SUFFICES ASSUME NEW i \in 1..Len(s), i # Len(s) PROVE s[i].ts <= s[Len(s)].ts
      BY <1>1, <1>4
    <3>2. i < Len(s) /\ i \in DOMAIN s
      BY <1>1, <3>1
    <3>3. QED BY <1>1, <3>2 DEF SoundCols
  <2>2. s[Len(s)].ts \in Nat
    BY <1>1, <1>4
  <2>3. QED BY <1>1, <1>4, <2>1, <2>2
<1>6. f <= x.ts
  <2>1. f <= s[Len(s)].ts /\ s[Len(s)].ts \in Nat
    BY <1>1, <1>4
  <2>2. QED BY <1>1, <2>1
<1>7. \A i \in DOMAIN r : f <= r[i].ts /\ r[i].ts <= t
  BY <1>1, <1>3, <1>4, <1>6
<1>8. \A i, j \in DOMAIN r : i < j => r[i].ts <= r[j].ts
  <2>1. SUFFICES ASSUME NEW i \in DOMAIN r, NEW j \in DOMAIN r, i < j PROVE r[i].ts <= r[j].ts
    OBVIOUS
  <2>2. i \in 1..Len(s)
    BY <1>1, <1>3, <2>1
  <2>3. CASE j \in 1..Len(s)
    BY <1>3, <2>1, <2>2, <2>3 DEF SoundCols
  <2>4. CASE j = Len(s) + 1
    BY <1>3, <1>5, <2>2, <2>4
  <2>5. QED BY <1>1, <1>3, <2>3, <2>4
<1>9. QED BY <1>2, <1>3, <1>7, <1>8 DEF SoundCols

LEMMA AppendIsSound ==
  ASSUME NEW f \in Nat, NEW t \in Nat, NEW c \in SoundCache(f, t), NEW x \in HeatCol, x.ts <= t
  PROVE  AppendLive(c, x) \in SoundCache(f, t)
<1>1. PICK s : s = c.cols
  OBVIOUS
<1>2. s \in SoundCols(f, t) /\ s \in Seq(HeatCol) /\ Len(s) \in Nat /\ c.step \in Nat
      /\ c.band \in Bands \cup {Absent} /\ x.ts \in Nat /\ x.band \in Bands
      /\ c = [step |-> c.step, band |-> c.band, cols |-> s]
  BY <1>1 DEF SoundCache, SoundCols, HeatCol
<1>3. CASE s = <<>> \/ Bins[x.band] # Bins[c.band]
  BY <1>1, <1>3 DEF AppendLive
<1>4. CASE s # <<>> /\ Bins[x.band] = Bins[c.band]
  <2>1. Len(s) \in DOMAIN s /\ s[Len(s)].ts \in Nat
    <3>1. Len(s) \in DOMAIN s /\ s[Len(s)] \in HeatCol
      BY <1>2, <1>4
    <3>2. QED BY <3>1 DEF HeatCol
  <2>2. PICK last \in Nat : last = s[Len(s)].ts
    BY <2>1
  <2>3. ASSUME x.ts >= last + c.step
        PROVE  AppendLive(c, x) \in SoundCache(f, t)
    <3>1. PICK y : y = [ts |-> last + c.step, band |-> x.band]
      OBVIOUS
    <3>2. y \in HeatCol /\ s[Len(s)].ts <= y.ts /\ y.ts <= t
      <4>1. y.ts = last + c.step /\ y.band = x.band
        BY <3>1
      <4>2. y.ts \in Nat /\ last <= y.ts /\ y.ts <= t
        BY <1>2, <2>3, <4>1
      <4>3. QED BY <1>2, <2>2, <3>1, <4>1, <4>2 DEF HeatCol
    <3>3. Append(s, y) \in SoundCols(f, t)
      BY <1>2, <1>4, <3>2, LabelIsSound
    <3>4. Append(s, y) # <<>>
      BY <1>2
    <3>5. Trim(Append(s, y)) \in SoundCols(f, t)
      BY <3>3, <3>4, TrimIsSound
    <3>6. AppendLive(c, x) = [step |-> c.step, band |-> c.band, cols |-> Trim(Append(s, y))]
      <4>1. AppendLive(c, x) = [c EXCEPT !.cols = Trim(Append(@, y))]
        BY <1>1, <1>4, <2>2, <2>3, <3>1 DEF AppendLive
      <4>2. QED BY <1>1, <1>2, <4>1
    <3>7. QED BY <1>2, <3>5, <3>6 DEF SoundCache, SoundCols
  <2>4. ASSUME ~(x.ts >= last + c.step)
        PROVE  AppendLive(c, x) \in SoundCache(f, t)
    <3>1. PICK y, r : y = [ts |-> last, band |-> x.band] /\ r = [s EXCEPT ![Len(s)] = y]
      OBVIOUS
    <3>2. y \in HeatCol /\ y.ts = last
      BY <1>2, <3>1 DEF HeatCol
    <3>3. /\ r \in Seq(HeatCol) /\ DOMAIN r = DOMAIN s
          /\ \A i \in DOMAIN s : r[i].ts = s[i].ts
      <4>1. r \in Seq(HeatCol) /\ DOMAIN r = DOMAIN s
        <5>1. s \in [1..Len(s) -> HeatCol]
          BY <1>2
        <5>2. r \in [1..Len(s) -> HeatCol]
          BY <3>1, <3>2, <5>1
        <5>3. DOMAIN r = DOMAIN s
          BY <3>1
        <5>4. QED BY <1>2, <5>2, <5>3
      <4>2. ASSUME NEW i \in DOMAIN s PROVE r[i].ts = s[i].ts
        BY <1>2, <2>2, <3>1, <3>2
      <4>3. QED BY <4>1, <4>2
    <3>4. r \in SoundCols(f, t)
      BY <1>2, <3>3 DEF SoundCols
    <3>5. AppendLive(c, x) = [step |-> c.step, band |-> c.band, cols |-> r]
      <4>1. AppendLive(c, x) = [c EXCEPT !.cols[Len(s)] = y]
        BY <1>1, <1>4, <2>2, <2>4, <3>1 DEF AppendLive
      <4>2. QED BY <1>1, <1>2, <3>1, <4>1
    <3>6. QED BY <1>2, <3>4, <3>5 DEF SoundCache, SoundCols
  <2>5. QED BY <2>3, <2>4
<1>5. QED BY <1>3, <1>4

LEMMA PrependIsSound ==
  ASSUME NEW f \in Nat, NEW t \in Nat, NEW c \in SoundCache(f, t), c.cols # <<>>, NEW w \in SoundWindow(f, t)
  PROVE  PrependOlder(c, w) \in SoundCache(f, t)
<1>1. PICK s, p : s = c.cols /\ p = WindowCols(w)
  OBVIOUS
<1>2. s \in SoundCols(f, t) /\ s \in Seq(HeatCol) /\ Len(s) \in Nat \ {0} /\ c.step \in Nat
      /\ c.band \in Bands \cup {Absent} /\ c = [step |-> c.step, band |-> c.band, cols |-> s]
  BY <1>1 DEF SoundCache, SoundCols
<1>3. p \in SoundCols(f, t) /\ p \in Seq(HeatCol) /\ Len(p) = w.n /\ w.n \in Nat \ {0}
  BY <1>1, WindowColsAreSound DEF SoundCols
<1>4. PICK E : E = {i \in 1..w.n : p[i].ts < s[1].ts}
  OBVIOUS
<1>5. PrependOlder(c, w) = IF Bins[w.band] # Bins[c.band] \/ E = {} THEN c
                           ELSE [c EXCEPT !.cols = SubSeq(p, 1, Max(E)) \o @]
  BY <1>1, <1>4 DEF PrependOlder
<1>6. CASE Bins[w.band] # Bins[c.band] \/ E = {}
  BY <1>5, <1>6
<1>7. CASE E # {} /\ Bins[w.band] = Bins[c.band]
  <2>1. E \subseteq 1..w.n
    BY <1>4
  <2>2. Max(E) \in E
    BY <1>3, <1>7, <2>1, GreatestExists
  <2>3. PICK m \in 1..w.n : m = Max(E) /\ p[m].ts < s[1].ts
    BY <1>4, <2>2
  <2>4. PICK q, r : q = SubSeq(p, 1, m) /\ r = q \o s
    OBVIOUS
  <2>5. PrependOlder(c, w) = [step |-> c.step, band |-> c.band, cols |-> r]
    <3>1. PrependOlder(c, w) = [c EXCEPT !.cols = q \o @]
      BY <1>5, <1>7, <2>3, <2>4
    <3>2. QED BY <1>1, <1>2, <2>4, <3>1
  <2>6. q \in SoundCols(f, t)
    <3>1. m \in Nat /\ m <= Len(p)
      BY <1>3
    <3>2. QED BY <1>3, <2>4, <3>1, SliceIsSound
  <2>7. /\ q \in Seq(HeatCol) /\ Len(q) = m /\ DOMAIN q = 1..m /\ DOMAIN s = 1..Len(s)
        /\ \A i \in 1..m : q[i] = p[i]
    <3>1. m \in Nat /\ m <= Len(p)
      BY <1>3, <2>3
    <3>2. q \in Seq(HeatCol) /\ Len(q) = m /\ \A i \in 1..m : q[i] = p[i]
      BY <1>3, <2>4, <3>1
    <3>3. DOMAIN s = 1..Len(s) /\ DOMAIN q = 1..m
      BY <1>2, <3>2
    <3>4. QED BY <3>2, <3>3
  <2>8. s[1].ts \in Nat /\ \A j \in 1..Len(s) : s[1].ts <= s[j].ts /\ s[j].ts \in Nat
    <3>1. \A j \in 1..Len(s) : s[j] \in HeatCol
      BY <1>2
    <3>2. \A j \in 1..Len(s) : s[j].ts \in Nat
      BY <3>1 DEF HeatCol
    <3>3. 1 \in DOMAIN s /\ 1 \in 1..Len(s)
      BY <1>2
    <3>4. ASSUME NEW j \in 1..Len(s) PROVE s[1].ts <= s[j].ts
      <4>1. CASE j = 1
        BY <3>2, <3>3, <4>1
      <4>2. CASE j # 1
        <5>1. 1 < j /\ j \in DOMAIN s
          BY <1>2, <4>2
        <5>2. QED BY <1>2, <3>3, <5>1 DEF SoundCols
      <4>3. QED BY <4>1, <4>2
    <3>5. QED BY <3>2, <3>3, <3>4
  <2>9. \A i \in 1..m : q[i].ts < s[1].ts
    <3>1. SUFFICES ASSUME NEW i \in 1..m PROVE p[i].ts < s[1].ts
      BY <2>7
    <3>2. i \in DOMAIN p /\ m \in DOMAIN p
      BY <1>3, <2>3
    <3>3. p[i] \in HeatCol /\ p[m] \in HeatCol
      BY <1>3, <3>2
    <3>4. p[i].ts \in Nat /\ p[m].ts \in Nat
      BY <3>3 DEF HeatCol
    <3>5. p[i].ts <= p[m].ts
      <4>1. CASE i = m
        BY <3>4, <4>1
      <4>2. CASE i < m
        BY <1>3, <3>2, <4>2 DEF SoundCols
      <4>3. QED BY <4>1, <4>2
    <3>6. QED BY <2>3, <2>8, <3>4, <3>5
  <2>10. /\ r \in Seq(HeatCol) /\ DOMAIN r = 1..(m + Len(s))
         /\ \A i \in 1..m : r[i] = q[i]
         /\ \A i \in (m + 1)..(m + Len(s)) : r[i] = s[i - m] /\ i - m \in 1..Len(s)
    BY <1>2, <2>4, <2>7
  <2>11. \A i \in DOMAIN r : f <= r[i].ts /\ r[i].ts <= t
    <3>1. SUFFICES ASSUME NEW i \in DOMAIN r PROVE f <= r[i].ts /\ r[i].ts <= t
      OBVIOUS
    <3>2. CASE i \in 1..m
      BY <2>6, <2>7, <2>10, <3>2 DEF SoundCols
    <3>3. CASE i \in (m + 1)..(m + Len(s))
      BY <1>2, <2>7, <2>10, <3>3 DEF SoundCols
    <3>4. QED BY <1>2, <2>10, <3>2, <3>3
  <2>12. ASSUME NEW i \in DOMAIN r, NEW j \in DOMAIN r, i < j PROVE r[i].ts <= r[j].ts
    <3>1. CASE j \in 1..m
      <4>1. i \in 1..m
        BY <2>10, <2>12, <3>1
      <4>2. QED BY <2>6, <2>7, <2>10, <2>12, <3>1, <4>1 DEF SoundCols
    <3>2. CASE j \in (m + 1)..(m + Len(s)) /\ i \in 1..m
      <4>1. r[i].ts < s[1].ts /\ r[i] \in HeatCol
        BY <2>7, <2>9, <2>10, <3>2
      <4>2. r[j] = s[j - m] /\ j - m \in 1..Len(s)
        BY <2>10, <3>2
      <4>3. s[1].ts <= r[j].ts /\ r[j].ts \in Nat /\ r[i].ts \in Nat
        BY <2>8, <4>1, <4>2 DEF HeatCol
      <4>4. QED BY <2>8, <4>1, <4>3
    <3>3. CASE j \in (m + 1)..(m + Len(s)) /\ i \in (m + 1)..(m + Len(s))
      <4>1. PICK x, y : x = i - m /\ y = j - m
        OBVIOUS
      <4>2. x \in DOMAIN s /\ y \in DOMAIN s /\ x < y /\ r[i] = s[x] /\ r[j] = s[y]
        BY <2>7, <2>10, <2>12, <3>3, <4>1
      <4>3. QED BY <1>2, <4>2 DEF SoundCols
    <3>4. QED BY <1>2, <2>10, <3>1, <3>2, <3>3
  <2>13. r \in SoundCols(f, t)
    BY <2>10, <2>11, <2>12 DEF SoundCols
  <2>14. QED BY <1>2, <2>5, <2>10, <2>13 DEF SoundCache
<1>8. QED BY <1>6, <1>7

(* Everything a frame does to the cache.                                   *)
LEMMA FrameIsSound ==
  ASSUME NEW f \in Nat, NEW t \in Nat, NEW c \in SoundCache(f, t),
         NEW cols \in Seq(HeatCol), \A i \in 1..Len(cols) : cols[i].ts <= t
  PROVE  AppendAll(c, cols) \subseteq SoundCache(f, t)
<1>1. PICK S : S = SoundCache(f, t)
  OBVIOUS
<1>2. \A x \in S : \A i \in 1..Len(cols) : AppendLive(x, cols[i]) \in S
  <2>1. SUFFICES ASSUME NEW x \in S, NEW i \in 1..Len(cols) PROVE AppendLive(x, cols[i]) \in S
    OBVIOUS
  <2>2. cols[i] \in HeatCol /\ cols[i].ts <= t
    OBVIOUS
  <2>3. QED BY <1>1, <2>2, AppendIsSound
<1>3. Len(cols) \in Nat
  OBVIOUS
<1>4. QED BY <1>1, <1>2, <1>3, AppendAllKeeps

(* Windows, columns and messages of the time up to t.                      *)
HeldWindows(t) == {w \in SoundWindow(0, t) : w.id \in 0..MaxRequests}
HeldColumns(t) == {c \in HeatCol : c.ts <= t}
PushedColumns(t) == {c \in [kind : {"column"}, ts : Nat, band : Bands] : c.ts <= t}

ViewShape ==
    /\ now \in FirstNow..MaxNow
    /\ open \in BOOLEAN /\ follow \in BOOLEAN /\ debouncing \in BOOLEAN
    /\ clean \in BOOLEAN /\ weighed \in BOOLEAN
    /\ view \in [lo : Int, hi : Int, band : Bands] /\ floor \in Nat
    /\ hmBand \in Bands \cup {Absent} /\ sub \in Bands \cup {Absent}
    /\ pending \in {Absent, "reset", "prepend"}
    /\ requests \in 0..MaxRequests
WireShape ==
    /\ outgoing \in Seq(HeldWindows(now) \cup {Stop}) /\ jobs \subseteq HeldWindows(now)
    /\ queue \in Seq(HeldWindows(now) \cup PushedColumns(now)) /\ Len(queue) <= QueueMax
    /\ delivered \in HeldWindows(now) \cup {Absent}
    /\ livecols \in Seq(HeldColumns(now))

(* Unless a reply was lost or overtaken, no window on its way starts before *)
(* the floor, and neither does the cache, but for what a window on its way *)
(* will replace.                                                           *)
FloorHolds ==
    clean => /\ \A w \in Unanswered : w.t0 >= floor
             /\ \/ cache.cols \in SoundCols(floor, now)
                \/ pending = "reset" /\ Unanswered # {}

(* A closed heat-map has said so to the daemon, or is about to.            *)
StopIsSent ==
    ~open => \/ outgoing = <<>> /\ sub = Absent
             \/ outgoing # <<>> /\ outgoing[Len(outgoing)].kind = "stop"

HeatIInv ==
    ViewShape /\ WireShape /\ cache \in SoundCache(0, now) /\ FloorHolds /\ StopIsSent

LEMMA HeatConstants ==
  /\ FirstNow \in Nat /\ MaxNow \in Nat /\ MaxRequests \in Nat /\ MaxFaults \in Nat
  /\ Pulse \in Nat \ {0} /\ Px \in Nat \ {0} /\ MinCols \in Nat \ {0} /\ MinData \in Nat \ {0}
  /\ MaxSpan \in Nat \ {0} /\ QueueMax \in Nat \ {0} /\ Px <= MinData
  /\ Home \in Bands /\ Absent \notin Bands /\ Absent # "reset" /\ Absent # "prepend"
  /\ \A s \in Starts : s \in Nat /\ s < FirstNow
  /\ \A v \in Spans : v.lo \in Nat /\ v.hi \in Nat
BY HeatmapViewAssumption

LEMMA AbsentIsNoWindow ==
  ASSUME NEW t
  PROVE  Absent \notin HeldWindows(t)
<1>1. HeldWindows(t) \subseteq [kind : {"window"}, id : Nat, t0 : Nat, t1 : Nat, n : Nat, band : Bands]
  BY DEF HeldWindows, SoundWindow, HeatWindow
<1>2. QED BY <1>1, HeatmapViewAssumption

LEMMA HeldParts ==
  ASSUME NEW t, NEW w \in HeldWindows(t)
  PROVE  /\ w.kind = "window" /\ w.t0 \in Nat /\ w.t1 \in Nat /\ w.n \in Nat \ {0} /\ w.band \in Bands
         /\ w.id \in 0..MaxRequests /\ w.t0 <= w.t1 /\ w.t1 <= t
         /\ w \in HeatWindow
BY DEF HeldWindows, SoundWindow, HeatWindow

LEMMA TimeWidens ==
  ASSUME NEW f, NEW t \in Nat, NEW u \in Nat, t <= u
  PROVE  /\ SoundCols(f, t) \subseteq SoundCols(f, u) /\ SoundCache(f, t) \subseteq SoundCache(f, u)
         /\ HeldWindows(t) \subseteq HeldWindows(u) /\ HeldColumns(t) \subseteq HeldColumns(u)
         /\ PushedColumns(t) \subseteq PushedColumns(u)
<1>1. SoundCols(f, t) \subseteq SoundCols(f, u)
  <2>1. SUFFICES ASSUME NEW s \in SoundCols(f, t) PROVE s \in SoundCols(f, u)
    OBVIOUS
  <2>2. s \in Seq(HeatCol)
    BY DEF SoundCols
  <2>3. \A i \in DOMAIN s : s[i].ts \in Nat
    <3>1. \A i \in DOMAIN s : s[i] \in HeatCol
      BY <2>2
    <3>2. QED BY <3>1 DEF HeatCol
  <2>4. \A i \in DOMAIN s : s[i].ts <= u
    BY <2>3 DEF SoundCols
  <2>5. QED BY <2>4 DEF SoundCols
<1>2. SoundCache(f, t) \subseteq SoundCache(f, u)
  BY <1>1 DEF SoundCache
<1>3. HeldWindows(t) \subseteq HeldWindows(u)
  <2>1. SUFFICES ASSUME NEW w \in HeldWindows(t) PROVE w.t1 <= u
    BY DEF HeldWindows, SoundWindow
  <2>2. QED BY HeldParts
<1>4. HeldColumns(t) \subseteq HeldColumns(u)
  BY DEF HeldColumns, HeatCol
<1>5. PushedColumns(t) \subseteq PushedColumns(u)
  <2>1. SUFFICES ASSUME NEW c \in PushedColumns(t) PROVE c.ts <= u
    BY DEF PushedColumns
  <2>2. c.ts \in Nat /\ c.ts <= t
    BY DEF PushedColumns
  <2>3. QED BY <2>2
<1>6. QED BY <1>1, <1>2, <1>3, <1>4, <1>5

LEMMA SetOfAppend ==
  ASSUME NEW T, NEW s \in Seq(T), NEW x
  PROVE  ToSet(Append(s, x)) = ToSet(s) \cup {x}
<1>1. PICK r : r = Append(s, x)
  OBVIOUS
<1>2. /\ DOMAIN r = 1..(Len(s) + 1) /\ DOMAIN s = 1..Len(s) /\ Len(s) \in Nat
      /\ \A i \in 1..Len(s) : r[i] = s[i]
      /\ r[Len(s) + 1] = x
  BY <1>1
<1>3. \A y : (\E i \in DOMAIN r : r[i] = y) <=> ((\E i \in DOMAIN s : s[i] = y) \/ y = x)
  <2>1. SUFFICES ASSUME NEW y
                 PROVE  (\E i \in DOMAIN r : r[i] = y) <=> ((\E i \in DOMAIN s : s[i] = y) \/ y = x)
    OBVIOUS
  <2>2. \A i \in DOMAIN r : i \in DOMAIN s \/ i = Len(s) + 1
    BY <1>2
  <2>3. \A i \in DOMAIN s : i \in DOMAIN r
    BY <1>2
  <2>4. Len(s) + 1 \in DOMAIN r
    BY <1>2
  <2>5. QED BY <1>2, <2>2, <2>3, <2>4
<1>4. QED BY <1>1, <1>3 DEF ToSet

LEMMA SetOfTail ==
  ASSUME NEW T, NEW s \in Seq(T), s # <<>>
  PROVE  ToSet(s) = {Head(s)} \cup ToSet(Tail(s)) /\ Head(s) \in T /\ Tail(s) \in Seq(T)
<1>1. PICK r, h : r = Tail(s) /\ h = Head(s)
  OBVIOUS
<1>2. /\ DOMAIN s = 1..Len(s) /\ DOMAIN r = 1..(Len(s) - 1) /\ Len(s) \in Nat /\ Len(s) # 0
      /\ \A i \in 1..(Len(s) - 1) : r[i] = s[i + 1]
      /\ h = s[1] /\ h \in T /\ r \in Seq(T)
  BY <1>1
<1>3. \A y : (\E i \in DOMAIN s : s[i] = y) <=> ((\E i \in DOMAIN r : r[i] = y) \/ y = h)
  <2>1. SUFFICES ASSUME NEW y
                 PROVE  (\E i \in DOMAIN s : s[i] = y) <=> ((\E i \in DOMAIN r : r[i] = y) \/ y = h)
    OBVIOUS
  <2>2. \A i \in DOMAIN s : i = 1 \/ (i - 1 \in DOMAIN r /\ r[i - 1] = s[i])
    BY <1>2
  <2>3. \A i \in DOMAIN r : i + 1 \in DOMAIN s /\ s[i + 1] = r[i]
    BY <1>2
  <2>4. 1 \in DOMAIN s
    BY <1>2
  <2>5. QED BY <1>2, <2>2, <2>3, <2>4
<1>4. QED BY <1>1, <1>2, <1>3 DEF ToSet

(* What of it is asked for is told from the places it is in.               *)
AskedIn(s) == {m \in ToSet(s) : m.kind = "window"}

LEMMA UnansweredParts ==
  Unanswered = jobs \cup AskedIn(outgoing) \cup AskedIn(queue)
                 \cup (IF delivered = Absent THEN {} ELSE {delivered})
BY DEF Unanswered, AskedIn

LEMMA UnansweredAreHeld ==
  ASSUME WireShape
  PROVE  Unanswered \subseteq HeldWindows(now)
<1>1. PICK S, P : S = HeldWindows(now) /\ P = PushedColumns(now)
  OBVIOUS
<1>2. \A m \in ToSet(outgoing) : m \in S \cup {Stop}
  BY <1>1 DEF WireShape, ToSet
<1>3. \A m \in ToSet(queue) : m \in S \cup P
  BY <1>1 DEF WireShape, ToSet
<1>4. Stop.kind # "window" /\ \A m \in P : m.kind # "window"
  BY <1>1 DEF Stop, PushedColumns
<1>5. AskedIn(outgoing) \subseteq S /\ AskedIn(queue) \subseteq S
  BY <1>2, <1>3, <1>4 DEF AskedIn
<1>6. QED BY <1>1, <1>5, UnansweredParts DEF WireShape

LEMMA EmptyCacheIsSound ==
  ASSUME NEW f, NEW t
  PROVE  EmptyCache \in SoundCache(f, t) /\ EmptyCache.cols \in SoundCols(f, t) /\ EmptyCache.cols = <<>>
<1>1. PICK c : c = EmptyCache
  OBVIOUS
<1>2. c = [step |-> 0, band |-> Absent, cols |-> <<>>]
  BY <1>1 DEF EmptyCache
<1>3. c.cols = <<>> /\ <<>> \in SoundCols(f, t)
  BY <1>2 DEF SoundCols
<1>4. c \in [step : Nat, band : Bands \cup {Absent}, cols : Seq(HeatCol)]
  BY <1>2
<1>5. QED BY <1>1, <1>3, <1>4 DEF SoundCache

LEMMA InitHeatIInv == HeatInit => HeatIInv
<1> SUFFICES ASSUME HeatInit PROVE HeatIInv
  OBVIOUS
<1>1. FirstNow \in Nat /\ MaxRequests \in Nat /\ QueueMax \in Nat /\ Home \in Bands /\ FirstNow <= MaxNow /\ MaxNow \in Nat
  BY HeatConstants, HeatmapViewAssumption
<1>2. ViewShape
  <2>1. now \in FirstNow..MaxNow
    BY <1>1 DEF HeatInit
  <2>2. view \in [lo : Int, hi : Int, band : Bands]
    BY <1>1 DEF HeatInit
  <2>3. requests \in 0..MaxRequests /\ floor \in Nat
    BY <1>1 DEF HeatInit
  <2>4. hmBand = Absent /\ sub = Absent /\ pending = Absent
        /\ open \in BOOLEAN /\ follow \in BOOLEAN /\ debouncing \in BOOLEAN
        /\ clean \in BOOLEAN /\ weighed \in BOOLEAN
    BY DEF HeatInit
  <2>5. QED BY <2>1, <2>2, <2>3, <2>4 DEF ViewShape
<1>3. WireShape
  BY <1>1 DEF HeatInit, WireShape
<1>4. cache \in SoundCache(0, now)
  BY EmptyCacheIsSound DEF HeatInit
<1>5. FloorHolds
  <2>1. Unanswered = {}
    BY DEF HeatInit, Unanswered, ToSet
  <2>2. cache.cols \in SoundCols(floor, now)
    BY EmptyCacheIsSound DEF HeatInit
  <2>3. QED BY <2>1, <2>2 DEF FloorHolds
<1>6. StopIsSent
  BY DEF HeatInit, StopIsSent
<1>7. QED BY <1>2, <1>3, <1>4, <1>5, <1>6 DEF HeatIInv

(* A line for the daemon.                                                  *)
LEMMA AskingIsHeld ==
  ASSUME HeatIInv, requests < MaxRequests, NEW t0 \in Nat, NEW t1 \in Nat, t0 <= t1, t1 <= now,
         NEW n \in Nat \ {0}, NEW b \in Bands
  PROVE  /\ Window(t0, t1, n, b) \in HeldWindows(now)
         /\ Window(t0, t1, n, b).kind = "window" /\ Window(t0, t1, n, b).t0 = t0
<1>1. PICK w, r : w = Window(t0, t1, n, b) /\ r = requests
  OBVIOUS
<1>2. w = [kind |-> "window", id |-> r, t0 |-> t0, t1 |-> t1, n |-> n, band |-> b]
  BY <1>1 DEF Window
<1>3. r \in 0..MaxRequests /\ MaxRequests \in Nat
  BY <1>1, HeatConstants DEF HeatIInv, ViewShape
<1>4. w \in HeatWindow
  BY <1>2, <1>3 DEF HeatWindow
<1>5. w.kind = "window" /\ w.t0 = t0 /\ w.t1 = t1 /\ w.id = r
  BY <1>2
<1>6. QED BY <1>1, <1>3, <1>4, <1>5 DEF HeldWindows, SoundWindow

(* What is asked for while nothing else is keeps the floor.                *)
LEMMA AskKeepsFloor ==
  ASSUME HeatIInv, NEW w, w \in HeldWindows(now), w.kind = "window", w.t0 >= floor',
         outgoing' = Append(outgoing, w), UNCHANGED <<now, jobs, queue, delivered>>,
         clean' => Unanswered = {},
         clean' => cache'.cols \in SoundCols(floor', now') \/ pending' = "reset"
  PROVE  FloorHolds'
<1>1. outgoing \in Seq(HeldWindows(now) \cup {Stop})
  BY DEF HeatIInv, WireShape
<1>2. ToSet(outgoing') = ToSet(outgoing) \cup {w}
  BY <1>1, SetOfAppend
<1>3. AskedIn(outgoing') = AskedIn(outgoing) \cup {w}
  BY <1>2 DEF AskedIn
<1>4. Unanswered' = Unanswered \cup {w}
  <2>1. Unanswered' = jobs \cup (AskedIn(outgoing) \cup {w}) \cup AskedIn(queue)
                        \cup (IF delivered = Absent THEN {} ELSE {delivered})
    BY <1>3 DEF Unanswered, AskedIn
  <2>2. QED BY <2>1, UnansweredParts
<1>5. QED BY <1>4 DEF FloorHolds

LEMMA EnterIsSound ==
  ASSUME HeatIInv, NEW start \in Starts, NEW priced \in BOOLEAN, Enter(start, priced)
  PROVE  HeatIInv'
<1>1. /\ cache' = EmptyCache /\ follow' = TRUE /\ open' = TRUE
      /\ UNCHANGED <<now, debouncing, weighed, delivered, livecols, sub, jobs, queue, faults>>
      /\ requests < MaxRequests /\ requests' = requests + 1
  BY DEF Enter, Ask, daemon
<1>2. now \in Nat /\ start \in Nat /\ start <= now /\ Px \in Nat \ {0} /\ Home \in Bands
      /\ requests \in 0..MaxRequests /\ requests' \in 0..MaxRequests /\ now \in FirstNow..MaxNow
  BY <1>1, HeatConstants DEF HeatIInv, ViewShape
<1>3. cache' \in SoundCache(0, now') /\ cache'.cols \in SoundCols(floor', now')
  BY <1>1, EmptyCacheIsSound
<1>4. StopIsSent'
  BY <1>1 DEF StopIsSent
<1>5. CASE priced
  <2>1. /\ floor' = start /\ hmBand' = Home
        /\ view' = [lo |-> start, hi |-> now, band |-> Home]
        /\ outgoing' = Append(outgoing, Window(start, now, Px, Home))
        /\ pending' = "reset" /\ clean' = ((clean \/ TRUE) /\ Unanswered = {})
    BY <1>5 DEF Enter, Ask
  <2>2. PICK w : w = Window(start, now, Px, Home)
    OBVIOUS
  <2>3. w \in HeldWindows(now) /\ w.kind = "window" /\ w.t0 = start
    <3>1. now <= now
      BY <1>2
    <3>2. QED BY <1>1, <1>2, <2>2, <3>1, AskingIsHeld
  <2>4. clean' \in BOOLEAN /\ (clean' => Unanswered = {})
    BY <2>1
  <2>5. ViewShape'
    BY <1>1, <1>2, <2>1, <2>4 DEF HeatIInv, ViewShape
  <2>6. WireShape'
    <3>1. outgoing' \in Seq(HeldWindows(now) \cup {Stop})
      BY <2>1, <2>2, <2>3 DEF HeatIInv, WireShape
    <3>2. QED BY <1>1, <3>1 DEF HeatIInv, WireShape
  <2>7. FloorHolds'
    <3>1. w.t0 >= floor'
      BY <1>2, <2>1, <2>3
    <3>2. QED BY <1>1, <1>3, <2>1, <2>2, <2>3, <2>4, <3>1, AskKeepsFloor
  <2>8. QED BY <1>3, <1>4, <2>5, <2>6, <2>7 DEF HeatIInv
<1>6. CASE ~priced
  <2>1. /\ pending' = "reset" /\ clean' = (clean /\ Unanswered = {})
        /\ UNCHANGED <<floor, hmBand, view, outgoing>>
    BY <1>6 DEF Enter
  <2>2. clean' \in BOOLEAN
    BY <2>1
  <2>3. ViewShape'
    BY <1>1, <1>2, <2>1, <2>2 DEF HeatIInv, ViewShape
  <2>4. WireShape'
    BY <1>1, <2>1 DEF HeatIInv, WireShape
  <2>5. FloorHolds'
    <3>1. Unanswered' = Unanswered
      BY <1>1, <2>1 DEF Unanswered
    <3>2. QED BY <1>3, <2>1, <3>1 DEF FloorHolds
  <2>6. QED BY <1>3, <1>4, <2>3, <2>4, <2>5 DEF HeatIInv
<1>7. QED BY <1>5, <1>6

LEMMA ExitIsSound ==
  ASSUME HeatIInv, Exit
  PROVE  HeatIInv'
<1>1. /\ open' = FALSE /\ outgoing' = Append(outgoing, Stop)
      /\ delivered' = Absent /\ livecols' = <<>>
      /\ cache' = EmptyCache /\ hmBand' = Absent /\ pending' = Absent
      /\ clean' = (clean /\ delivered = Absent)
      /\ UNCHANGED <<now, view, follow, debouncing, floor, weighed, sub, jobs, queue, requests, faults>>
  BY DEF Exit, daemon
<1>2. outgoing \in Seq(HeldWindows(now) \cup {Stop})
  BY DEF HeatIInv, WireShape
<1>3. cache' \in SoundCache(0, now') /\ cache'.cols \in SoundCols(floor', now')
  BY <1>1, EmptyCacheIsSound
<1>4. clean' \in BOOLEAN
  BY <1>1
<1>5. ViewShape'
  BY <1>1, <1>4 DEF HeatIInv, ViewShape
<1>6. WireShape'
  <2>1. outgoing' \in Seq(HeldWindows(now) \cup {Stop})
    BY <1>1, <1>2
  <2>2. QED BY <1>1, <2>1 DEF HeatIInv, WireShape
<1>7. FloorHolds'
  <2>1. ToSet(outgoing') = ToSet(outgoing) \cup {Stop}
    BY <1>1, <1>2, SetOfAppend
  <2>2. AskedIn(outgoing') = AskedIn(outgoing)
    BY <2>1 DEF AskedIn, Stop
  <2>3. Unanswered' \subseteq Unanswered
    <3>1. Unanswered' = jobs \cup AskedIn(outgoing') \cup AskedIn(queue)
      BY <1>1 DEF Unanswered, AskedIn
    <3>2. QED BY <2>2, <3>1, UnansweredParts
  <2>4. QED BY <1>1, <1>3, <2>3 DEF HeatIInv, FloorHolds
<1>8. StopIsSent'
  <2>1. outgoing' # <<>> /\ outgoing'[Len(outgoing')] = Stop
    BY <1>1, <1>2
  <2>2. QED BY <2>1 DEF StopIsSent, Stop
<1>9. QED BY <1>3, <1>5, <1>6, <1>7, <1>8 DEF HeatIInv

LEMMA GestureIsSound ==
  ASSUME HeatIInv, Refollow \/ \E v \in Spans, b \in Bands : Pan(v, b)
  PROVE  HeatIInv'
<1>1. UNCHANGED <<now, open, floor, weighed, hmBand, pending, cache, outgoing, delivered, livecols, sub, jobs,
                  queue, requests, faults, clean>>
  BY DEF Refollow, Pan, stitch, client, daemon
<1>2. view' \in [lo : Int, hi : Int, band : Bands] /\ follow' \in BOOLEAN /\ debouncing' \in BOOLEAN
  <2>1. CASE Refollow
    BY <2>1 DEF Refollow, HeatIInv, ViewShape
  <2>2. ASSUME NEW v \in Spans, NEW b \in Bands, Pan(v, b)
        PROVE  view' \in [lo : Int, hi : Int, band : Bands] /\ follow' \in BOOLEAN /\ debouncing' \in BOOLEAN
    <3>1. v.lo \in Int /\ v.hi \in Int
      BY HeatConstants
    <3>2. view' = [lo |-> v.lo, hi |-> v.hi, band |-> b] /\ debouncing' = TRUE
          /\ follow' \in IF v.hi - v.lo = view.hi - view.lo THEN {FALSE} ELSE BOOLEAN
      BY <2>2 DEF Pan
    <3>3. QED BY <3>1, <3>2
  <2>3. QED BY <2>1, <2>2
<1>3. ViewShape'
  BY <1>1, <1>2 DEF HeatIInv, ViewShape
<1>4. WireShape'
  BY <1>1 DEF HeatIInv, WireShape
<1>5. Unanswered' = Unanswered
  BY <1>1 DEF Unanswered
<1>6. FloorHolds' /\ StopIsSent'
  BY <1>1, <1>5 DEF HeatIInv, FloorHolds, StopIsSent
<1>7. QED BY <1>1, <1>3, <1>4, <1>6 DEF HeatIInv

LEMMA RequestIsSound ==
  ASSUME HeatIInv, RequestVisible
  PROVE  HeatIInv'
<1>1. PICK lo, hi, first : /\ lo = LeftEdge /\ hi = Lesser(view.hi, now) /\ first = cache.cols[1].ts
  OBVIOUS
<1>2. /\ debouncing' = FALSE /\ weighed' \in BOOLEAN
      /\ UNCHANGED <<now, open, view, follow, floor, sub, jobs, queue, faults>>
  BY DEF RequestVisible, daemon
<1>3. PICK fits \in BOOLEAN :
        /\ fits => cache.cols # <<>>
        /\ \/ UNCHANGED <<stitch, client, requests, clean>>
           \/ /\ open /\ ~(hi - lo < MinData) /\ fits /\ ~(first <= lo)
              /\ Ask(FALSE)
              /\ outgoing' = Append(outgoing, Window(lo, Millis(first), Columns(lo, first), hmBand))
              /\ UNCHANGED <<hmBand, cache, delivered, livecols>>
           \/ /\ open /\ ~(hi - lo < MinData)
              /\ Ask(TRUE)
              /\ hmBand' = view.band
              /\ outgoing' = Append(outgoing, Window(lo, hi, Columns(lo, hi), view.band))
              /\ UNCHANGED <<cache, delivered, livecols>>
        /\ fits => hmBand = view.band
  <2> DEFINE F == /\ BandOk /\ cache.cols # <<>>
                  /\ 4 * Larger(cache.step - NeedStep, NeedStep - cache.step) < NeedStep
                  /\ hi <= cache.cols[Len(cache.cols)].ts
  <2>1. PICK fits \in BOOLEAN : fits <=> F
    OBVIOUS
  <2>2. (fits => cache.cols # <<>>) /\ (fits => hmBand = view.band)
    BY <2>1 DEF BandOk
  <2>3. IF ~open \/ hi - lo < MinData \/ (fits /\ first <= lo)
        THEN UNCHANGED <<stitch, client, requests, clean>>
        ELSE IF fits
        THEN /\ Ask(FALSE)
             /\ outgoing' = Append(outgoing, Window(lo, Millis(first), Columns(lo, first), hmBand))
             /\ UNCHANGED <<hmBand, cache, delivered, livecols>>
        ELSE /\ Ask(TRUE)
             /\ hmBand' = view.band
             /\ outgoing' = Append(outgoing, Window(lo, hi, Columns(lo, hi), view.band))
             /\ UNCHANGED <<cache, delivered, livecols>>
    BY <1>1, <2>1 DEF RequestVisible
  <2> HIDE DEF F
  <2>4. QED BY <2>2, <2>3
<1>4. /\ now \in Nat /\ now \in FirstNow..MaxNow /\ floor \in Nat /\ view.lo \in Int /\ view.hi \in Int
      /\ view.band \in Bands /\ requests \in 0..MaxRequests /\ MaxRequests \in Nat
      /\ MinCols \in Nat \ {0} /\ MinData \in Nat \ {0} /\ Px \in Nat \ {0} /\ Px <= MinData
  BY HeatConstants DEF HeatIInv, ViewShape
<1>5. lo \in Nat /\ hi \in Int /\ hi <= now /\ hi <= view.hi /\ floor <= lo
  BY <1>1, <1>4 DEF LeftEdge, Larger, Lesser
<1>6. CASE UNCHANGED <<stitch, client, requests, clean>>
  <2>1. UNCHANGED <<hmBand, pending, cache, outgoing, delivered, livecols, requests, clean>>
    BY <1>6 DEF stitch, client
  <2>2. ViewShape' /\ WireShape'
    BY <1>2, <2>1 DEF HeatIInv, ViewShape, WireShape
  <2>3. Unanswered' = Unanswered
    BY <1>2, <2>1 DEF Unanswered
  <2>4. FloorHolds' /\ StopIsSent'
    BY <1>2, <2>1, <2>3 DEF HeatIInv, FloorHolds, StopIsSent
  <2>5. QED BY <1>2, <2>1, <2>2, <2>4 DEF HeatIInv
<1>7. ASSUME ~(hi - lo < MinData)
      PROVE  NeedStep \in Nat \ {0}
  <2>1. view.hi - lo \in Nat /\ view.hi - lo >= Px
    BY <1>4, <1>5, <1>7
  <2>2. PICK a \in Nat : a = view.hi - lo /\ a >= Px
    BY <2>1
  <2>3. PICK q : q = a \div Px
    OBVIOUS
  <2>4. q \in Nat /\ a < Px * q + Px
    BY <1>4, <2>3, DivParts
  <2>5. q # 0
    <3>1. Px * 0 + Px = Px
      BY <1>4
    <3>2. QED BY <1>4, <2>2, <2>4, <3>1
  <2>6. NeedStep = q
    BY <1>1, <2>2, <2>3 DEF NeedStep
  <2>7. QED BY <2>4, <2>5, <2>6
<1>8. ASSUME ~(hi - lo < MinData), NEW t \in Nat, lo <= t
      PROVE  Columns(lo, t) \in Nat \ {0}
  <2>1. PICK n \in Nat \ {0}, a \in Nat : n = NeedStep /\ a = t - lo
    BY <1>5, <1>7, <1>8
  <2>2. a \div n \in Nat
    BY DivParts
  <2>3. Columns(lo, t) = Larger(MinCols, a \div n)
    BY <2>1 DEF Columns
  <2>4. QED BY <1>4, <2>2, <2>3 DEF Larger
<1>9. outgoing \in Seq(HeldWindows(now) \cup {Stop})
  BY DEF HeatIInv, WireShape
<1>10. ASSUME NEW w \in HeldWindows(now), w.kind = "window", w.t0 = lo, NEW b \in BOOLEAN, Ask(b), open,
              outgoing' = Append(outgoing, w), hmBand' \in Bands \cup {Absent},
              UNCHANGED <<cache, delivered, livecols>>
       PROVE  HeatIInv'
  <2>1. /\ requests < MaxRequests /\ requests' = requests + 1
        /\ pending' = (IF b THEN "reset" ELSE "prepend")
        /\ clean' = ((clean \/ b) /\ Unanswered = {})
    BY <1>10 DEF Ask
  <2>2. clean' \in BOOLEAN /\ (clean' => Unanswered = {}) /\ pending' \in {"reset", "prepend"}
        /\ requests' \in 0..MaxRequests
    <3>1. clean' \in BOOLEAN
      BY <2>1
    <3>2. clean' => Unanswered = {}
      BY <2>1
    <3>3. pending' \in {"reset", "prepend"}
      BY <2>1
    <3>4. requests' \in 0..MaxRequests
      BY <1>4, <2>1
    <3>5. QED BY <3>1, <3>2, <3>3, <3>4
  <2>3. ViewShape'
    BY <1>2, <1>10, <2>2 DEF HeatIInv, ViewShape
  <2>4. outgoing' \in Seq(HeldWindows(now) \cup {Stop})
    BY <1>9, <1>10
  <2>5. WireShape'
    BY <1>2, <1>10, <2>4 DEF HeatIInv, WireShape
  <2>6. clean' => cache'.cols \in SoundCols(floor', now') \/ pending' = "reset"
    <3>1. CASE b
      BY <2>1, <3>1
    <3>2. CASE ~b
      <4>1. clean' => clean /\ Unanswered = {}
        BY <2>1, <3>2
      <4>2. clean' => cache.cols \in SoundCols(floor, now)
        BY <4>1 DEF HeatIInv, FloorHolds
      <4>3. QED BY <1>2, <1>10, <4>2
    <3>3. QED BY <3>1, <3>2
  <2>7. FloorHolds'
    <3>1. w.t0 >= floor'
      BY <1>2, <1>4, <1>5, <1>10
    <3>2. UNCHANGED <<now, jobs, queue, delivered>>
      BY <1>2, <1>10
    <3>3. QED BY <1>10, <2>2, <2>6, <3>1, <3>2, AskKeepsFloor
  <2>8. StopIsSent'
    BY <1>2, <1>10 DEF StopIsSent
  <2>9. QED BY <1>2, <1>10, <2>3, <2>5, <2>7, <2>8 DEF HeatIInv
<1>11. CASE /\ open /\ ~(hi - lo < MinData) /\ fits /\ ~(first <= lo)
            /\ Ask(FALSE)
            /\ outgoing' = Append(outgoing, Window(lo, Millis(first), Columns(lo, first), hmBand))
            /\ UNCHANGED <<hmBand, cache, delivered, livecols>>
  <2>1. first \in Nat /\ first <= now
    <3>1. cache.cols \in SoundCols(0, now) /\ cache.cols # <<>>
      BY <1>3, <1>11 DEF HeatIInv, SoundCache
    <3>2. PICK s : s = cache.cols
      OBVIOUS
    <3>3. s \in Seq(HeatCol) /\ 1 \in DOMAIN s /\ s[1].ts <= now
      BY <3>1, <3>2 DEF SoundCols
    <3>4. s[1] \in HeatCol
      BY <3>3
    <3>5. QED BY <1>1, <3>2, <3>3, <3>4 DEF HeatCol
  <2>2. PICK m : m = Millis(first)
    OBVIOUS
  <2>3. m \in Nat /\ lo <= m /\ m <= now
    BY <1>4, <1>5, <1>11, <2>1, <2>2 DEF Millis
  <2>4. PICK n \in Nat \ {0} : n = Columns(lo, first)
    <3>1. lo <= first
      BY <1>5, <1>11, <2>1
    <3>2. QED BY <1>8, <1>11, <2>1, <3>1
  <2>5. hmBand \in Bands
    BY <1>3, <1>4, <1>11
  <2>6. PICK w : w = Window(lo, m, n, hmBand)
    OBVIOUS
  <2>7. requests < MaxRequests
    BY <1>11 DEF Ask
  <2>8. w \in HeldWindows(now) /\ w.kind = "window" /\ w.t0 = lo
    BY <1>5, <2>3, <2>5, <2>6, <2>7, AskingIsHeld
  <2>9. outgoing' = Append(outgoing, w) /\ hmBand' = hmBand
    BY <1>11, <2>2, <2>4, <2>6
  <2>10. QED BY <1>10, <1>11, <2>5, <2>8, <2>9
<1>12. CASE /\ open /\ ~(hi - lo < MinData)
            /\ Ask(TRUE)
            /\ hmBand' = view.band
            /\ outgoing' = Append(outgoing, Window(lo, hi, Columns(lo, hi), view.band))
            /\ UNCHANGED <<cache, delivered, livecols>>
  <2>1. hi \in Nat /\ lo <= hi
    BY <1>4, <1>5, <1>12
  <2>2. PICK n \in Nat \ {0} : n = Columns(lo, hi)
    BY <1>8, <1>12, <2>1
  <2>3. PICK w, b : w = Window(lo, hi, n, view.band) /\ b = view.band
    OBVIOUS
  <2>4. requests < MaxRequests
    BY <1>12 DEF Ask
  <2>5. w \in HeldWindows(now) /\ w.kind = "window" /\ w.t0 = lo
    BY <1>4, <1>5, <2>1, <2>3, <2>4, AskingIsHeld
  <2>6. outgoing' = Append(outgoing, w) /\ hmBand' \in Bands
    BY <1>4, <1>12, <2>2, <2>3
  <2>7. QED BY <1>10, <1>12, <2>5, <2>6
<1>13. QED BY <1>3, <1>6, <1>11, <1>12

LEMMA FrameKeepsHeat ==
  ASSUME HeatIInv, Frame
  PROVE  HeatIInv'
<1>1. PICK c, d, t, s :
        /\ c = cache /\ d = delivered /\ t = now
        /\ s = (IF d = Absent THEN c
                ELSE IF pending = "prepend" /\ c.cols # <<>> THEN PrependOlder(c, d)
                ELSE CacheReset(d))
  OBVIOUS
<1>2. PICK out : out \in AppendAll(s, livecols) /\ cache' = out
  BY <1>1 DEF Frame
<1>3. /\ hmBand' = (IF d = Absent \/ (pending = "prepend" /\ c.cols # <<>>) THEN hmBand ELSE d.band)
      /\ pending' = (IF d = Absent THEN pending ELSE Absent)
      /\ delivered' = Absent /\ livecols' = <<>>
      /\ view' = (IF follow /\ cache'.cols # <<>>
                  THEN [view EXCEPT !.lo = now - (view.hi - view.lo), !.hi = now] ELSE view)
      /\ UNCHANGED <<now, open, follow, debouncing, floor, weighed, outgoing, sub, jobs, queue, requests, faults,
                     clean>>
  BY <1>1 DEF Frame, daemon
<1>4. t \in Nat /\ floor \in Nat /\ floor' = floor /\ now' = t
  BY <1>1, <1>3, HeatConstants DEF HeatIInv, ViewShape
<1>5. livecols \in Seq(HeatCol) /\ \A i \in 1..Len(livecols) : livecols[i].ts <= t
  <2>1. PICK q, S : q = livecols /\ S = HeldColumns(t)
    OBVIOUS
  <2>2. q \in Seq(S) /\ S \subseteq HeatCol /\ \A x \in S : x.ts <= t
    BY <1>1, <2>1 DEF HeatIInv, WireShape, HeldColumns
  <2>3. QED BY <2>1, <2>2
<1>6. ASSUME NEW f \in Nat, c \in SoundCache(f, t) \/ (d # Absent /\ pending # "prepend"),
             d # Absent => d \in SoundWindow(f, t)
      PROVE  out \in SoundCache(f, t)
  <2>1. s \in SoundCache(f, t)
    <3>1. CASE d = Absent
      BY <1>1, <1>6, <3>1
    <3>2. CASE d # Absent /\ pending = "prepend" /\ c.cols # <<>>
      <4>1. PrependOlder(c, d) \in SoundCache(f, t)
        BY <1>4, <1>6, <3>2, PrependIsSound
      <4>2. QED BY <1>1, <3>2, <4>1
    <3>3. CASE d # Absent /\ ~(pending = "prepend" /\ c.cols # <<>>)
      <4>1. CacheReset(d) \in SoundCache(f, t)
        BY <1>4, <1>6, <3>3, ResetIsSound
      <4>2. s = CacheReset(d)
        BY <1>1, <3>3
      <4>3. QED BY <4>1, <4>2
    <3>4. QED BY <3>1, <3>2, <3>3
  <2>2. QED BY <1>2, <1>4, <1>5, <2>1, FrameIsSound
<1>7. d # Absent => d \in HeldWindows(t) /\ d \in SoundWindow(0, t)
  BY <1>1 DEF HeatIInv, WireShape, HeldWindows
<1>8. cache' \in SoundCache(0, now')
  <2>1. c \in SoundCache(0, t)
    BY <1>1 DEF HeatIInv
  <2>2. QED BY <1>2, <1>4, <1>6, <1>7, <2>1
<1>9. ViewShape'
  <2>1. view' \in [lo : Int, hi : Int, band : Bands]
    <3>1. PICK v : v = view
      OBVIOUS
    <3>2. v \in [lo : Int, hi : Int, band : Bands] /\ t \in Int /\ v.lo \in Int /\ v.hi \in Int
      BY <1>1, <1>4, <3>1 DEF HeatIInv, ViewShape
    <3>3. PICK x \in Int : x = t - (v.hi - v.lo)
      BY <3>2
    <3>4. [v EXCEPT !.lo = x, !.hi = t] \in [lo : Int, hi : Int, band : Bands]
      BY <3>2
    <3>5. view' = [v EXCEPT !.lo = x, !.hi = t] \/ view' = v
      BY <1>1, <1>3, <3>1, <3>3
    <3>6. QED BY <3>2, <3>4, <3>5
  <2>2. hmBand' \in Bands \cup {Absent}
    <3>1. d # Absent => d.band \in Bands
      BY <1>7, HeldParts
    <3>2. QED BY <1>3, <3>1 DEF HeatIInv, ViewShape
  <2>3. pending' \in {Absent, "reset", "prepend"}
    BY <1>3 DEF HeatIInv, ViewShape
  <2>4. QED BY <1>3, <2>1, <2>2, <2>3 DEF HeatIInv, ViewShape
<1>10. WireShape'
  BY <1>3 DEF HeatIInv, WireShape
<1>11. StopIsSent'
  BY <1>3 DEF HeatIInv, StopIsSent
<1>12. FloorHolds'
  <2>1. SUFFICES ASSUME clean' PROVE /\ \A w \in Unanswered' : w.t0 >= floor'
                                     /\ \/ cache'.cols \in SoundCols(floor', now')
                                        \/ pending' = "reset" /\ Unanswered' # {}
    BY DEF FloorHolds
  <2>2. /\ clean /\ \A w \in Unanswered : w.t0 >= floor
        /\ \/ c.cols \in SoundCols(floor, t)
           \/ pending = "reset" /\ Unanswered # {}
    BY <1>1, <1>3, <2>1 DEF HeatIInv, FloorHolds
  <2>3. Unanswered = Unanswered' \cup (IF d = Absent THEN {} ELSE {d})
    BY <1>1, <1>3 DEF Unanswered
  <2>4. c.cols \in SoundCols(floor, t) => c \in SoundCache(floor, t)
    BY <1>1 DEF HeatIInv, SoundCache
  <2>5. CASE d = Absent /\ ~(c.cols \in SoundCols(floor, t))
    BY <1>3, <1>4, <2>2, <2>3, <2>5
  <2>6. CASE d # Absent \/ c.cols \in SoundCols(floor, t)
    <3>1. c \in SoundCache(floor, t) \/ (d # Absent /\ pending # "prepend")
      BY <2>2, <2>4, <2>6
    <3>2. d # Absent => d \in SoundWindow(floor, t)
      <4>1. d # Absent => d.t0 >= floor
        BY <2>2, <2>3
      <4>2. d # Absent => d.t0 \in Nat
        BY <1>7, HeldParts
      <4>3. QED BY <1>4, <1>7, <4>1, <4>2 DEF SoundWindow
    <3>3. out \in SoundCache(floor, t)
      BY <1>4, <1>6, <3>1, <3>2
    <3>4. QED BY <1>2, <1>4, <2>2, <2>3, <3>3 DEF SoundCache
  <2>7. QED BY <2>5, <2>6
<1>13. QED BY <1>8, <1>9, <1>10, <1>11, <1>12 DEF HeatIInv

(* The daemon's side: what is asked for changes hands.                     *)
LEMMA SameFloor ==
  ASSUME HeatIInv, NEW t \in Nat, now <= t, now' = t, UNCHANGED <<cache, pending, floor>>,
         clean' => clean /\ Unanswered' \subseteq Unanswered /\ (Unanswered # {} => Unanswered' # {})
  PROVE  FloorHolds' /\ cache' \in SoundCache(0, now')
<1>1. PICK z \in Nat : z = now /\ z <= t
  BY HeatConstants DEF HeatIInv, ViewShape
<1>2. cache \in SoundCache(0, t)
  BY <1>1, TimeWidens DEF HeatIInv
<1>3. cache.cols \in SoundCols(floor, z) => cache.cols \in SoundCols(floor, t)
  BY <1>1, TimeWidens
<1>4. FloorHolds'
  BY <1>1, <1>3 DEF HeatIInv, FloorHolds
<1>5. QED BY <1>2, <1>4

LEMMA ControlKeepsHeat ==
  ASSUME HeatIInv, HandleControl
  PROVE  HeatIInv'
<1>1. /\ outgoing # <<>> /\ outgoing' = Tail(outgoing)
      /\ IF Head(outgoing).kind = "stop"
         THEN sub' = Absent /\ UNCHANGED jobs
         ELSE sub' = Head(outgoing).band /\ jobs' = jobs \cup {Head(outgoing)}
      /\ UNCHANGED <<now, open, view, follow, debouncing, floor, weighed, hmBand, pending, cache, delivered, livecols,
                     queue, requests, faults, clean>>
  BY DEF HandleControl, ui, stitch
<1>2. PICK h, S : h = Head(outgoing) /\ S = HeldWindows(now)
  OBVIOUS
<1>3. outgoing \in Seq(S \cup {Stop})
  BY <1>2 DEF HeatIInv, WireShape
<1>4. ToSet(outgoing) = {h} \cup ToSet(outgoing') /\ h \in S \cup {Stop} /\ outgoing' \in Seq(S \cup {Stop})
  BY <1>1, <1>2, <1>3, SetOfTail
<1>5. h \in S => h.kind = "window" /\ h.kind # "stop" /\ h.band \in Bands
  BY <1>2, HeldParts
<1>6. Stop.kind = "stop"
  BY DEF Stop
<1>7. \/ h = Stop /\ sub' = Absent /\ jobs' = jobs
      \/ h \in S /\ h.kind = "window" /\ sub' \in Bands /\ jobs' = jobs \cup {h}
  BY <1>1, <1>2, <1>4, <1>5, <1>6
<1>8. ViewShape'
  BY <1>1, <1>7 DEF HeatIInv, ViewShape
<1>9. WireShape'
  BY <1>1, <1>2, <1>4, <1>7 DEF HeatIInv, WireShape
<1>10. Unanswered' = Unanswered
  <2>1. jobs' \cup AskedIn(outgoing') = jobs \cup AskedIn(outgoing)
    BY <1>4, <1>6, <1>7 DEF AskedIn
  <2>2. Unanswered' = jobs' \cup AskedIn(outgoing') \cup AskedIn(queue)
                        \cup (IF delivered = Absent THEN {} ELSE {delivered})
    BY <1>1 DEF Unanswered, AskedIn
  <2>3. QED BY <2>1, <2>2, UnansweredParts
<1>11. FloorHolds' /\ cache' \in SoundCache(0, now')
  <2>1. now \in Nat /\ now <= now
    BY HeatConstants DEF HeatIInv, ViewShape
  <2>2. QED BY <1>1, <1>10, <2>1, SameFloor
<1>12. StopIsSent'
  <2>1. SUFFICES ASSUME ~open PROVE \/ outgoing' = <<>> /\ sub' = Absent
                                    \/ outgoing' # <<>> /\ outgoing'[Len(outgoing')].kind = "stop"
    BY <1>1 DEF StopIsSent
  <2>2. outgoing[Len(outgoing)].kind = "stop"
    BY <1>1, <2>1 DEF HeatIInv, StopIsSent
  <2>3. Len(outgoing) \in Nat \ {0} /\ h = outgoing[1]
    BY <1>1, <1>2, <1>3
  <2>4. CASE Len(outgoing) = 1
    <3>1. h.kind = "stop" /\ outgoing' = <<>>
      BY <1>1, <1>3, <2>2, <2>3, <2>4
    <3>2. QED BY <1>1, <1>2, <3>1
  <2>5. CASE Len(outgoing) # 1
    <3>1. PICK q, r : q = outgoing /\ r = Tail(q)
      OBVIOUS
    <3>2. q \in Seq(S \cup {Stop}) /\ Len(q) \in Nat /\ Len(q) > 1 /\ q # <<>>
      <4>1. q \in Seq(S \cup {Stop}) /\ q # <<>>
        BY <1>1, <1>3, <3>1
      <4>2. Len(q) \in Nat \ {0} /\ Len(q) # 1
        BY <2>3, <2>5, <3>1
      <4>3. \A n \in Nat \ {0} : n # 1 => n \in Nat /\ n > 1
        OBVIOUS
      <4>4. Len(q) \in Nat /\ Len(q) > 1
        BY <4>2, <4>3, Zenon
      <4>5. QED BY <4>1, <4>4
    <3>3. Len(r) = Len(q) - 1 /\ \A i \in 1..(Len(q) - 1) : r[i] = q[i + 1]
      BY <3>1, <3>2
    <3>4. Len(q) - 1 \in 1..(Len(q) - 1) /\ (Len(q) - 1) + 1 = Len(q)
      BY <3>2
    <3>5. r[Len(r)] = q[Len(q)]
      BY <3>3, <3>4
    <3>6. r # <<>>
      BY <3>2, <3>3
    <3>7. outgoing' = r
      BY <1>1, <3>1
    <3>8. QED BY <2>2, <3>1, <3>5, <3>6, <3>7
  <2>6. QED BY <2>4, <2>5
<1>13. QED BY <1>8, <1>9, <1>11, <1>12 DEF HeatIInv

LEMMA BuildKeepsHeat ==
  ASSUME HeatIInv, NEW w \in jobs, BuildDone(w) \/ BuildFails(w)
  PROVE  HeatIInv'
<1>1. /\ jobs' = jobs \ {w}
      /\ UNCHANGED <<now, open, view, follow, debouncing, floor, weighed, hmBand, pending, cache, outgoing, delivered,
                     livecols, sub, requests>>
  BY DEF BuildDone, BuildFails, ui, stitch, client
<1>2. \/ Len(queue) < QueueMax /\ queue' = Append(queue, w) /\ clean' = clean
      \/ queue' = queue /\ clean' = FALSE
  BY DEF BuildDone, BuildFails, Send
<1>3. PICK S, T : S = HeldWindows(now) /\ T = HeldWindows(now) \cup PushedColumns(now)
  OBVIOUS
<1>4. jobs \subseteq S /\ w \in S /\ w.kind = "window" /\ queue \in Seq(T) /\ w \in T
      /\ Len(queue) <= QueueMax /\ QueueMax \in Nat
  <2>1. jobs \subseteq S /\ queue \in Seq(T) /\ Len(queue) <= QueueMax
    BY <1>3 DEF HeatIInv, WireShape
  <2>2. w \in S /\ w \in T
    BY <1>3, <2>1
  <2>3. w.kind = "window"
    BY <1>3, <2>2, HeldParts
  <2>4. QED BY <2>1, <2>2, <2>3, HeatConstants
<1>5. clean' \in BOOLEAN
  BY <1>2 DEF HeatIInv, ViewShape
<1>6. ViewShape'
  BY <1>1, <1>5 DEF HeatIInv, ViewShape
<1>7. queue' \in Seq(T) /\ Len(queue') <= QueueMax
  <2>1. CASE Len(queue) < QueueMax /\ queue' = Append(queue, w)
    <3>1. queue' \in Seq(T) /\ Len(queue') = Len(queue) + 1 /\ Len(queue) \in Nat
      BY <1>4, <2>1
    <3>2. QED BY <1>4, <2>1, <3>1
  <2>2. CASE queue' = queue
    BY <1>4, <2>2
  <2>3. QED BY <1>2, <2>1, <2>2
<1>8. WireShape'
  BY <1>1, <1>3, <1>4, <1>7 DEF HeatIInv, WireShape
<1>9. clean' => clean /\ Unanswered' = Unanswered
  <2>1. SUFFICES ASSUME clean' PROVE clean /\ Unanswered' = Unanswered
    OBVIOUS
  <2>2. queue' = Append(queue, w) /\ clean
    BY <1>2, <2>1
  <2>3. ToSet(queue') = ToSet(queue) \cup {w}
    BY <1>4, <2>2, SetOfAppend
  <2>4. AskedIn(queue') = AskedIn(queue) \cup {w}
    BY <1>4, <2>3 DEF AskedIn
  <2>5. jobs' \cup AskedIn(queue') = jobs \cup AskedIn(queue)
    BY <1>1, <2>4
  <2>6. Unanswered' = jobs' \cup AskedIn(outgoing) \cup AskedIn(queue')
                        \cup (IF delivered = Absent THEN {} ELSE {delivered})
    BY <1>1 DEF Unanswered, AskedIn
  <2>7. QED BY <2>2, <2>5, <2>6, UnansweredParts
<1>10. FloorHolds' /\ cache' \in SoundCache(0, now')
  <2>1. now \in Nat /\ now <= now
    BY HeatConstants DEF HeatIInv, ViewShape
  <2>2. QED BY <1>1, <1>9, <2>1, SameFloor
<1>11. StopIsSent'
  BY <1>1 DEF HeatIInv, StopIsSent
<1>12. QED BY <1>6, <1>8, <1>10, <1>11 DEF HeatIInv

LEMMA PulseKeepsHeat ==
  ASSUME HeatIInv, LivePulse
  PROVE  HeatIInv'
<1>1. /\ now + Pulse <= MaxNow /\ now' = now + Pulse
      /\ UNCHANGED <<open, view, follow, debouncing, floor, weighed, hmBand, pending, cache, outgoing, delivered,
                     livecols, sub, jobs, requests>>
  BY DEF LivePulse, ui, stitch, client
<1>2. PICK z, u \in Nat : z = now /\ u = now' /\ z <= u
  BY <1>1, HeatConstants DEF HeatIInv, ViewShape
<1>3. PICK m : m = [kind |-> "column", ts |-> u, band |-> sub]
  OBVIOUS
<1>4. \/ queue' = queue /\ (clean' = clean \/ clean' = FALSE)
      \/ sub # Absent /\ Len(queue) < QueueMax /\ queue' = Append(queue, m) /\ clean' = clean
  BY <1>2, <1>3 DEF LivePulse, Send
<1>5. now' \in FirstNow..MaxNow
  BY <1>1, HeatConstants DEF HeatIInv, ViewShape
<1>6. clean' \in BOOLEAN
  BY <1>4 DEF HeatIInv, ViewShape
<1>7. ViewShape'
  BY <1>1, <1>5, <1>6 DEF HeatIInv, ViewShape
<1>8. sub # Absent => m \in PushedColumns(u) /\ m.kind # "window"
  <2>1. SUFFICES ASSUME sub # Absent PROVE m \in PushedColumns(u) /\ m.kind # "window"
    OBVIOUS
  <2>2. sub \in Bands
    BY <2>1 DEF HeatIInv, ViewShape
  <2>3. m \in [kind : {"column"}, ts : Nat, band : Bands] /\ m.ts <= u /\ m.kind = "column"
    BY <1>2, <1>3, <2>2
  <2>4. QED BY <2>3 DEF PushedColumns
<1>9. PICK S, T : S = HeldWindows(u) /\ T = HeldWindows(u) \cup PushedColumns(u)
  OBVIOUS
<1>10. /\ outgoing \in Seq(S \cup {Stop}) /\ jobs \subseteq S /\ queue \in Seq(T) /\ Len(queue) <= QueueMax
       /\ delivered \in S \cup {Absent} /\ livecols \in Seq(HeldColumns(u))
  <2>1. /\ HeldWindows(z) \subseteq S /\ PushedColumns(z) \subseteq PushedColumns(u)
        /\ HeldColumns(z) \subseteq HeldColumns(u)
    BY <1>2, <1>9, TimeWidens
  <2>2. /\ outgoing \in Seq(HeldWindows(z) \cup {Stop}) /\ jobs \subseteq HeldWindows(z)
        /\ queue \in Seq(HeldWindows(z) \cup PushedColumns(z)) /\ Len(queue) <= QueueMax
        /\ delivered \in HeldWindows(z) \cup {Absent} /\ livecols \in Seq(HeldColumns(z))
    BY <1>2 DEF HeatIInv, WireShape
  <2>3. outgoing \in Seq(S \cup {Stop})
    BY <2>1, <2>2
  <2>4. queue \in Seq(T)
    BY <1>9, <2>1, <2>2
  <2>5. livecols \in Seq(HeldColumns(u))
    BY <2>1, <2>2
  <2>6. QED BY <2>1, <2>2, <2>3, <2>4, <2>5
<1>11. queue' \in Seq(T) /\ Len(queue') <= QueueMax
  <2>1. CASE queue' = queue
    BY <1>10, <2>1
  <2>2. CASE sub # Absent /\ Len(queue) < QueueMax /\ queue' = Append(queue, m)
    <3>1. m \in T
      BY <1>8, <1>9, <2>2
    <3>2. queue' \in Seq(T) /\ Len(queue') = Len(queue) + 1 /\ Len(queue) \in Nat
      BY <1>10, <2>2, <3>1
    <3>3. QED BY <2>2, <3>2, HeatConstants
  <2>3. QED BY <1>4, <2>1, <2>2
<1>12. WireShape'
  BY <1>1, <1>2, <1>9, <1>10, <1>11 DEF WireShape
<1>13. clean' => clean /\ Unanswered' = Unanswered
  <2>1. AskedIn(queue') = AskedIn(queue)
    <3>1. CASE queue' = queue
      BY <3>1 DEF AskedIn
    <3>2. CASE sub # Absent /\ Len(queue) < QueueMax /\ queue' = Append(queue, m)
      <4>1. ToSet(queue') = ToSet(queue) \cup {m}
        BY <1>10, <3>2, SetOfAppend
      <4>2. QED BY <1>8, <3>2, <4>1 DEF AskedIn
    <3>3. QED BY <1>4, <3>1, <3>2
  <2>2. Unanswered' = jobs \cup AskedIn(outgoing) \cup AskedIn(queue')
                        \cup (IF delivered = Absent THEN {} ELSE {delivered})
    BY <1>1 DEF Unanswered, AskedIn
  <2>3. Unanswered' = Unanswered
    BY <2>1, <2>2, UnansweredParts
  <2>4. QED BY <1>4, <2>3
<1>14. FloorHolds' /\ cache' \in SoundCache(0, now')
  <2>1. u \in Nat /\ now <= u /\ now' = u
    BY <1>2
  <2>2. QED BY <1>1, <1>13, <2>1, SameFloor
<1>15. StopIsSent'
  BY <1>1 DEF HeatIInv, StopIsSent
<1>16. QED BY <1>7, <1>12, <1>14, <1>15 DEF HeatIInv

LEMMA DeliverKeepsHeat ==
  ASSUME HeatIInv, Deliver
  PROVE  HeatIInv'
<1>1. /\ queue # <<>> /\ queue' = Tail(queue)
      /\ IF Head(queue).kind = "window"
         THEN delivered' = Head(queue) /\ UNCHANGED livecols
         ELSE /\ livecols' = Append(livecols, [ts |-> Head(queue).ts, band |-> Head(queue).band])
              /\ UNCHANGED delivered
      /\ UNCHANGED <<now, open, view, follow, debouncing, floor, weighed, hmBand, pending, cache, outgoing,
                     sub, jobs, requests, faults, clean>>
  BY DEF Deliver, ui, stitch
<1>2. PICK h, S, P : h = Head(queue) /\ S = HeldWindows(now) /\ P = PushedColumns(now)
  OBVIOUS
<1>3. queue \in Seq(S \cup P) /\ Len(queue) <= QueueMax /\ delivered \in S \cup {Absent}
      /\ livecols \in Seq(HeldColumns(now)) /\ QueueMax \in Nat
  BY <1>2, HeatConstants DEF HeatIInv, WireShape
<1>4. ToSet(queue) = {h} \cup ToSet(queue') /\ h \in S \cup P /\ queue' \in Seq(S \cup P)
  BY <1>1, <1>2, <1>3, SetOfTail
<1>5. Len(queue') <= QueueMax
  <2>1. Len(queue') = Len(queue) - 1 /\ Len(queue) \in Nat
    BY <1>1, <1>3
  <2>2. QED BY <1>3, <2>1
<1>6. h \in S => h.kind = "window" /\ h # Absent
  BY <1>2, HeldParts, AbsentIsNoWindow
<1>7. h \in P => h.kind = "column" /\ h.kind # "window"
  BY <1>2 DEF PushedColumns
<1>8. h \in P => [ts |-> h.ts, band |-> h.band] \in HeldColumns(now)
  <2>1. SUFFICES ASSUME h \in P PROVE [ts |-> h.ts, band |-> h.band] \in HeldColumns(now)
    OBVIOUS
  <2>2. h.ts \in Nat /\ h.band \in Bands /\ h.ts <= now
    BY <1>2, <2>1 DEF PushedColumns
  <2>3. QED BY <2>2 DEF HeldColumns, HeatCol
<1>9. \/ h \in S /\ h.kind = "window" /\ h # Absent /\ delivered' = h /\ livecols' = livecols
      \/ h \in P /\ h.kind # "window" /\ delivered' = delivered
         /\ livecols' = Append(livecols, [ts |-> h.ts, band |-> h.band])
  BY <1>1, <1>2, <1>4, <1>6, <1>7
<1>10. ViewShape'
  BY <1>1 DEF HeatIInv, ViewShape
<1>11. livecols' \in Seq(HeldColumns(now)) /\ delivered' \in S \cup {Absent}
  <2>1. CASE h \in S /\ delivered' = h /\ livecols' = livecols
    BY <1>3, <2>1
  <2>2. CASE h \in P /\ delivered' = delivered /\ livecols' = Append(livecols, [ts |-> h.ts, band |-> h.band])
    <3>1. PICK c \in HeldColumns(now) : c = [ts |-> h.ts, band |-> h.band]
      BY <1>8, <2>2
    <3>2. livecols' = Append(livecols, c)
      BY <2>2, <3>1
    <3>3. QED BY <1>3, <2>2, <3>2
  <2>3. QED BY <1>9, <2>1, <2>2
<1>12. WireShape'
  BY <1>1, <1>2, <1>4, <1>5, <1>11 DEF HeatIInv, WireShape
<1>13. Unanswered' \subseteq Unanswered /\ (Unanswered # {} => Unanswered' # {})
  <2>1. Unanswered' = jobs \cup AskedIn(outgoing) \cup AskedIn(queue')
                        \cup (IF delivered' = Absent THEN {} ELSE {delivered'})
    BY <1>1 DEF Unanswered, AskedIn
  <2>2. CASE h \in S /\ h.kind = "window" /\ h # Absent /\ delivered' = h
    <3>1. AskedIn(queue) = {h} \cup AskedIn(queue')
      BY <1>4, <2>2 DEF AskedIn
    <3>2. QED BY <2>1, <2>2, <3>1, UnansweredParts
  <2>3. CASE h.kind # "window" /\ delivered' = delivered
    <3>1. AskedIn(queue) = AskedIn(queue')
      BY <1>4, <2>3 DEF AskedIn
    <3>2. QED BY <2>1, <2>3, <3>1, UnansweredParts
  <2>4. QED BY <1>9, <2>2, <2>3
<1>14. FloorHolds' /\ cache' \in SoundCache(0, now')
  <2>1. now \in Nat /\ now <= now
    BY HeatConstants DEF HeatIInv, ViewShape
  <2>2. QED BY <1>1, <1>13, <2>1, SameFloor
<1>15. StopIsSent'
  BY <1>1 DEF HeatIInv, StopIsSent
<1>16. QED BY <1>10, <1>12, <1>14, <1>15 DEF HeatIInv

LEMMA ReconnectKeepsHeat ==
  ASSUME HeatIInv, Reconnect
  PROVE  HeatIInv'
<1>1. /\ clean' = FALSE /\ sub' = Absent /\ jobs' = {} /\ queue' = <<>>
      /\ UNCHANGED <<now, open, view, follow, debouncing, floor, weighed, hmBand, pending, cache, delivered, livecols,
                     requests>>
  BY DEF Reconnect, ui, stitch
<1>2. PICK q, S : q = outgoing /\ S = HeldWindows(now) \cup {Stop}
  OBVIOUS
<1>3. q \in Seq(S) /\ Len(q) \in Nat
  BY <1>2 DEF HeatIInv, WireShape
<1>4. PICK k \in 0..Len(q) : outgoing' = SubSeq(q, k + 1, Len(q))
  BY <1>2 DEF Reconnect
<1>5. PICK r : r = SubSeq(q, k + 1, Len(q))
  OBVIOUS
<1>6. r \in Seq(S) /\ Len(r) = Len(q) - k /\ \A i \in 1..(Len(q) - k) : r[i] = q[k + i]
  <2>1. k \in Nat /\ k <= Len(q)
    BY <1>3
  <2>2. Len(r) = Len(q) - k
    BY <1>3, <1>5, <2>1
  <2>3. \A i \in 1..(Len(q) - k) : r[i] = q[k + i]
    BY <1>3, <1>5, <2>1
  <2>4. r \in Seq(S)
    BY <1>3, <1>5, <2>1
  <2>5. QED BY <2>2, <2>3, <2>4
<1>7. ViewShape'
  BY <1>1 DEF HeatIInv, ViewShape
<1>8. WireShape'
  <2>1. outgoing' \in Seq(S)
    BY <1>4, <1>5, <1>6
  <2>2. Len(<<>>) <= QueueMax
    BY HeatConstants
  <2>3. QED BY <1>1, <1>2, <2>1, <2>2, HeatConstants DEF HeatIInv, WireShape
<1>9. FloorHolds' /\ cache' \in SoundCache(0, now')
  <2>1. now \in Nat /\ now <= now
    BY HeatConstants DEF HeatIInv, ViewShape
  <2>2. QED BY <1>1, <2>1, SameFloor
<1>10. StopIsSent'
  <2>1. SUFFICES ASSUME ~open, outgoing' # <<>> PROVE outgoing'[Len(outgoing')].kind = "stop"
    BY <1>1 DEF StopIsSent
  <2>2. r # <<>> /\ outgoing' = r
    BY <1>4, <1>5, <2>1
  <2>3. Len(q) - k \in 1..(Len(q) - k) /\ k + (Len(q) - k) = Len(q) /\ q # <<>>
    BY <1>3, <1>6, <2>2
  <2>4. q[Len(q)].kind = "stop"
    BY <1>2, <2>1, <2>3 DEF HeatIInv, StopIsSent
  <2>5. r[Len(r)] = q[Len(q)]
    BY <1>6, <2>3
  <2>6. QED BY <2>2, <2>4, <2>5
<1>11. QED BY <1>7, <1>8, <1>9, <1>10 DEF HeatIInv

LEMMA NextHeatIInv == HeatIInv /\ [HeatNext]_heatVars => HeatIInv'
<1> SUFFICES ASSUME HeatIInv, [HeatNext]_heatVars PROVE HeatIInv'
  OBVIOUS
<1>1. ASSUME NEW start \in Starts, NEW priced \in BOOLEAN, Enter(start, priced) PROVE HeatIInv'
  BY <1>1, EnterIsSound
<1>2. CASE Exit
  BY <1>2, ExitIsSound
<1>3. CASE Refollow \/ \E v \in Spans, b \in Bands : Pan(v, b)
  BY <1>3, GestureIsSound
<1>4. CASE RequestVisible
  BY <1>4, RequestIsSound
<1>5. CASE Frame
  BY <1>5, FrameKeepsHeat
<1>6. CASE HandleControl
  BY <1>6, ControlKeepsHeat
<1>7. ASSUME NEW w \in jobs, BuildDone(w) \/ BuildFails(w) PROVE HeatIInv'
  BY <1>7, BuildKeepsHeat
<1>8. CASE LivePulse
  BY <1>8, PulseKeepsHeat
<1>9. CASE Deliver
  BY <1>9, DeliverKeepsHeat
<1>10. CASE Reconnect
  BY <1>10, ReconnectKeepsHeat
<1>11. CASE UNCHANGED heatVars
  <2>1. UNCHANGED <<now, open, view, follow, debouncing, floor, weighed, hmBand, pending, cache, outgoing, delivered,
                    livecols, sub, jobs, queue, requests, faults, clean>>
    BY <1>11 DEF heatVars, ui, stitch, client, daemon
  <2>2. Unanswered' = Unanswered
    BY <2>1 DEF Unanswered
  <2>3. ViewShape' /\ WireShape'
    BY <2>1 DEF HeatIInv, ViewShape, WireShape
  <2>4. FloorHolds' /\ StopIsSent' /\ cache' \in SoundCache(0, now')
    BY <2>1, <2>2 DEF HeatIInv, FloorHolds, StopIsSent
  <2>5. QED BY <2>1, <2>3, <2>4 DEF HeatIInv
<1>12. QED BY <1>1, <1>2, <1>3, <1>4, <1>5, <1>6, <1>7, <1>8, <1>9, <1>10, <1>11 DEF HeatNext

LEMMA SoundHeat == HeatIInv => AxisAndFeedAreSound
<1> SUFFICES ASSUME HeatIInv PROVE AxisAndFeedAreSound
  OBVIOUS
<1>1. now \in FirstNow..MaxNow /\ now \in Nat /\ MaxNow \in Nat /\ now <= MaxNow
  BY HeatConstants DEF HeatIInv, ViewShape
<1>2. PICK s : s = cache.cols
  OBVIOUS
<1>3. s \in SoundCols(0, now)
  BY <1>2 DEF HeatIInv, SoundCache
<1>4. s \in Seq(HeatCol) /\ \A i \in DOMAIN s : s[i].ts <= now
  BY <1>3 DEF SoundCols
<1>5. \A i \in DOMAIN s : s[i] \in HeatCol
  BY <1>4
<1>6. \A col \in ToSet(s) : col.ts \in Labels /\ col.band \in Bands
  <2>1. SUFFICES ASSUME NEW i \in DOMAIN s PROVE s[i].ts \in Labels /\ s[i].band \in Bands
    BY DEF ToSet
  <2>2. s[i].ts \in Nat /\ s[i].band \in Bands /\ s[i].ts <= now
    BY <1>4, <1>5 DEF HeatCol
  <2>3. QED BY <1>1, <2>2 DEF Labels
<1>7. HeatTypeOK
  <2>1. cache.band \in Bands \cup {Absent}
    <3>1. cache \in [step : Nat, band : Bands \cup {Absent}, cols : Seq(HeatCol)]
      BY DEF HeatIInv, SoundCache
    <3>2. QED BY <3>1
  <2>2. jobs \subseteq Replies
    <3>1. SUFFICES ASSUME NEW w \in HeldWindows(now) PROVE w \in Replies
      BY DEF HeatIInv, WireShape
    <3>2. /\ w.kind = "window" /\ w.t0 \in Nat /\ w.t1 \in Nat /\ w.n \in Nat \ {0} /\ w.band \in Bands
          /\ w.id \in 0..MaxRequests /\ w.t0 <= w.t1 /\ w.t1 <= now /\ w \in HeatWindow
      BY HeldParts
    <3>3. w.t0 \in Labels /\ w.t1 \in Labels
      BY <1>1, <3>2 DEF Labels
    <3>4. QED BY <3>2, <3>3 DEF Replies, HeatWindow
  <2>3. \A w \in Unanswered : w.t0 <= w.t1
    <3>1. Unanswered \subseteq HeldWindows(now)
      BY UnansweredAreHeld DEF HeatIInv
    <3>2. QED BY <3>1, HeldParts
  <2>4. Len(queue) <= QueueMax
    BY DEF HeatIInv, WireShape
  <2>5. {open, follow, debouncing, clean, weighed} \subseteq BOOLEAN
    BY DEF HeatIInv, ViewShape
  <2>6. view.band \in Bands /\ {sub, hmBand} \subseteq Bands \cup {Absent} /\ pending \in {Absent, "reset", "prepend"}
    BY DEF HeatIInv, ViewShape
  <2>7. QED BY <1>1, <1>2, <1>6, <2>1, <2>2, <2>3, <2>4, <2>5, <2>6 DEF HeatTypeOK
<1>8. AxisOrdered
  BY <1>2, <1>3 DEF SoundCols, AxisOrdered
<1>9. FloorRespected
  <2>1. SUFFICES ASSUME clean, pending = Absent PROVE \A col \in ToSet(cache.cols) : col.ts >= floor
    BY DEF FloorRespected
  <2>2. cache.cols \in SoundCols(floor, now)
    BY <2>1, HeatConstants DEF HeatIInv, FloorHolds
  <2>3. \A i \in DOMAIN s : s[i].ts >= floor
    BY <1>2, <2>2 DEF SoundCols
  <2>4. QED BY <1>2, <2>3 DEF ToSet
<1>10. NoPushAfterExit
  BY DEF HeatIInv, StopIsSent, NoPushAfterExit
<1>11. QED BY <1>7, <1>8, <1>9, <1>10 DEF AxisAndFeedAreSound

(* Whatever order windows, live columns, pans, failed builds and reconnects *)
(* come in, the cache's time axis never runs backwards, nothing from before *)
(* the Scan Start Time is loaded unless replies were lost or overtaken, and *)
(* a closed heat-map is pushed no more columns (HeatmapCache and the        *)
(* _hm_* handlers of terminal.py, PipeServer's heat-map lines).             *)
THEOREM AxisHolds == HeatSpec => []AxisAndFeedAreSound
<1>1. HeatInit => HeatIInv
  BY InitHeatIInv
<1>2. HeatIInv /\ [HeatNext]_heatVars => HeatIInv'
  BY NextHeatIInv
<1>3. HeatIInv => AxisAndFeedAreSound
  BY SoundHeat
<1>4. QED BY <1>1, <1>2, <1>3, PTL DEF HeatSpec

(* What is loaded, and from where on: the columns of a cache follow each    *)
(* other closely, but for what the end of the cache cut off.               *)
Slack(st) == 3 * st + 1
CutAt(s)  == s[Len(s)].ts - MaxSpan

InSteps(s, st) == \A i \in 1..(Len(s) - 1) : s[i + 1].ts <= Larger(s[i].ts, CutAt(s)) + Slack(st)
StartsBy(s, st, e) == s[1].ts <= Larger(e, CutAt(s) + Slack(st))

JoinedCols(t, st, e) ==
    {s \in SoundCols(0, t) : s # <<>> /\ InSteps(s, st) /\ StartsBy(s, st, e)}
JoinedCache(t, st, b, e) ==
    {c \in SoundCache(0, t) : c.step = st /\ c.band = b /\ c.cols \in JoinedCols(t, st, e)}

(* Where the columns of a window begin.                                    *)
FirstOf(w) == w.t0 + (w.t1 - w.t0) \div w.n

LEMMA LargerIs ==
  ASSUME NEW a \in Int, NEW b \in Int
  PROVE  Larger(a, b) \in {a, b} \cap Int /\ a <= Larger(a, b) /\ b <= Larger(a, b)
BY DEF Larger

(* A column takes at most two of the pixels it was asked for.              *)
LEMMA ColumnStep ==
  ASSUME NEW d \in Nat, NEW a \in Nat, d <= a, NEW s \in Nat \ {0}, NEW m \in Nat \ {0},
         NEW n, n = Larger(m, a \div s)
  PROVE  n \in Nat \ {0} /\ d \div n \in Nat /\ d \div n <= 2 * s
<1>1. PICK q \in Nat : q = a \div s /\ s * q <= a /\ a < s * q + s
  BY DivParts
<1>2. n \in Nat \ {0} /\ q <= n
  BY <1>1 DEF Larger
<1>3. PICK r \in Nat : r = d \div n /\ n * r <= d /\ d < n * r + n
  BY <1>2, DivParts
<1>4. r <= 2 * s
  <2>1. SUFFICES ASSUME 2 * s + 1 <= r PROVE FALSE
    BY <1>3
  <2>2. n * (2 * s + 1) <= n * r
    BY <1>2, <2>1
  <2>3. n * (2 * s + 1) = n * s + n * s + n
    BY <1>2
  <2>4. s * q <= n * s
    BY <1>2
  <2>5. s <= n * s /\ n * s \in Nat
    BY <1>2
  <2>6. d < n * s + s
    BY <1>1, <2>4, <2>5
  <2>7. QED BY <1>2, <1>3, <2>2, <2>3, <2>5, <2>6
<1>5. QED BY <1>2, <1>3, <1>4

(* From one part of a span to the next.                                    *)
LEMMA NextPart ==
  ASSUME NEW d \in Nat, NEW n \in Nat \ {0}, NEW i \in Nat
  PROVE  /\ (i * d) \div n \in Nat /\ ((i + 1) * d) \div n \in Nat /\ d \div n \in Nat
         /\ ((i + 1) * d) \div n <= (i * d) \div n + d \div n + 1
<1>1. PICK p \in Nat : p = i * d
  OBVIOUS
<1>2. (i + 1) * d = p + d /\ p + d \in Nat
  BY <1>1
<1>3. PICK x \in Nat : x = p \div n /\ n * x <= p /\ p < n * x + n
  BY DivParts
<1>4. PICK y \in Nat : y = d \div n /\ n * y <= d /\ d < n * y + n
  BY DivParts
<1>5. PICK z \in Nat : z = (p + d) \div n /\ n * z <= p + d /\ p + d < n * z + n
  BY <1>2, DivParts
<1>6. z <= x + y + 1
  <2>1. SUFFICES ASSUME x + y + 2 <= z PROVE FALSE
    BY <1>3, <1>4, <1>5
  <2>2. n * (x + y + 2) <= n * z
    BY <2>1
  <2>3. n * (x + y + 2) = n * x + n * y + n + n
    OBVIOUS
  <2>4. QED BY <1>2, <1>3, <1>4, <1>5, <2>2, <2>3
<1>7. QED BY <1>1, <1>2, <1>3, <1>4, <1>5, <1>6

(* The columns of a window: where they begin, end, and how they follow.    *)
LEMMA WindowPaces ==
  ASSUME NEW t \in Nat, NEW w \in SoundWindow(0, t), NEW s, s = WindowCols(w)
  PROVE  /\ s \in SoundCols(0, t) /\ s \in Seq(HeatCol) /\ Len(s) = w.n /\ w.n \in Nat \ {0}
         /\ \A i \in 1..w.n : s[i].ts \in Nat
         /\ (w.t1 - w.t0) \div w.n \in Nat /\ FirstOf(w) \in Nat
         /\ s[1].ts = FirstOf(w) /\ s[w.n].ts = w.t1
         /\ \A i \in 1..(w.n - 1) : s[i + 1].ts <= s[i].ts + (w.t1 - w.t0) \div w.n + 1
<1>1. /\ w.t0 \in Nat /\ w.t1 \in Nat /\ w.n \in Nat \ {0} /\ w.band \in Bands
      /\ w.t0 <= w.t1 /\ w.t1 <= t
  BY DEF SoundWindow, HeatWindow
<1>2. PICK d \in Nat, n \in Nat \ {0}, b \in Bands, z \in Nat : d = w.t1 - w.t0 /\ n = w.n /\ b = w.band /\ z = w.t0
  BY <1>1
<1>3. s = [i \in 1..n |-> [ts |-> z + (i * d) \div n, band |-> b]]
  BY <1>2 DEF WindowCols
<1>4. \A i \in 1..n : s[i].ts = z + (i * d) \div n
  BY <1>3
<1>5. s \in SoundCols(0, t) /\ s \in Seq(HeatCol) /\ Len(s) = n
  BY <1>2, WindowColsAreSound DEF SoundCols
<1>6. \A i \in 1..n : s[i].ts \in Nat
  <2>1. \A i \in 1..n : s[i] \in HeatCol
    BY <1>5
  <2>2. QED BY <2>1 DEF HeatCol
<1>7. d \div n \in Nat
  BY DivParts
<1>8. FirstOf(w) = z + d \div n
  BY <1>2 DEF FirstOf
<1>9. s[1].ts = z + d \div n
  <2>1. 1 \in 1..n /\ 1 * d = d
    OBVIOUS
  <2>2. QED BY <1>4, <2>1
<1>10. s[n].ts = w.t1
  <2>1. (n * d) \div n = d /\ n \in 1..n
    BY PartOfSpan
  <2>2. QED BY <1>1, <1>2, <1>4, <2>1
<1>11. \A i \in 1..(n - 1) : s[i + 1].ts <= s[i].ts + d \div n + 1
  <2>1. SUFFICES ASSUME NEW i \in 1..(n - 1) PROVE s[i + 1].ts <= s[i].ts + d \div n + 1
    OBVIOUS
  <2>2. i \in 1..n /\ i + 1 \in 1..n /\ i \in Nat
    OBVIOUS
  <2>3. s[i].ts = z + (i * d) \div n /\ s[i + 1].ts = z + ((i + 1) * d) \div n
    BY <1>4, <2>2
  <2>4. PICK x, y \in Nat : x = (i * d) \div n /\ y = ((i + 1) * d) \div n /\ y <= x + d \div n + 1
    BY <2>2, NextPart
  <2>5. QED BY <1>7, <2>3, <2>4
<1>12. QED BY <1>2, <1>5, <1>6, <1>7, <1>8, <1>9, <1>10, <1>11

LEMMA SlackIs ==
  ASSUME NEW st \in Nat
  PROVE  Slack(st) \in Nat /\ Slack(st) = 3 * st + 1 /\ st + 1 <= Slack(st) /\ 1 <= Slack(st)
BY DEF Slack

LEMMA LargerGrows ==
  ASSUME NEW a \in Int, NEW b \in Int, NEW c \in Int, b <= c
  PROVE  Larger(a, b) <= Larger(a, c)
BY DEF Larger

LEMMA ColumnTimes ==
  ASSUME NEW t, NEW s \in SoundCols(0, t), s # <<>>
  PROVE  /\ s \in Seq(HeatCol) /\ Len(s) \in Nat \ {0} /\ DOMAIN s = 1..Len(s)
         /\ \A i \in 1..Len(s) : s[i] \in HeatCol /\ s[i].ts \in Nat /\ s[i].ts <= t
         /\ CutAt(s) \in Int /\ CutAt(s) = s[Len(s)].ts - MaxSpan /\ MaxSpan \in Nat
<1>1. s \in Seq(HeatCol) /\ Len(s) \in Nat \ {0} /\ DOMAIN s = 1..Len(s)
  BY DEF SoundCols
<1>2. \A i \in 1..Len(s) : s[i] \in HeatCol
  BY <1>1
<1>3. \A i \in 1..Len(s) : s[i].ts \in Nat /\ s[i].ts <= t
  BY <1>1, <1>2 DEF HeatCol, SoundCols
<1>4. Len(s) \in 1..Len(s) /\ MaxSpan \in Nat
  BY <1>1, HeatConstants
<1>5. QED BY <1>1, <1>2, <1>3, <1>4 DEF CutAt

(* What is cut off at the end of the cache leaves the rest joined.         *)
LEMMA TrimJoins ==
  ASSUME NEW t, NEW st \in Nat, NEW e \in Int, NEW s \in JoinedCols(t, st, e)
  PROVE  Trim(s) \in JoinedCols(t, st, e)
<1>1. /\ s \in SoundCols(0, t) /\ s # <<>> /\ InSteps(s, st) /\ StartsBy(s, st, e)
      /\ s \in Seq(HeatCol) /\ Len(s) \in Nat \ {0} /\ DOMAIN s = 1..Len(s)
      /\ \A i \in 1..Len(s) : s[i].ts \in Nat
  BY ColumnTimes DEF JoinedCols
<1>2. PICK n, x, g : n = Len(s) /\ x = CutAt(s) /\ g = Slack(st) /\ n \in Nat \ {0} /\ x \in Int /\ g \in Nat
                     /\ x = s[n].ts - MaxSpan /\ MaxSpan \in Nat
  <2>1. CutAt(s) \in Int /\ CutAt(s) = s[Len(s)].ts - MaxSpan /\ MaxSpan \in Nat
    BY <1>1, ColumnTimes
  <2>2. Slack(st) \in Nat
    BY SlackIs
  <2>3. QED BY <1>1, <2>1, <2>2
<1>3. PICK E : E = {i \in DOMAIN s : i = n \/ s[i].ts >= x}
  OBVIOUS
<1>4. E \subseteq 1..n /\ n \in E
  BY <1>1, <1>2, <1>3
<1>5. Min(E) \in E /\ \A y \in E : Min(E) <= y
  <2>1. E \subseteq Nat /\ E # {}
    BY <1>4
  <2>2. QED BY <2>1, LeastExists
<1>6. PICK k \in 1..n : k = Min(E)
  BY <1>4, <1>5
<1>7. Trim(s) = SubSeq(s, k, n)
  BY <1>2, <1>3, <1>6 DEF Trim
<1>8. PICK r : r = SubSeq(s, k, n)
  OBVIOUS
<1>9. r \in SoundCols(0, t) /\ r # <<>>
  BY <1>1, <1>7, <1>8, TrimIsSound
<1>10. Len(r) = n - k + 1 /\ \A i \in 1..(n - k + 1) : r[i] = s[k + i - 1]
  <2>1. s \in Seq(HeatCol) /\ n = Len(s) /\ n \in Nat /\ k \in Nat \ {0} /\ k <= n
    BY <1>1, <1>2
  <2>2. Len(r) = n - k + 1
    BY <1>8, <2>1
  <2>3. \A i \in 1..(n - k + 1) : r[i] = s[k + i - 1]
    BY <1>8, <2>1
  <2>4. QED BY <2>2, <2>3
<1>11. r[Len(r)] = s[n] /\ CutAt(r) = x
  <2>1. n - k + 1 \in 1..(n - k + 1) /\ k + (n - k + 1) - 1 = n
    BY <1>2
  <2>2. r[Len(r)] = s[n]
    BY <1>10, <2>1
  <2>3. QED BY <1>2, <2>2 DEF CutAt
<1>12. \A i \in 1..(n - 1) : s[i + 1].ts <= Larger(s[i].ts, x) + g
  BY <1>1, <1>2 DEF InSteps
<1>13. InSteps(r, st)
  <2>1. SUFFICES ASSUME NEW i \in 1..(Len(r) - 1) PROVE r[i + 1].ts <= Larger(r[i].ts, x) + g
    BY <1>2, <1>11 DEF InSteps
  <2>2. PICK j \in 1..(n - 1) : j = k + i - 1 /\ i \in 1..(n - k + 1) /\ i + 1 \in 1..(n - k + 1)
                                /\ k + (i + 1) - 1 = j + 1
    <3>1. i \in 1..(n - k)
      BY <1>2, <1>10
    <3>2. k + i - 1 \in 1..(n - 1)
      BY <1>2, <3>1
    <3>3. i \in 1..(n - k + 1) /\ i + 1 \in 1..(n - k + 1) /\ k + (i + 1) - 1 = (k + i - 1) + 1
      BY <1>2, <3>1
    <3>4. QED BY <3>2, <3>3
  <2>3. r[i] = s[j] /\ r[i + 1] = s[j + 1]
    BY <1>10, <2>2
  <2>4. QED BY <1>12, <2>3
<1>14. StartsBy(r, st, e)
  <2>1. r[1] = s[k]
    BY <1>2, <1>10
  <2>2. SUFFICES s[k].ts <= Larger(e, x + g)
    BY <1>2, <1>11, <2>1 DEF StartsBy
  <2>3. CASE k = 1
    BY <1>1, <1>2, <2>3 DEF StartsBy
  <2>4. CASE k # 1
    <3>1. PICK j \in 1..(n - 1) : j = k - 1 /\ j + 1 = k /\ j \in 1..n
      BY <1>2, <2>4
    <3>2. j \notin E
      BY <1>5, <1>6, <3>1
    <3>3. s[j].ts < x
      BY <1>1, <1>2, <1>3, <3>1, <3>2
    <3>4. s[k].ts <= Larger(s[j].ts, x) + g
      BY <1>12, <3>1
    <3>5. Larger(s[j].ts, x) = x
      BY <1>1, <1>2, <3>1, <3>3 DEF Larger
    <3>6. PICK a \in Int : a = x + g
      BY <1>2
    <3>7. a <= Larger(e, a) /\ Larger(e, a) \in Int
      BY <3>6, LargerIs
    <3>8. s[k].ts <= a /\ s[k].ts \in Int
      BY <1>1, <1>2, <3>1, <3>4, <3>5, <3>6
    <3>9. s[k].ts <= Larger(e, a)
      BY <3>6, <3>7, <3>8
    <3>10. QED BY <3>6, <3>9
  <2>5. QED BY <2>3, <2>4
<1>15. QED BY <1>7, <1>8, <1>9, <1>13, <1>14 DEF JoinedCols

(* A later column, a step or less after the last.                          *)
LEMMA LabelJoins ==
  ASSUME NEW t \in Nat, NEW st \in Nat, NEW e \in Int, NEW s \in JoinedCols(t, st, e),
         NEW y \in HeatCol, s[Len(s)].ts <= y.ts, y.ts <= s[Len(s)].ts + st, y.ts <= t
  PROVE  Append(s, y) \in JoinedCols(t, st, e)
<1>1. /\ s \in SoundCols(0, t) /\ s # <<>> /\ InSteps(s, st) /\ StartsBy(s, st, e)
      /\ s \in Seq(HeatCol) /\ Len(s) \in Nat \ {0} /\ DOMAIN s = 1..Len(s)
      /\ \A i \in 1..Len(s) : s[i].ts \in Nat
  BY ColumnTimes DEF JoinedCols
<1>2. PICK n, x, g : n = Len(s) /\ x = CutAt(s) /\ g = Slack(st) /\ n \in Nat \ {0} /\ x \in Int /\ g \in Nat
                     /\ x = s[n].ts - MaxSpan /\ MaxSpan \in Nat /\ st + 1 <= g
  <2>1. CutAt(s) \in Int /\ CutAt(s) = s[Len(s)].ts - MaxSpan /\ MaxSpan \in Nat
    BY <1>1, ColumnTimes
  <2>2. Slack(st) \in Nat /\ st + 1 <= Slack(st)
    BY SlackIs
  <2>3. QED BY <1>1, <2>1, <2>2
<1>3. PICK r : r = Append(s, y)
  OBVIOUS
<1>4. /\ Len(r) = n + 1 /\ r[n + 1] = y /\ r # <<>>
      /\ \A i \in 1..n : r[i] = s[i]
  <2>1. s \in Seq(HeatCol) /\ n = Len(s) /\ n \in Nat
    BY <1>1, <1>2
  <2>2. Len(r) = n + 1 /\ r[n + 1] = y
    BY <1>3, <2>1
  <2>3. \A i \in 1..n : r[i] = s[i]
    BY <1>3, <2>1
  <2>4. r # <<>>
    BY <1>3, <2>1
  <2>5. QED BY <2>2, <2>3, <2>4
<1>5. r \in SoundCols(0, t)
  <2>1. 0 \in Nat
    OBVIOUS
  <2>2. QED BY <1>1, <1>3, <2>1, LabelIsSound
<1>6. y.ts \in Nat
  BY DEF HeatCol
<1>7. PICK z \in Int : z = CutAt(r) /\ x <= z
  <2>1. CutAt(r) = y.ts - MaxSpan
    BY <1>4 DEF CutAt
  <2>2. s[n].ts \in Nat /\ s[n].ts <= y.ts /\ x = s[n].ts - MaxSpan /\ MaxSpan \in Nat
    BY <1>1, <1>2
  <2>3. PICK a, c, m : a = s[n].ts /\ c = y.ts /\ m = MaxSpan
    OBVIOUS
  <2>4. a \in Nat /\ c \in Nat /\ m \in Nat /\ a <= c /\ x = a - m
    BY <1>6, <2>2, <2>3
  <2>5. c - m \in Int /\ x <= c - m
    BY <2>4
  <2>6. CutAt(r) = c - m
    BY <2>1, <2>3
  <2>7. QED BY <2>5, <2>6
<1>8. InSteps(r, st)
  <2>1. SUFFICES ASSUME NEW i \in 1..n PROVE r[i + 1].ts <= Larger(r[i].ts, z) + g
    BY <1>2, <1>4, <1>7 DEF InSteps
  <2>2. r[i] = s[i] /\ s[i].ts \in Nat
    BY <1>1, <1>2, <1>4
  <2>3. CASE i = n
    <3>1. r[i + 1] = y
      BY <1>4, <2>3
    <3>2. y.ts <= s[i].ts + st
      BY <1>2, <2>3
    <3>3. PICK a, u, v \in Int : a = s[i].ts /\ u = Larger(a, z) /\ v = y.ts /\ a <= u
      <4>1. s[i].ts \in Int /\ z \in Int
        BY <1>7, <2>2
      <4>2. Larger(s[i].ts, z) \in Int /\ s[i].ts <= Larger(s[i].ts, z)
        BY <4>1, LargerIs
      <4>3. QED BY <1>6, <4>1, <4>2
    <3>4. v <= a + st /\ st + 1 <= g /\ g \in Nat /\ a <= u
      BY <1>2, <3>2, <3>3
    <3>5. v <= u + g
      BY <3>4
    <3>6. QED BY <3>1, <3>3, <3>5, <2>2
  <2>4. CASE i # n
    <3>1. i \in 1..(n - 1) /\ i + 1 \in 1..n
      BY <1>2, <2>4
    <3>2. s[i + 1].ts <= Larger(s[i].ts, x) + g
      BY <1>1, <1>2, <3>1 DEF InSteps
    <3>3. r[i + 1] = s[i + 1] /\ s[i + 1].ts \in Nat
      BY <1>1, <1>2, <1>4, <3>1
    <3>4. Larger(s[i].ts, x) <= Larger(s[i].ts, z) /\ Larger(s[i].ts, x) \in Int /\ Larger(s[i].ts, z) \in Int
      <4>1. s[i].ts \in Int /\ x \in Int /\ z \in Int /\ x <= z
        BY <1>2, <1>7, <2>2
      <4>2. QED BY <4>1, LargerIs, LargerGrows
    <3>5. PICK u, v \in Int : u = Larger(s[i].ts, x) /\ v = Larger(s[i].ts, z)
      BY <3>4
    <3>6. PICK k \in Nat : k = s[i + 1].ts /\ k <= u + g /\ u <= v
      BY <3>2, <3>3, <3>4, <3>5
    <3>7. g \in Nat
      BY <1>2
    <3>8. k <= v + g
      BY <3>6, <3>7
    <3>9. QED BY <2>2, <3>3, <3>5, <3>6, <3>8
  <2>5. QED BY <2>3, <2>4
<1>9. StartsBy(r, st, e)
  <2>1. r[1] = s[1] /\ s[1].ts \in Nat
    BY <1>1, <1>2, <1>4
  <2>2. s[1].ts <= Larger(e, x + g)
    BY <1>1, <1>2 DEF StartsBy
  <2>3. Larger(e, x + g) <= Larger(e, z + g) /\ Larger(e, x + g) \in Int /\ Larger(e, z + g) \in Int
    <3>1. x \in Int /\ z \in Int /\ g \in Nat /\ x <= z /\ e \in Int
      BY <1>2, <1>7
    <3>2. PICK a, c : a = x + g /\ c = z + g
      OBVIOUS
    <3>3. a \in Int /\ c \in Int /\ a <= c
      BY <3>1, <3>2
    <3>4. Larger(e, a) <= Larger(e, c) /\ Larger(e, a) \in Int /\ Larger(e, c) \in Int
      BY <3>1, <3>3, LargerIs, LargerGrows
    <3>5. QED BY <3>2, <3>4
  <2>4. s[1].ts <= Larger(e, z + g)
    BY <2>1, <2>2, <2>3
  <2>5. QED BY <1>2, <1>7, <2>1, <2>4 DEF StartsBy
<1>10. QED BY <1>3, <1>4, <1>5, <1>8, <1>9 DEF JoinedCols

LEMMA AppendJoins ==
  ASSUME NEW t \in Nat, NEW st \in Nat, NEW b, NEW e \in Int, NEW c \in JoinedCache(t, st, b, e),
         NEW x \in HeatCol, x.ts <= t
  PROVE  AppendLive(c, x) \in JoinedCache(t, st, b, e)
<1>1. PICK s : s = c.cols
  OBVIOUS
<1>2. /\ c \in SoundCache(0, t) /\ c.step = st /\ c.band = b /\ s \in JoinedCols(t, st, e)
      /\ c = [step |-> st, band |-> b, cols |-> s]
  BY <1>1 DEF JoinedCache, SoundCache
<1>3. AppendLive(c, x) \in SoundCache(0, t)
  <2>1. 0 \in Nat
    OBVIOUS
  <2>2. QED BY <1>2, <2>1, AppendIsSound
<1>4. /\ s \in SoundCols(0, t) /\ s # <<>> /\ s \in Seq(HeatCol) /\ Len(s) \in Nat \ {0} /\ DOMAIN s = 1..Len(s)
      /\ \A i \in 1..Len(s) : s[i] \in HeatCol /\ s[i].ts \in Nat /\ s[i].ts <= t
  BY <1>2, ColumnTimes DEF JoinedCols
<1>5. PICK last \in Nat : last = s[Len(s)].ts /\ last <= t
  BY <1>4
<1>6. x.ts \in Nat /\ x.band \in Bands
  BY DEF HeatCol
<1>7. CASE Bins[x.band] # Bins[c.band]
  BY <1>2, <1>7 DEF AppendLive
<1>8. CASE Bins[x.band] = Bins[c.band] /\ x.ts >= last + st
  <2>1. PICK y : y = [ts |-> last + st, band |-> x.band]
    OBVIOUS
  <2>2. y \in HeatCol /\ y.ts = last + st
    BY <1>2, <1>5, <1>6, <2>1 DEF HeatCol
  <2>3. y.ts <= t /\ last <= y.ts
    BY <1>5, <1>6, <1>8, <2>2
  <2>4. Append(s, y) \in JoinedCols(t, st, e)
    BY <1>2, <1>5, <2>2, <2>3, LabelJoins
  <2>5. Trim(Append(s, y)) \in JoinedCols(t, st, e)
    BY <2>4, TrimJoins
  <2>6. AppendLive(c, x) = [step |-> st, band |-> b, cols |-> Trim(Append(s, y))]
    <3>1. AppendLive(c, x) = [c EXCEPT !.cols = Trim(Append(@, y))]
      BY <1>1, <1>2, <1>4, <1>5, <1>8, <2>1 DEF AppendLive
    <3>2. QED BY <1>1, <1>2, <3>1
  <2>7. QED BY <1>3, <2>5, <2>6 DEF JoinedCache
<1>9. CASE Bins[x.band] = Bins[c.band] /\ ~(x.ts >= last + st)
  <2>1. PICK y, r : y = [ts |-> last, band |-> x.band] /\ r = [s EXCEPT ![Len(s)] = y]
    OBVIOUS
  <2>2. AppendLive(c, x) = [step |-> st, band |-> b, cols |-> r]
    <3>1. AppendLive(c, x) = [c EXCEPT !.cols[Len(s)] = y]
      BY <1>1, <1>2, <1>4, <1>5, <1>9, <2>1 DEF AppendLive
    <3>2. QED BY <1>1, <1>2, <2>1, <3>1
  <2>3. r \in SoundCols(0, t)
    BY <1>3, <2>2 DEF SoundCache
  <2>4. DOMAIN r = 1..Len(s) /\ Len(r) = Len(s) /\ r # <<>>
    <3>1. DOMAIN r = 1..Len(s)
      BY <1>4, <2>1
    <3>2. r \in Seq(HeatCol)
      BY <2>3 DEF SoundCols
    <3>3. QED BY <1>4, <3>1, <3>2
  <2>5. \A i \in 1..Len(s) : r[i].ts = s[i].ts
    <3>1. y.ts = last
      BY <2>1
    <3>2. QED BY <1>4, <1>5, <2>1, <3>1
  <2>6. CutAt(r) = CutAt(s)
    BY <1>4, <2>4, <2>5 DEF CutAt
  <2>7. InSteps(r, st)
    <3>1. \A i \in 1..(Len(s) - 1) : i \in 1..Len(s) /\ i + 1 \in 1..Len(s)
      BY <1>4
    <3>2. QED BY <1>2, <2>4, <2>5, <2>6, <3>1 DEF JoinedCols, InSteps
  <2>8. StartsBy(r, st, e)
    <3>1. 1 \in 1..Len(s)
      BY <1>4
    <3>2. QED BY <1>2, <2>5, <2>6, <3>1 DEF JoinedCols, StartsBy
  <2>9. r \in JoinedCols(t, st, e)
    BY <2>3, <2>4, <2>7, <2>8 DEF JoinedCols
  <2>10. QED BY <1>3, <2>2, <2>9 DEF JoinedCache
<1>10. QED BY <1>7, <1>8, <1>9

(* All that a frame appends.                                               *)
LEMMA FrameJoins ==
  ASSUME NEW t \in Nat, NEW st \in Nat, NEW b, NEW e \in Int, NEW c \in JoinedCache(t, st, b, e),
         NEW cols \in Seq(HeatCol), \A i \in 1..Len(cols) : cols[i].ts <= t
  PROVE  AppendAll(c, cols) \subseteq JoinedCache(t, st, b, e)
<1>1. PICK S : S = JoinedCache(t, st, b, e)
  OBVIOUS
<1>2. \A x \in S : \A i \in 1..Len(cols) : AppendLive(x, cols[i]) \in S
  <2>1. SUFFICES ASSUME NEW x \in S, NEW i \in 1..Len(cols) PROVE AppendLive(x, cols[i]) \in S
    OBVIOUS
  <2>2. cols[i] \in HeatCol /\ cols[i].ts <= t
    OBVIOUS
  <2>3. QED BY <1>1, <2>2, AppendJoins
<1>3. Len(cols) \in Nat
  OBVIOUS
<1>4. QED BY <1>1, <1>2, <1>3, AppendAllKeeps

(* A window put in whole.                                                  *)
LEMMA ResetJoins ==
  ASSUME NEW t \in Nat, NEW w \in SoundWindow(0, t), NEW st, st = (w.t1 - w.t0) \div w.n
  PROVE  CacheReset(w) \in JoinedCache(t, st, w.band, FirstOf(w)) /\ FirstOf(w) \in Nat /\ st \in Nat
<1>1. PICK s : s = WindowCols(w)
  OBVIOUS
<1>2. /\ s \in SoundCols(0, t) /\ s \in Seq(HeatCol) /\ Len(s) = w.n /\ w.n \in Nat \ {0}
      /\ \A i \in 1..w.n : s[i].ts \in Nat
      /\ st \in Nat /\ FirstOf(w) \in Nat
      /\ s[1].ts = FirstOf(w)
      /\ \A i \in 1..(w.n - 1) : s[i + 1].ts <= s[i].ts + st + 1
  BY <1>1, WindowPaces
<1>3. s # <<>>
  BY <1>2
<1>4. PICK x, e : x = CutAt(s) /\ x \in Int /\ e = FirstOf(w) /\ e \in Nat
  BY <1>2, <1>3, ColumnTimes
<1>5. InSteps(s, st)
  <2>1. SUFFICES ASSUME NEW i \in 1..(w.n - 1) PROVE s[i + 1].ts <= Larger(s[i].ts, x) + Slack(st)
    BY <1>2, <1>4 DEF InSteps
  <2>2. i \in 1..w.n /\ i + 1 \in 1..w.n
    BY <1>2
  <2>3. PICK p, q \in Nat : p = s[i].ts /\ q = s[i + 1].ts /\ q <= p + st + 1
    BY <1>2, <2>2
  <2>4. PICK u \in Int : u = Larger(p, x) /\ p <= u
    BY <1>4 DEF Larger
  <2>5. PICK g \in Nat : g = Slack(st) /\ st + 1 <= g
    <3>1. st \in Nat
      BY <1>2
    <3>2. QED BY <3>1, SlackIs
  <2>6. st \in Nat
    BY <1>2
  <2>7. q <= u + g
    BY <2>3, <2>4, <2>5, <2>6
  <2>8. QED BY <2>3, <2>4, <2>5, <2>7
<1>6. StartsBy(s, st, e)
  <2>1. Slack(st) \in Nat
    BY <1>2, SlackIs
  <2>2. x + Slack(st) \in Int /\ e \in Int
    BY <1>4, <2>1
  <2>3. e <= Larger(e, x + Slack(st))
    BY <2>2, LargerIs
  <2>4. QED BY <1>2, <1>4, <2>3 DEF StartsBy
<1>7. s \in JoinedCols(t, st, e)
  BY <1>2, <1>3, <1>5, <1>6 DEF JoinedCols
<1>8. Trim(s) \in JoinedCols(t, st, e)
  BY <1>2, <1>4, <1>7, TrimJoins
<1>9. CacheReset(w) = [step |-> st, band |-> w.band, cols |-> Trim(s)]
  BY <1>1 DEF CacheReset
<1>10. CacheReset(w) \in SoundCache(0, t)
  <2>1. 0 \in Nat
    OBVIOUS
  <2>2. QED BY <2>1, ResetIsSound
<1>11. QED BY <1>2, <1>4, <1>8, <1>9, <1>10 DEF JoinedCache

(* What is older, before the cache: no further from it than its columns.   *)
LEMMA PrependJoins ==
  ASSUME NEW t \in Nat, NEW st \in Nat, NEW w \in SoundWindow(0, t), NEW b, w.band = b,
         NEW c \in JoinedCache(t, st, b, w.t1 + 1), (w.t1 - w.t0) \div w.n <= 3 * st
  PROVE  PrependOlder(c, w) \in JoinedCache(t, st, b, FirstOf(w)) /\ FirstOf(w) \in Nat
<1>1. PICK s, p : s = c.cols /\ p = WindowCols(w)
  OBVIOUS
<1>2. /\ c \in SoundCache(0, t) /\ c.step = st /\ c.band = b
      /\ s \in JoinedCols(t, st, w.t1 + 1) /\ s \in SoundCols(0, t) /\ s # <<>>
      /\ InSteps(s, st) /\ StartsBy(s, st, w.t1 + 1)
      /\ c = [step |-> st, band |-> b, cols |-> s]
  BY <1>1 DEF JoinedCache, JoinedCols, SoundCache
<1>3. PICK n, d, t1, e :
        /\ n = w.n /\ d = (w.t1 - w.t0) \div w.n /\ t1 = w.t1 /\ e = FirstOf(w)
        /\ p \in SoundCols(0, t) /\ p \in Seq(HeatCol) /\ Len(p) = n /\ n \in Nat \ {0}
        /\ \A i \in 1..n : p[i].ts \in Nat
        /\ d \in Nat /\ e \in Nat /\ p[1].ts = e /\ p[n].ts = t1 /\ d <= 3 * st
        /\ \A i \in 1..(n - 1) : p[i + 1].ts <= p[i].ts + d + 1
  BY <1>1, WindowPaces
<1>4. t1 \in Nat
  <2>1. n \in 1..n
    BY <1>3
  <2>2. QED BY <1>3, <2>1
<1>5. PICK l, x, g : l = Len(s) /\ x = CutAt(s) /\ g = Slack(st) /\ l \in Nat \ {0} /\ x \in Int /\ g \in Nat
                     /\ s \in Seq(HeatCol) /\ \A i \in 1..l : s[i].ts \in Nat
  <2>1. /\ s \in Seq(HeatCol) /\ Len(s) \in Nat \ {0} /\ CutAt(s) \in Int
        /\ \A i \in 1..Len(s) : s[i].ts \in Nat
    BY <1>2, ColumnTimes
  <2>2. Slack(st) \in Nat
    BY SlackIs
  <2>3. QED BY <2>1, <2>2
<1>6. /\ d \in Nat /\ e \in Nat /\ g \in Nat /\ x \in Int /\ l \in Nat \ {0} /\ n \in Nat \ {0}
      /\ d + 1 <= g /\ 1 <= g
  <2>1. g = 3 * st + 1 /\ g \in Nat /\ 1 <= g
    BY <1>5, SlackIs
  <2>2. d \in Nat /\ d <= 3 * st
    BY <1>3
  <2>3. d + 1 <= g
    BY <2>1, <2>2
  <2>4. QED BY <1>3, <1>5, <2>1, <2>2, <2>3
<1>7. PICK f \in Nat : f = s[1].ts /\ f <= Larger(t1 + 1, x + g)
  <2>1. s[1].ts \in Nat
    BY <1>5
  <2>2. s[1].ts <= Larger(t1 + 1, x + g)
    BY <1>2, <1>3, <1>5 DEF StartsBy
  <2>3. QED BY <2>1, <2>2
<1>8. PICK E : E = {i \in 1..n : p[i].ts < f}
  OBVIOUS
<1>9. PrependOlder(c, w) = IF E = {} THEN c ELSE [c EXCEPT !.cols = SubSeq(p, 1, Max(E)) \o @]
  BY <1>1, <1>2, <1>3, <1>7, <1>8 DEF PrependOlder
<1>10. PrependOlder(c, w) \in SoundCache(0, t)
  <2>1. 0 \in Nat /\ c.cols # <<>>
    BY <1>1, <1>2
  <2>2. QED BY <1>2, <2>1, PrependIsSound
<1>11. CASE E = {}
  <2>1. f <= e
    <3>1. 1 \in 1..n
      BY <1>3
    <3>2. ~(p[1].ts < f)
      BY <1>8, <1>11, <3>1
    <3>3. QED BY <1>3, <3>2
  <2>2. f <= Larger(e, x + g)
    BY <1>3, <1>5, <2>1 DEF Larger
  <2>3. StartsBy(s, st, e)
    BY <1>5, <1>7, <2>2 DEF StartsBy
  <2>4. s \in JoinedCols(t, st, e)
    BY <1>2, <2>3 DEF JoinedCols
  <2>5. PrependOlder(c, w) = c
    BY <1>9, <1>11
  <2>6. QED BY <1>1, <1>2, <1>3, <2>4, <2>5 DEF JoinedCache
<1>12. CASE E # {}
  <2>1. Max(E) \in E /\ \A y \in E : y <= Max(E)
    <3>1. E \subseteq 1..n /\ n \in Nat
      BY <1>3, <1>8
    <3>2. QED BY <1>12, <3>1, GreatestExists
  <2>2. PICK m \in 1..n : m = Max(E)
    BY <1>8, <2>1
  <2>3. p[m].ts < f /\ \A i \in 1..n : p[i].ts < f => i <= m
    BY <1>8, <2>1, <2>2
  <2>4. PICK q, r : q = SubSeq(p, 1, m) /\ r = q \o s
    OBVIOUS
  <2>5. PrependOlder(c, w) = [step |-> st, band |-> b, cols |-> r]
    <3>1. PrependOlder(c, w) = [c EXCEPT !.cols = q \o @]
      BY <1>9, <1>12, <2>2, <2>4
    <3>2. QED BY <1>1, <1>2, <2>4, <3>1
  <2>6. r \in SoundCols(0, t)
    BY <1>10, <2>5 DEF SoundCache
  <2>7. q \in Seq(HeatCol) /\ Len(q) = m /\ \A i \in 1..m : q[i] = p[i]
    <3>1. p \in Seq(HeatCol) /\ m \in Nat /\ m <= Len(p)
      BY <1>3
    <3>2. q \in Seq(HeatCol)
      BY <2>4, <3>1
    <3>3. Len(q) = m
      BY <2>4, <3>1
    <3>4. \A i \in 1..m : q[i] = p[i]
      BY <2>4, <3>1
    <3>5. QED BY <3>2, <3>3, <3>4
  <2>8. /\ Len(r) = m + l /\ r # <<>>
        /\ \A i \in 1..m : r[i] = p[i]
        /\ \A i \in 1..l : r[m + i] = s[i]
    <3>1. q \in Seq(HeatCol) /\ s \in Seq(HeatCol) /\ Len(q) = m /\ Len(s) = l /\ m \in Nat /\ l \in Nat
      BY <1>5, <2>7
    <3>2. Len(r) = m + l
      <4>1. q \in Seq(HeatCol) /\ s \in Seq(HeatCol) /\ r = q \o s
        BY <2>4, <3>1
      <4>2. Len(r) = Len(q) + Len(s)
        BY <4>1
      <4>3. QED BY <3>1, <4>2
    <3>3. \A i \in 1..m : r[i] = q[i]
      BY <2>4, <3>1
    <3>4. \A i \in 1..l : r[m + i] = s[i]
      BY <2>4, <3>1
    <3>5. r # <<>>
      <4>1. m + l > 0
        BY <1>5
      <4>2. QED BY <3>2, <4>1
    <3>6. QED BY <2>7, <3>2, <3>3, <3>4, <3>5
  <2>9. CutAt(r) = x
    <3>1. l \in 1..l
      BY <1>5
    <3>2. r[Len(r)] = s[l]
      BY <2>8, <3>1
    <3>3. QED BY <1>5, <3>2 DEF CutAt
  <2>10. InSteps(r, st)
    <3>1. SUFFICES ASSUME NEW i \in 1..(m + l - 1) PROVE r[i + 1].ts <= Larger(r[i].ts, x) + g
      BY <1>5, <2>8, <2>9 DEF InSteps
    <3>2. ASSUME NEW u \in Nat, NEW v \in Nat, v <= u + d + 1
          PROVE  v <= Larger(u, x) + g
      <4>1. PICK y \in Int : y = Larger(u, x) /\ u <= y
        BY <1>6 DEF Larger
      <4>2. v <= y + g
        BY <1>6, <3>2, <4>1
      <4>3. QED BY <4>1, <4>2
    <3>3. CASE i \in 1..(m - 1)
      <4>1. i \in 1..m /\ i + 1 \in 1..m /\ i \in 1..n /\ i + 1 \in 1..n /\ i \in 1..(n - 1)
        BY <1>6, <3>3
      <4>2. PICK u, v \in Nat : u = p[i].ts /\ v = p[i + 1].ts /\ v <= u + d + 1
        BY <1>3, <4>1
      <4>3. v <= Larger(u, x) + g
        BY <3>2, <4>2
      <4>4. r[i] = p[i] /\ r[i + 1] = p[i + 1]
        BY <2>8, <4>1
      <4>5. QED BY <4>2, <4>3, <4>4
    <3>4. CASE i = m
      <4>1. r[i] = p[m] /\ r[i + 1] = s[1]
        <5>1. m \in 1..m /\ 1 \in 1..l
          BY <1>5
        <5>2. QED BY <2>8, <3>4, <5>1
      <4>2. PICK u \in Nat : u = p[m].ts
        BY <1>3
      <4>3. f <= Larger(u, x) + g
        <5>1. CASE m = n
          <6>1. u = t1
            BY <1>3, <4>2, <5>1
          <6>2. PICK y \in Int : y = Larger(u + 1, x + g) /\ f <= y /\ (y = u + 1 \/ y = x + g)
            BY <1>6, <1>7, <6>1 DEF Larger
          <6>3. PICK z \in Int : z = Larger(u, x) /\ u <= z /\ x <= z
            BY <1>6 DEF Larger
          <6>4. f <= z + g
            BY <1>6, <6>2, <6>3
          <6>5. QED BY <6>3, <6>4
        <5>2. CASE m # n
          <6>1. m \in 1..(n - 1) /\ m + 1 \in 1..n
            BY <1>3, <5>2
          <6>2. PICK v \in Nat : v = p[m + 1].ts /\ v <= u + d + 1
            BY <1>3, <4>2, <6>1
          <6>3. ~(v < f)
            BY <2>3, <6>1, <6>2
          <6>4. f <= u + d + 1
            BY <1>6, <6>2, <6>3
          <6>5. QED BY <3>2, <6>4
        <5>3. QED BY <5>1, <5>2
      <4>4. QED BY <1>7, <4>1, <4>2, <4>3
    <3>5. CASE i \in (m + 1)..(m + l - 1)
      <4>1. PICK j \in 1..(l - 1) : j = i - m
        BY <1>5, <3>5
      <4>2. j \in 1..l /\ j + 1 \in 1..l /\ m + j = i /\ m + (j + 1) = i + 1
        BY <1>5, <4>1
      <4>3. r[i] = s[j] /\ r[i + 1] = s[j + 1]
        BY <2>8, <4>2
      <4>4. s[j + 1].ts <= Larger(s[j].ts, x) + g
        BY <1>2, <1>5, <4>1 DEF InSteps
      <4>5. QED BY <4>3, <4>4
    <3>6. QED BY <1>5, <3>3, <3>4, <3>5
  <2>11. StartsBy(r, st, e)
    <3>1. r[1] = p[1]
      BY <2>8
    <3>2. e <= Larger(e, x + g)
      BY <1>6 DEF Larger
    <3>3. QED BY <1>3, <1>5, <2>9, <3>1, <3>2 DEF StartsBy
  <2>12. r \in JoinedCols(t, st, e)
    BY <2>6, <2>8, <2>10, <2>11 DEF JoinedCols
  <2>13. QED BY <1>3, <1>10, <2>5, <2>12 DEF JoinedCache
<1>13. QED BY <1>11, <1>12

(* The same cache at a later time, and with a later edge.                  *)
LEMMA JoinsWiden ==
  ASSUME NEW t \in Nat, NEW u \in Nat, t <= u, NEW st \in Nat, NEW b, NEW e \in Int, NEW f \in Int, e <= f,
         NEW c \in JoinedCache(t, st, b, e)
  PROVE  c \in JoinedCache(u, st, b, f)
<1>1. PICK s : s = c.cols
  OBVIOUS
<1>2. /\ c \in SoundCache(0, t) /\ c.step = st /\ c.band = b /\ s \in SoundCols(0, t) /\ s # <<>>
      /\ InSteps(s, st) /\ StartsBy(s, st, e)
  BY <1>1 DEF JoinedCache, JoinedCols
<1>3. c \in SoundCache(0, u) /\ s \in SoundCols(0, u)
  BY <1>2, TimeWidens
<1>4. StartsBy(s, st, f)
  <2>1. PICK x, g, y : x = CutAt(s) /\ x \in Int /\ g = Slack(st) /\ g \in Nat /\ y = s[1].ts /\ y \in Nat
    <3>1. 1 \in 1..Len(s)
      BY <1>2, ColumnTimes
    <3>2. QED BY <1>2, <3>1, ColumnTimes, SlackIs
  <2>2. y <= Larger(e, x + g)
    BY <1>2, <2>1 DEF StartsBy
  <2>3. y <= Larger(f, x + g)
    BY <2>1, <2>2 DEF Larger
  <2>4. QED BY <2>1, <2>3 DEF StartsBy
<1>5. QED BY <1>1, <1>2, <1>3, <1>4 DEF JoinedCache, JoinedCols

(* Where a window asked for is.                                            *)
NoneIn(s)    == \A i \in DOMAIN s : s[i].kind # "window"
OneIn(s, w)  == \E k \in DOMAIN s : s[k] = w /\ \A i \in DOMAIN s : i # k => s[i].kind # "window"
LastIn(s, w) == s # <<>> /\ s[Len(s)] = w /\ \A i \in 1..(Len(s) - 1) : s[i].kind # "window"

NothingAsked == jobs = {} /\ NoneIn(outgoing) /\ NoneIn(queue) /\ delivered = Absent

OnItsWay(w) ==
    \/ LastIn(outgoing, w) /\ jobs = {} /\ NoneIn(queue) /\ delivered = Absent
    \/ /\ outgoing = <<>> /\ sub = w.band
       /\ \/ jobs = {w} /\ NoneIn(queue) /\ delivered = Absent
          \/ jobs = {} /\ OneIn(queue, w) /\ delivered = Absent
          \/ jobs = {} /\ NoneIn(queue) /\ delivered = w

(* The last gesture stopped following and was weighed against all that had *)
(* been asked for; where what it shows has to begin.                       *)
Weighed == ~debouncing /\ ~follow /\ weighed
Edge  == LeftEdge + 2 * NeedStep

Shown ==
    /\ pending = Absent /\ outgoing = <<>> /\ sub = hmBand
    /\ \E e \in Int : /\ cache \in JoinedCache(now, cache.step, hmBand, e)
                      /\ Weighed => view.band = hmBand /\ e <= Edge
Resting == NothingAsked /\ (Shown \/ (pending = "reset" /\ cache.cols = <<>>))

Awaited(w) ==
    /\ OnItsWay(w) /\ hmBand = w.band
    /\ Weighed => view.band = w.band /\ FirstOf(w) <= Edge
    /\ \/ pending = "reset"
       \/ /\ pending = "prepend" /\ (w.t1 - w.t0) \div w.n <= 3 * cache.step
          /\ cache \in JoinedCache(now, cache.step, hmBand, w.t1 + 1)
Waiting == \E w \in HeldWindows(now) : Awaited(w)

(* An open heat-map none of whose replies was lost or overtaken shows what *)
(* it was last asked to, or the one window that will make it so is on its  *)
(* way.                                                                    *)
SettledIInv == open /\ clean => Resting \/ Waiting

LEMMA NothingIsAsked == Unanswered = {} <=> NothingAsked
<1>1. \A s : AskedIn(s) = {} <=> NoneIn(s)
  BY DEF AskedIn, NoneIn, ToSet
<1>2. QED BY <1>1, UnansweredParts DEF NothingAsked

LEMMA OneIsAsked ==
  ASSUME NEW w \in HeldWindows(now), WireShape, OnItsWay(w)
  PROVE  Unanswered # {} /\ ~NothingAsked
<1>1. w.kind = "window" /\ w # Absent
  BY HeldParts, AbsentIsNoWindow
<1>2. LastIn(outgoing, w) => ~NoneIn(outgoing)
  <2>1. SUFFICES ASSUME LastIn(outgoing, w) PROVE ~NoneIn(outgoing)
    OBVIOUS
  <2>2. PICK q, S : q = outgoing /\ S = HeldWindows(now) \cup {Stop}
    OBVIOUS
  <2>3. q \in Seq(S) /\ q # <<>> /\ q[Len(q)] = w
    BY <2>1, <2>2 DEF LastIn, WireShape
  <2>4. Len(q) \in DOMAIN q
    BY <2>3
  <2>5. QED BY <1>1, <2>2, <2>3, <2>4 DEF NoneIn
<1>3. OneIn(queue, w) => ~NoneIn(queue)
  BY <1>1 DEF OneIn, NoneIn
<1>4. ~NothingAsked
  BY <1>1, <1>2, <1>3 DEF OnItsWay, NothingAsked
<1>5. QED BY <1>4, NothingIsAsked

(* How a sequence loses its head, and gains an element.                    *)
LEMMA HeadLeaves ==
  ASSUME NEW T, NEW s \in Seq(T), s # <<>>, NEW w, w.kind = "window"
  PROVE  /\ NoneIn(s) => Head(s).kind # "window" /\ NoneIn(Tail(s))
         /\ OneIn(s, w) => \/ Head(s) = w /\ NoneIn(Tail(s))
                           \/ Head(s).kind # "window" /\ OneIn(Tail(s), w)
         /\ LastIn(s, w) => \/ Head(s) = w /\ Tail(s) = <<>>
                            \/ Head(s).kind # "window" /\ LastIn(Tail(s), w)
<1>1. PICK r, h, n : r = Tail(s) /\ h = Head(s) /\ n = Len(s)
  OBVIOUS
<1>2. /\ DOMAIN s = 1..n /\ n \in Nat \ {0} /\ DOMAIN r = 1..(n - 1) /\ Len(r) = n - 1
      /\ h = s[1] /\ \A i \in 1..(n - 1) : r[i] = s[i + 1]
  <2>1. n \in Nat /\ n # 0 /\ DOMAIN s = 1..n
    BY <1>1
  <2>2. Len(r) = n - 1 /\ DOMAIN r = 1..(n - 1)
    BY <1>1, <2>1
  <2>3. h = s[1] /\ \A i \in 1..(n - 1) : r[i] = s[i + 1]
    BY <1>1, <2>1
  <2>4. QED BY <2>1, <2>2, <2>3
<1>3. \A i \in 1..(n - 1) : i + 1 \in 1..n /\ i + 1 # 1
  BY <1>2
<1>4. NoneIn(s) => h.kind # "window" /\ NoneIn(r)
  <2>1. 1 \in 1..n
    BY <1>2
  <2>2. QED BY <1>2, <1>3, <2>1 DEF NoneIn
<1>5. OneIn(s, w) => (h = w /\ NoneIn(r)) \/ (h.kind # "window" /\ OneIn(r, w))
  <2>1. SUFFICES ASSUME OneIn(s, w) PROVE (h = w /\ NoneIn(r)) \/ (h.kind # "window" /\ OneIn(r, w))
    OBVIOUS
  <2>2. PICK k \in 1..n : s[k] = w /\ \A i \in 1..n : i # k => s[i].kind # "window"
    BY <1>2, <2>1 DEF OneIn
  <2>3. CASE k = 1
    <3>1. h = w
      BY <1>2, <2>2, <2>3
    <3>2. NoneIn(r)
      BY <1>2, <1>3, <2>2, <2>3 DEF NoneIn
    <3>3. QED BY <3>1, <3>2
  <2>4. CASE k # 1
    <3>1. h.kind # "window"
      <4>1. 1 \in 1..n
        BY <1>2
      <4>2. QED BY <1>2, <2>2, <2>4, <4>1
    <3>2. PICK j \in 1..(n - 1) : j + 1 = k
      <4>1. k - 1 \in 1..(n - 1) /\ (k - 1) + 1 = k
        BY <1>2, <2>4
      <4>2. QED BY <4>1
    <3>3. r[j] = w
      BY <1>2, <2>2, <3>2
    <3>4. \A i \in 1..(n - 1) : i # j => r[i].kind # "window"
      <4>1. \A i \in 1..(n - 1) : i # j => i + 1 # k
        BY <3>2
      <4>2. QED BY <1>2, <1>3, <2>2, <4>1
    <3>5. OneIn(r, w)
      BY <1>2, <3>3, <3>4 DEF OneIn
    <3>6. QED BY <3>1, <3>5
  <2>5. QED BY <2>3, <2>4
<1>6. LastIn(s, w) => (h = w /\ r = <<>>) \/ (h.kind # "window" /\ LastIn(r, w))
  <2>1. SUFFICES ASSUME LastIn(s, w) PROVE (h = w /\ r = <<>>) \/ (h.kind # "window" /\ LastIn(r, w))
    OBVIOUS
  <2>2. s[n] = w /\ \A i \in 1..(n - 1) : s[i].kind # "window"
    BY <1>1, <2>1 DEF LastIn
  <2>3. r \in Seq(T)
    BY <1>1
  <2>4. CASE n = 1
    <3>1. h = w
      BY <1>2, <2>2, <2>4
    <3>2. Len(r) = 0
      BY <1>2, <2>4
    <3>3. r = <<>>
      BY <2>3, <3>2
    <3>4. QED BY <3>1, <3>3
  <2>5. CASE n # 1
    <3>1. PICK m \in Nat : m = n - 1 /\ m \in 1..(n - 1) /\ m + 1 = n /\ 1 \in 1..(n - 1)
      BY <1>2, <2>5
    <3>2. h.kind # "window"
      BY <1>2, <2>2, <3>1
    <3>3. r[Len(r)] = w /\ r # <<>>
      <4>1. r[m] = s[n]
        BY <1>2, <3>1
      <4>2. r # <<>>
        <5>1. Len(r) # 0
          BY <1>2, <3>1
        <5>2. QED BY <5>1
      <4>3. QED BY <1>2, <2>2, <3>1, <4>1, <4>2
    <3>4. \A i \in 1..(Len(r) - 1) : r[i].kind # "window"
      <4>1. SUFFICES ASSUME NEW i \in 1..(m - 1) PROVE r[i].kind # "window"
        BY <1>2, <3>1
      <4>2. i \in 1..(n - 1) /\ i + 1 \in 1..(n - 1)
        BY <3>1
      <4>3. QED BY <1>2, <2>2, <4>2
    <3>5. LastIn(r, w)
      BY <3>3, <3>4 DEF LastIn
    <3>6. QED BY <3>2, <3>5
  <2>6. QED BY <2>4, <2>5
<1>7. QED BY <1>1, <1>4, <1>5, <1>6

LEMMA ElementJoins ==
  ASSUME NEW T, NEW s \in Seq(T), NEW x, NEW w
  PROVE  /\ NoneIn(s) => OneIn(Append(s, x), x) /\ LastIn(Append(s, x), x)
         /\ x.kind # "window" => /\ NoneIn(s) => NoneIn(Append(s, x))
                                 /\ OneIn(s, w) => OneIn(Append(s, x), w)
<1>1. PICK r, n : r = Append(s, x) /\ n = Len(s)
  OBVIOUS
<1>2. /\ DOMAIN s = 1..n /\ n \in Nat /\ DOMAIN r = 1..(n + 1) /\ Len(r) = n + 1 /\ r # <<>>
      /\ r[n + 1] = x /\ \A i \in 1..n : r[i] = s[i]
  <2>1. n \in Nat /\ DOMAIN s = 1..n
    BY <1>1
  <2>2. Len(r) = n + 1 /\ DOMAIN r = 1..(n + 1) /\ r # <<>>
    BY <1>1, <2>1
  <2>3. r[n + 1] = x /\ \A i \in 1..n : r[i] = s[i]
    BY <1>1, <2>1
  <2>4. QED BY <2>1, <2>2, <2>3
<1>3. n + 1 \in 1..(n + 1) /\ \A i \in 1..(n + 1) : i # n + 1 => i \in 1..n
  BY <1>2
<1>4. NoneIn(s) => OneIn(r, x)
  BY <1>2, <1>3 DEF NoneIn, OneIn
<1>5. NoneIn(s) => LastIn(r, x)
  <2>1. (n + 1) - 1 = n
    BY <1>2
  <2>2. QED BY <1>2, <2>1 DEF NoneIn, LastIn
<1>6. x.kind # "window" /\ NoneIn(s) => NoneIn(r)
  BY <1>2, <1>3 DEF NoneIn
<1>7. x.kind # "window" /\ OneIn(s, w) => OneIn(r, w)
  <2>1. SUFFICES ASSUME x.kind # "window", OneIn(s, w) PROVE OneIn(r, w)
    OBVIOUS
  <2>2. PICK k \in 1..n : s[k] = w /\ \A i \in 1..n : i # k => s[i].kind # "window"
    BY <1>2, <2>1 DEF OneIn
  <2>3. k \in 1..(n + 1) /\ r[k] = w
    BY <1>2, <2>2
  <2>4. \A i \in 1..(n + 1) : i # k => r[i].kind # "window"
    BY <1>2, <1>3, <2>1, <2>2
  <2>5. QED BY <1>2, <2>3, <2>4 DEF OneIn
<1>8. QED BY <1>1, <1>4, <1>5, <1>6, <1>7

(* What keeps the stitching, and brings no fresh gesture.                  *)
LEMMA StillShown ==
  ASSUME HeatIInv, Resting, NothingAsked', outgoing = <<>> => outgoing' = <<>> /\ sub' = sub,
         now' \in Nat, now <= now', UNCHANGED <<hmBand, pending, cache>>,
         Weighed' => Weighed /\ view' = view /\ floor' = floor
  PROVE  Resting'
<1>1. CASE pending = "reset" /\ cache.cols = <<>>
  BY <1>1 DEF Resting
<1>2. CASE Shown
  <2>1. PICK e \in Int : /\ cache \in JoinedCache(now, cache.step, hmBand, e)
                         /\ Weighed => view.band = hmBand /\ e <= Edge
    BY <1>2 DEF Shown
  <2>2. PICK t, u, st \in Nat : t = now /\ u = now' /\ st = cache.step /\ t <= u
    <3>1. now \in Nat
      BY HeatConstants DEF HeatIInv, ViewShape
    <3>2. cache.step \in Nat
      BY DEF HeatIInv, SoundCache
    <3>3. QED BY <3>1, <3>2
  <2>3. cache \in JoinedCache(u, st, hmBand, e)
    <3>1. e <= e
      OBVIOUS
    <3>2. QED BY <2>1, <2>2, <3>1, JoinsWiden
  <2>4. Weighed' => view'.band = hmBand' /\ e <= Edge'
    <3>1. SUFFICES ASSUME Weighed' PROVE view'.band = hmBand' /\ e <= Edge'
      OBVIOUS
    <3>2. Edge' = Edge
      BY <3>1 DEF Edge, LeftEdge, NeedStep
    <3>3. QED BY <2>1, <3>1, <3>2
  <2>5. Shown'
    BY <1>2, <2>2, <2>3, <2>4 DEF Shown
  <2>6. QED BY <2>5 DEF Resting
<1>3. QED BY <1>1, <1>2 DEF Resting

LEMMA StillAwaited ==
  ASSUME HeatIInv, NEW w \in HeldWindows(now), Awaited(w), OnItsWay(w)',
         now' \in Nat, now <= now', UNCHANGED <<hmBand, pending, cache>>,
         Weighed' => Weighed /\ view' = view /\ floor' = floor
  PROVE  Waiting'
<1>1. PICK t, u, st \in Nat : t = now /\ u = now' /\ st = cache.step /\ t <= u
  <2>1. now \in Nat
    BY HeatConstants DEF HeatIInv, ViewShape
  <2>2. cache.step \in Nat
    BY DEF HeatIInv, SoundCache
  <2>3. QED BY <2>1, <2>2
<1>2. w \in HeldWindows(now')
  BY <1>1, TimeWidens
<1>3. Weighed' => view'.band = w.band /\ FirstOf(w) <= Edge'
  <2>1. SUFFICES ASSUME Weighed' PROVE view'.band = w.band /\ FirstOf(w) <= Edge'
    OBVIOUS
  <2>2. Edge' = Edge
    BY <2>1 DEF Edge, LeftEdge, NeedStep
  <2>3. QED BY <2>1, <2>2 DEF Awaited
<1>4. pending = "prepend" => cache \in JoinedCache(now', cache.step, hmBand, w.t1 + 1)
  <2>1. SUFFICES ASSUME pending = "prepend" PROVE cache \in JoinedCache(u, st, hmBand, w.t1 + 1)
    BY <1>1
  <2>2. cache \in JoinedCache(t, st, hmBand, w.t1 + 1)
    BY <1>1, <2>1 DEF Awaited
  <2>3. w.t1 + 1 \in Int /\ w.t1 + 1 <= w.t1 + 1
    BY HeldParts
  <2>4. QED BY <1>1, <2>2, <2>3, JoinsWiden
<1>5. Awaited(w)'
  BY <1>3, <1>4 DEF Awaited
<1>6. QED BY <1>2, <1>5 DEF Waiting

LEMMA EnterSettles ==
  ASSUME HeatIInv, NEW start \in Starts, NEW priced \in BOOLEAN, Enter(start, priced)
  PROVE  SettledIInv'
<1>1. /\ cache' = EmptyCache /\ follow' = TRUE /\ open' = TRUE /\ pending' = "reset"
      /\ UNCHANGED <<now, debouncing, delivered, livecols, sub, jobs, queue, faults>>
      /\ requests < MaxRequests
  BY DEF Enter, Ask, daemon
<1>2. ~Weighed'
  BY <1>1 DEF Weighed
<1>3. SUFFICES ASSUME clean' PROVE Resting' \/ Waiting'
  BY DEF SettledIInv
<1>4. Unanswered = {}
  <2>1. CASE priced
    <3>1. clean' = ((clean \/ TRUE) /\ Unanswered = {})
      BY <2>1 DEF Enter, Ask
    <3>2. QED BY <1>3, <3>1
  <2>2. CASE ~priced
    <3>1. clean' = (clean /\ Unanswered = {})
      BY <2>2 DEF Enter
    <3>2. QED BY <1>3, <3>1
  <2>3. QED BY <2>1, <2>2
<1>5. NothingAsked
  BY <1>4, NothingIsAsked
<1>6. CASE ~priced
  <2>1. outgoing' = outgoing
    BY <1>6 DEF Enter
  <2>2. NothingAsked'
    BY <1>1, <1>5, <2>1 DEF NothingAsked, NoneIn
  <2>3. cache'.cols = <<>>
    BY <1>1, EmptyCacheIsSound
  <2>4. QED BY <1>1, <2>2, <2>3 DEF Resting
<1>7. CASE priced
  <2>1. PICK w : w = Window(start, now, Px, Home)
    OBVIOUS
  <2>2. outgoing' = Append(outgoing, w) /\ hmBand' = Home
    BY <1>7, <2>1 DEF Enter
  <2>3. w \in HeldWindows(now)
    <3>1. now \in Nat /\ start \in Nat /\ start <= now /\ now <= now /\ Px \in Nat \ {0} /\ Home \in Bands
      BY HeatConstants DEF HeatIInv, ViewShape
    <3>2. QED BY <1>1, <2>1, <3>1, AskingIsHeld
  <2>4. LastIn(outgoing', w)
    <3>1. outgoing \in Seq(HeldWindows(now) \cup {Stop})
      BY DEF HeatIInv, WireShape
    <3>2. QED BY <1>5, <2>2, <3>1, ElementJoins DEF NothingAsked
  <2>5. OnItsWay(w)'
    BY <1>1, <1>5, <2>4 DEF OnItsWay, NothingAsked, NoneIn
  <2>6. w.band = Home
    BY <2>1 DEF Window
  <2>7. Awaited(w)'
    BY <1>1, <1>2, <2>2, <2>5, <2>6 DEF Awaited
  <2>8. QED BY <1>1, <2>3, <2>7 DEF Waiting
<1>8. QED BY <1>6, <1>7

LEMMA GestureSettles ==
  ASSUME HeatIInv, SettledIInv, Refollow \/ \E v \in Spans, b \in Bands : Pan(v, b)
  PROVE  SettledIInv'
<1>1. UNCHANGED <<now, open, floor, weighed, hmBand, pending, cache, outgoing, delivered, livecols, sub, jobs,
                  queue, requests, faults, clean>>
  BY DEF Refollow, Pan, stitch, client, daemon
<1>2. ~Weighed'
  BY DEF Refollow, Pan, Weighed
<1>3. SUFFICES ASSUME Resting \/ Waiting PROVE Resting' \/ Waiting'
  BY <1>1 DEF SettledIInv
<1>4. now \in Nat /\ now <= now
  BY HeatConstants DEF HeatIInv, ViewShape
<1>5. CASE Resting
  <2>1. NothingAsked'
    BY <1>1, <1>5 DEF Resting, NothingAsked, NoneIn
  <2>2. QED BY <1>1, <1>2, <1>4, <1>5, <2>1, StillShown
<1>6. ASSUME NEW w \in HeldWindows(now), Awaited(w) PROVE Waiting'
  <2>1. OnItsWay(w)'
    BY <1>1, <1>6 DEF Awaited, OnItsWay, LastIn, OneIn, NoneIn
  <2>2. QED BY <1>1, <1>2, <1>4, <1>6, <2>1, StillAwaited
<1>7. QED BY <1>3, <1>5, <1>6 DEF Waiting

(* What is seen from the left edge on, whatever it was asked for.          *)
LEMMA SeenFromEdge ==
  ASSUME NEW t \in Nat, NEW st \in Nat, NEW b, NEW e \in Int, NEW c \in JoinedCache(t, st, b, e),
         NEW f \in Int, c.cols[1].ts <= f
  PROVE  c \in JoinedCache(t, st, b, f)
<1>1. PICK s : s = c.cols
  OBVIOUS
<1>2. /\ c \in SoundCache(0, t) /\ c.step = st /\ c.band = b /\ s \in SoundCols(0, t) /\ s # <<>>
      /\ InSteps(s, st)
  BY <1>1 DEF JoinedCache, JoinedCols
<1>3. PICK x, g : x = CutAt(s) /\ x \in Int /\ g = Slack(st) /\ g \in Nat
  BY <1>2, ColumnTimes, SlackIs
<1>4. s[1].ts \in Nat
  <2>1. 1 \in 1..Len(s)
    BY <1>2, ColumnTimes
  <2>2. QED BY <1>2, <2>1, ColumnTimes
<1>5. s[1].ts <= Larger(f, x + g)
  BY <1>1, <1>3, <1>4 DEF Larger
<1>6. QED BY <1>1, <1>2, <1>3, <1>5 DEF JoinedCache, JoinedCols, StartsBy

(* A request waits for its window.                                         *)
LEMMA AskAwaits ==
  ASSUME HeatIInv, NothingAsked, NEW w \in HeldWindows(now), outgoing' = Append(outgoing, w),
         UNCHANGED <<now, view, floor, cache, delivered, jobs, queue>>, hmBand' = w.band,
         view.band = w.band, FirstOf(w) <= Edge,
         \/ pending' = "reset"
         \/ /\ pending' = "prepend" /\ (w.t1 - w.t0) \div w.n <= 3 * cache.step
            /\ cache \in JoinedCache(now, cache.step, w.band, w.t1 + 1)
  PROVE  Waiting'
<1>1. LastIn(outgoing', w)
  <2>1. outgoing \in Seq(HeldWindows(now) \cup {Stop})
    BY DEF HeatIInv, WireShape
  <2>2. QED BY <2>1, ElementJoins DEF NothingAsked
<1>2. OnItsWay(w)'
  BY <1>1 DEF OnItsWay, NothingAsked, NoneIn
<1>3. Edge' = Edge
  BY DEF Edge, LeftEdge, NeedStep
<1>4. Awaited(w)'
  BY <1>2, <1>3 DEF Awaited
<1>5. QED BY <1>4 DEF Waiting

LEMMA RequestSettles ==
  ASSUME HeatIInv, SettledIInv, RequestVisible
  PROVE  SettledIInv'
<1>1. PICK lo, hi, first : /\ lo = LeftEdge /\ hi = Lesser(view.hi, now) /\ first = cache.cols[1].ts
  OBVIOUS
<1>2. /\ debouncing' = FALSE
      /\ UNCHANGED <<now, open, view, follow, floor, sub, jobs, queue, faults>>
  BY DEF RequestVisible, daemon
<1>3. PICK fits \in BOOLEAN :
        /\ fits => /\ hmBand = view.band /\ cache.cols # <<>>
                   /\ 4 * Larger(cache.step - NeedStep, NeedStep - cache.step) < NeedStep
        /\ weighed' = (hi - lo >= MinData /\ (fits /\ first <= lo => Unanswered = {}))
        /\ IF ~open \/ hi - lo < MinData \/ (fits /\ first <= lo)
           THEN UNCHANGED <<stitch, client, requests, clean>>
           ELSE IF fits
           THEN /\ Ask(FALSE)
                /\ outgoing' = Append(outgoing, Window(lo, Millis(first), Columns(lo, first), hmBand))
                /\ UNCHANGED <<hmBand, cache, delivered, livecols>>
           ELSE /\ Ask(TRUE)
                /\ hmBand' = view.band
                /\ outgoing' = Append(outgoing, Window(lo, hi, Columns(lo, hi), view.band))
                /\ UNCHANGED <<cache, delivered, livecols>>
  <2> DEFINE F == /\ BandOk /\ cache.cols # <<>>
                  /\ 4 * Larger(cache.step - NeedStep, NeedStep - cache.step) < NeedStep
                  /\ hi <= cache.cols[Len(cache.cols)].ts
  <2>1. PICK fits \in BOOLEAN : fits <=> F
    OBVIOUS
  <2>2. fits => /\ hmBand = view.band /\ cache.cols # <<>>
                /\ 4 * Larger(cache.step - NeedStep, NeedStep - cache.step) < NeedStep
    BY <2>1 DEF BandOk
  <2>3. weighed' = (hi - lo >= MinData /\ (fits /\ first <= lo => Unanswered = {}))
    BY <1>1, <2>1 DEF RequestVisible
  <2>4. IF ~open \/ hi - lo < MinData \/ (fits /\ first <= lo)
        THEN UNCHANGED <<stitch, client, requests, clean>>
        ELSE IF fits
        THEN /\ Ask(FALSE)
             /\ outgoing' = Append(outgoing, Window(lo, Millis(first), Columns(lo, first), hmBand))
             /\ UNCHANGED <<hmBand, cache, delivered, livecols>>
        ELSE /\ Ask(TRUE)
             /\ hmBand' = view.band
             /\ outgoing' = Append(outgoing, Window(lo, hi, Columns(lo, hi), view.band))
             /\ UNCHANGED <<cache, delivered, livecols>>
    BY <1>1, <2>1 DEF RequestVisible
  <2> HIDE DEF F
  <2>5. QED BY <2>2, <2>3, <2>4
<1>4. /\ now \in Nat /\ now <= now /\ floor \in Nat /\ view.lo \in Int /\ view.hi \in Int
      /\ view.band \in Bands /\ cache.step \in Nat
      /\ MinCols \in Nat \ {0} /\ MinData \in Nat \ {0} /\ Px \in Nat \ {0} /\ Px <= MinData
  <2>1. cache.step \in Nat
    BY DEF HeatIInv, SoundCache
  <2>2. QED BY <2>1, HeatConstants DEF HeatIInv, ViewShape
<1>5. lo \in Nat /\ hi \in Int /\ hi <= now /\ hi <= view.hi
  BY <1>1, <1>4 DEF LeftEdge, Larger, Lesser
<1>6. ASSUME hi - lo >= MinData
      PROVE  NeedStep \in Nat \ {0}
  <2>1. PICK a \in Nat : a = view.hi - lo /\ a >= Px
    BY <1>4, <1>5, <1>6
  <2>2. PICK q : q = a \div Px
    OBVIOUS
  <2>3. q \in Nat /\ a < Px * q + Px
    BY <1>4, <2>2, DivParts
  <2>4. q # 0
    <3>1. Px * 0 + Px = Px
      BY <1>4
    <3>2. QED BY <1>4, <2>1, <2>3, <3>1
  <2>5. NeedStep = q
    BY <1>1, <2>1, <2>2 DEF NeedStep
  <2>6. QED BY <2>3, <2>4, <2>5
<1>7. SUFFICES ASSUME open, clean' PROVE Resting' \/ Waiting'
  BY <1>2 DEF SettledIInv
<1>8. CASE hi - lo < MinData \/ (fits /\ first <= lo)
  <2>1. UNCHANGED <<hmBand, pending, cache, outgoing, delivered, livecols, requests, clean>>
    BY <1>3, <1>8 DEF stitch, client
  <2>2. Resting \/ Waiting
    BY <1>7, <2>1 DEF SettledIInv
  <2>3. CASE Waiting
    <3>1. PICK w \in HeldWindows(now) : Awaited(w)
      BY <2>3 DEF Waiting
    <3>2. OnItsWay(w)'
      BY <1>2, <2>1, <3>1 DEF Awaited, OnItsWay, LastIn, OneIn, NoneIn
    <3>3. Unanswered # {}
      BY <3>1, OneIsAsked DEF HeatIInv, Awaited
    <3>4. ~(hi - lo >= MinData /\ (fits /\ first <= lo => Unanswered = {}))
      BY <1>4, <1>5, <1>8, <3>3
    <3>5. ~Weighed'
      BY <1>3, <3>4 DEF Weighed
    <3>6. Waiting'
      BY <1>2, <1>4, <2>1, <3>1, <3>2, <3>5, StillAwaited
    <3>7. QED BY <3>6
  <2>4. CASE Resting /\ (~Weighed' \/ ~Shown)
    <3>1. NothingAsked'
      BY <1>2, <2>1, <2>4 DEF Resting, NothingAsked, NoneIn
    <3>2. CASE ~Shown
      BY <2>1, <2>4, <3>1, <3>2 DEF Resting
    <3>3. CASE ~Weighed'
      <4>1. Resting'
        BY <1>2, <1>4, <2>1, <2>4, <3>1, <3>3, StillShown
      <4>2. QED BY <4>1
    <3>4. QED BY <2>4, <3>2, <3>3
  <2>5. CASE Resting /\ Weighed' /\ Shown
    <3>1. hi - lo >= MinData
      <4>1. weighed'
        BY <2>5 DEF Weighed
      <4>2. QED BY <1>3, <4>1
    <3>2. fits /\ first <= lo
      BY <1>4, <1>5, <1>8, <3>1
    <3>3. PICK n \in Nat \ {0} : n = NeedStep
      BY <1>6, <3>1
    <3>4. PICK e \in Int : cache \in JoinedCache(now, cache.step, hmBand, e)
      BY <2>5 DEF Shown
    <3>5. first \in Nat
      <4>1. PICK s : s = cache.cols
        OBVIOUS
      <4>2. s \in SoundCols(0, now) /\ s # <<>>
        BY <1>3, <3>2, <4>1 DEF HeatIInv, SoundCache
      <4>3. 1 \in 1..Len(s)
        BY <4>2, ColumnTimes
      <4>4. QED BY <1>1, <4>1, <4>2, <4>3, ColumnTimes
    <3>6. PICK f \in Int : f = Edge /\ first <= f
      <4>1. Edge = lo + 2 * n
        BY <1>1, <3>3 DEF Edge
      <4>2. QED BY <1>5, <3>2, <3>3, <3>5, <4>1
    <3>7. PICK t, st \in Nat : t = now /\ st = cache.step
      BY <1>4
    <3>8. cache \in JoinedCache(t, st, hmBand, f)
      BY <1>1, <3>4, <3>6, <3>7, SeenFromEdge
    <3>9. Edge' = Edge
      BY <1>2 DEF Edge, LeftEdge, NeedStep
    <3>10. f <= Edge' /\ view'.band = hmBand' /\ cache' \in JoinedCache(now', cache'.step, hmBand', f)
      BY <1>2, <1>3, <2>1, <3>2, <3>6, <3>7, <3>8, <3>9
    <3>11. pending' = Absent /\ outgoing' = <<>> /\ sub' = hmBand'
      BY <1>2, <2>1, <2>5 DEF Shown
    <3>12. Shown'
      BY <3>10, <3>11 DEF Shown
    <3>13. NothingAsked'
      BY <1>2, <2>1, <2>5 DEF Resting, NothingAsked, NoneIn
    <3>14. QED BY <3>12, <3>13 DEF Resting
  <2>6. QED BY <2>2, <2>3, <2>4, <2>5
<1>9. CASE ~(hi - lo < MinData \/ (fits /\ first <= lo))
  <2>1. hi - lo >= MinData
    BY <1>4, <1>5, <1>9
  <2>2. PICK ns \in Nat \ {0} : ns = NeedStep
    BY <1>6, <2>1
  <2>3. PICK reset \in BOOLEAN : /\ reset <=> ~fits
                                 /\ Ask(reset)
    BY <1>3, <1>7, <1>9
  <2>4. requests < MaxRequests /\ pending' = (IF reset THEN "reset" ELSE "prepend")
        /\ clean' = ((clean \/ reset) /\ Unanswered = {})
    BY <2>3 DEF Ask
  <2>5. Unanswered = {} /\ NothingAsked
    BY <1>7, <2>4, NothingIsAsked
  <2>6. Edge = lo + 2 * ns
    BY <1>1, <2>2 DEF Edge
  <2>7. ASSUME NEW t1 \in Nat, NEW t \in Nat, lo <= t1, t1 <= t, t1 <= now, NEW b \in Bands,
               NEW w, w = Window(lo, t1, Columns(lo, t), b)
        PROVE  /\ w \in HeldWindows(now) /\ w.band = b /\ w.t1 = t1
               /\ (w.t1 - w.t0) \div w.n <= 2 * ns
               /\ (w.t1 - w.t0) \div w.n \in Nat
               /\ FirstOf(w) <= Edge
    <3>1. PICK d, a \in Nat : d = t1 - lo /\ a = t - lo /\ d <= a
      BY <1>5, <2>7
    <3>2. PICK n : n = Columns(lo, t)
      OBVIOUS
    <3>3. n = Larger(MinCols, a \div ns)
      BY <2>2, <3>1, <3>2 DEF Columns
    <3>4. n \in Nat \ {0} /\ d \div n \in Nat /\ d \div n <= 2 * ns
      BY <1>4, <3>1, <3>3, ColumnStep
    <3>5. w \in HeldWindows(now)
      BY <1>5, <2>4, <2>7, <3>2, <3>4, AskingIsHeld
    <3>6. w.band = b /\ w.t1 = t1 /\ w.t0 = lo /\ w.n = n
      BY <2>7, <3>2 DEF Window
    <3>7. FirstOf(w) <= Edge
      BY <1>5, <2>6, <3>1, <3>4, <3>6 DEF FirstOf
    <3>8. QED BY <3>1, <3>4, <3>5, <3>6, <3>7
  <2>8. CASE ~fits
    <3>1. /\ hmBand' = view.band
          /\ outgoing' = Append(outgoing, Window(lo, hi, Columns(lo, hi), view.band))
          /\ UNCHANGED <<cache, delivered, livecols>>
      BY <1>3, <1>7, <1>9, <2>8
    <3>2. PICK w : w = Window(lo, hi, Columns(lo, hi), view.band)
      OBVIOUS
    <3>3. hi \in Nat /\ lo <= hi /\ hi <= hi
      BY <1>4, <1>5, <2>1
    <3>4. w \in HeldWindows(now) /\ w.band = view.band /\ FirstOf(w) <= Edge
      BY <1>4, <1>5, <2>7, <3>2, <3>3
    <3>5. pending' = "reset"
      BY <2>3, <2>4, <2>8
    <3>6. Waiting'
      BY <1>2, <2>5, <3>1, <3>2, <3>4, <3>5, AskAwaits
    <3>7. QED BY <3>6
  <2>9. CASE fits
    <3>1. /\ outgoing' = Append(outgoing, Window(lo, Millis(first), Columns(lo, first), hmBand))
          /\ UNCHANGED <<hmBand, cache, delivered, livecols>>
          /\ ~(first <= lo)
      BY <1>3, <1>7, <1>9, <2>9
    <3>2. clean /\ pending' = "prepend"
      BY <1>7, <2>3, <2>4, <2>9
    <3>3. PICK s : s = cache.cols
      OBVIOUS
    <3>4. s \in SoundCols(0, now) /\ s # <<>> /\ hmBand = view.band
      BY <1>3, <2>9, <3>3 DEF HeatIInv, SoundCache
    <3>5. first \in Nat /\ first <= now
      <4>1. 1 \in 1..Len(s)
        BY <3>4, ColumnTimes
      <4>2. QED BY <1>1, <3>3, <3>4, <4>1, ColumnTimes
    <3>6. PICK t1 \in Nat : t1 = Millis(first) /\ lo <= t1 /\ t1 <= first /\ first <= t1 + 1 /\ t1 <= now
      <4>1. Millis(first) \in Nat /\ lo <= Millis(first) /\ Millis(first) <= first /\ first <= Millis(first) + 1
        BY <1>5, <3>1, <3>5 DEF Millis
      <4>2. QED BY <1>4, <3>5, <4>1
    <3>7. PICK w : w = Window(lo, t1, Columns(lo, first), hmBand)
      OBVIOUS
    <3>8. /\ w \in HeldWindows(now) /\ w.band = hmBand /\ w.t1 = t1 /\ FirstOf(w) <= Edge
          /\ (w.t1 - w.t0) \div w.n <= 2 * ns /\ (w.t1 - w.t0) \div w.n \in Nat
      <4>1. PICK b \in Bands : b = hmBand
        BY <1>4, <3>4
      <4>2. PICK f \in Nat : f = first /\ t1 <= f
        BY <3>5, <3>6
      <4>3. w = Window(lo, t1, Columns(lo, f), b)
        BY <3>7, <4>1, <4>2
      <4>4. lo <= t1 /\ t1 <= now
        BY <3>6
      <4>5. /\ w \in HeldWindows(now) /\ w.band = b /\ w.t1 = t1 /\ FirstOf(w) <= Edge
            /\ (w.t1 - w.t0) \div w.n <= 2 * ns /\ (w.t1 - w.t0) \div w.n \in Nat
        BY <2>7, <4>2, <4>3, <4>4
      <4>6. QED BY <4>1, <4>5
    <3>9. (w.t1 - w.t0) \div w.n <= 3 * cache.step
      <4>1. PICK st \in Nat, y \in Nat : st = cache.step /\ y = (w.t1 - w.t0) \div w.n
        BY <1>4, <3>8
      <4>2. 4 * Larger(st - ns, ns - st) < ns
        BY <1>3, <2>2, <2>9, <4>1
      <4>3. 2 * ns <= 3 * st
        BY <2>2, <4>1, <4>2 DEF Larger
      <4>4. QED BY <2>2, <3>8, <4>1, <4>3
    <3>10. Shown
      <4>1. Resting \/ Waiting
        BY <1>7, <3>2 DEF SettledIInv
      <4>2. ~Waiting
        BY <2>5, OneIsAsked DEF HeatIInv, Waiting, Awaited
      <4>3. QED BY <3>3, <3>4, <4>1, <4>2 DEF Resting
    <3>11. cache \in JoinedCache(now, cache.step, w.band, w.t1 + 1)
      <4>1. PICK e \in Int : cache \in JoinedCache(now, cache.step, hmBand, e)
        BY <3>10 DEF Shown
      <4>2. PICK t, st \in Nat : t = now /\ st = cache.step
        BY <1>4
      <4>3. t1 + 1 \in Int /\ cache.cols[1].ts <= t1 + 1
        BY <1>1, <3>6
      <4>4. cache \in JoinedCache(t, st, hmBand, t1 + 1)
        BY <4>1, <4>2, <4>3, SeenFromEdge
      <4>5. QED BY <3>8, <4>2, <4>4
    <3>12. Waiting'
      BY <1>2, <2>5, <3>1, <3>2, <3>4, <3>6, <3>7, <3>8, <3>9, <3>11, AskAwaits
    <3>13. QED BY <3>12
  <2>10. QED BY <2>8, <2>9
<1>10. QED BY <1>8, <1>9

(* The daemon takes a line.                                                *)
LEMMA ControlSettles ==
  ASSUME HeatIInv, SettledIInv, HandleControl
  PROVE  SettledIInv'
<1>1. /\ outgoing # <<>> /\ outgoing' = Tail(outgoing)
      /\ IF Head(outgoing).kind = "stop"
         THEN sub' = Absent /\ UNCHANGED jobs
         ELSE sub' = Head(outgoing).band /\ jobs' = jobs \cup {Head(outgoing)}
      /\ UNCHANGED <<now, open, view, follow, debouncing, floor, weighed, hmBand, pending, cache, delivered, livecols,
                     queue, requests, faults, clean>>
  BY DEF HandleControl, ui, stitch
<1>2. PICK q, h, S : q = outgoing /\ h = Head(q) /\ S = HeldWindows(now)
  OBVIOUS
<1>3. q \in Seq(S \cup {Stop}) /\ q # <<>>
  BY <1>1, <1>2 DEF HeatIInv, WireShape
<1>4. h \in S \cup {Stop}
  BY <1>2, <1>3, SetOfTail
<1>5. Stop.kind = "stop" /\ Stop.kind # "window" /\ \A w \in S : w.kind = "window" /\ w.kind # "stop"
  BY <1>2, HeldParts DEF Stop
<1>6. /\ h.kind # "window" => jobs' = jobs
      /\ h.kind = "window" => jobs' = jobs \cup {h} /\ sub' = h.band
  BY <1>1, <1>2, <1>4, <1>5
<1>7. now \in Nat /\ now <= now
  BY HeatConstants DEF HeatIInv, ViewShape
<1>8. Weighed' => Weighed /\ view' = view /\ floor' = floor
  BY <1>1 DEF Weighed
<1>9. SUFFICES ASSUME Resting \/ Waiting PROVE Resting' \/ Waiting'
  BY <1>1 DEF SettledIInv
<1>10. CASE Resting
  <2>1. NoneIn(q)
    BY <1>2, <1>10 DEF Resting, NothingAsked
  <2>2. h.kind # "window" /\ NoneIn(Tail(q))
    <3>1. PICK y : y = [kind |-> "window"]
      OBVIOUS
    <3>2. y.kind = "window"
      BY <3>1
    <3>3. QED BY <1>2, <1>3, <2>1, <3>2, HeadLeaves
  <2>3. NothingAsked'
    BY <1>1, <1>2, <1>6, <1>10, <2>2 DEF Resting, NothingAsked, NoneIn
  <2>4. Resting'
    BY <1>1, <1>7, <1>8, <1>10, <2>3, StillShown
  <2>5. QED BY <2>4
<1>11. ASSUME NEW w \in HeldWindows(now), Awaited(w) PROVE Waiting'
  <2>1. LastIn(q, w) /\ jobs = {} /\ NoneIn(queue) /\ delivered = Absent
    BY <1>1, <1>2, <1>11 DEF Awaited, OnItsWay
  <2>2. w.kind = "window"
    BY HeldParts
  <2>3. (h = w /\ Tail(q) = <<>>) \/ (h.kind # "window" /\ LastIn(Tail(q), w))
    BY <1>2, <1>3, <2>1, <2>2, HeadLeaves
  <2>4. CASE h = w /\ Tail(q) = <<>>
    <3>1. outgoing' = <<>> /\ sub' = w.band /\ jobs' = {w} /\ queue' = queue /\ delivered' = delivered
      BY <1>1, <1>2, <1>6, <2>1, <2>2, <2>4
    <3>2. OnItsWay(w)'
      BY <2>1, <3>1 DEF OnItsWay, NoneIn
    <3>3. QED BY <1>1, <1>7, <1>8, <1>11, <3>2, StillAwaited
  <2>5. CASE h.kind # "window" /\ LastIn(Tail(q), w)
    <3>1. LastIn(outgoing', w) /\ jobs' = {} /\ queue' = queue /\ delivered' = Absent
      BY <1>1, <1>2, <1>6, <2>1, <2>5
    <3>2. OnItsWay(w)'
      BY <2>1, <3>1 DEF OnItsWay, NoneIn
    <3>3. QED BY <1>1, <1>7, <1>8, <1>11, <3>2, StillAwaited
  <2>6. QED BY <2>3, <2>4, <2>5
<1>12. QED BY <1>9, <1>10, <1>11 DEF Waiting

(* A window is built, or its build fails.                                  *)
LEMMA BuildSettles ==
  ASSUME HeatIInv, SettledIInv, NEW v \in jobs, BuildDone(v) \/ BuildFails(v)
  PROVE  SettledIInv'
<1>1. /\ jobs' = jobs \ {v}
      /\ UNCHANGED <<now, open, view, follow, debouncing, floor, weighed, hmBand, pending, cache, outgoing, delivered,
                     livecols, sub, requests>>
  BY DEF BuildDone, BuildFails, ui, stitch, client
<1>2. (queue' = Append(queue, v) /\ clean' = clean) \/ clean' = FALSE
  BY DEF BuildDone, BuildFails, Send
<1>3. SUFFICES ASSUME open, clean' PROVE Resting' \/ Waiting'
  BY <1>1 DEF SettledIInv
<1>4. queue' = Append(queue, v) /\ clean
  BY <1>2, <1>3
<1>5. now \in Nat /\ now <= now
  BY HeatConstants DEF HeatIInv, ViewShape
<1>6. Weighed' => Weighed /\ view' = view /\ floor' = floor
  BY <1>1 DEF Weighed
<1>7. ~Resting
  BY DEF Resting, NothingAsked
<1>8. PICK w \in HeldWindows(now) : Awaited(w)
  BY <1>3, <1>4, <1>7 DEF SettledIInv, Waiting
<1>9. jobs = {w} /\ NoneIn(queue) /\ delivered = Absent /\ outgoing = <<>> /\ sub = w.band /\ v = w
  <2>1. jobs # {}
    OBVIOUS
  <2>2. jobs = {w} /\ NoneIn(queue) /\ delivered = Absent /\ outgoing = <<>> /\ sub = w.band
    BY <1>8, <2>1 DEF Awaited, OnItsWay
  <2>3. QED BY <2>2
<1>10. OneIn(queue', w)
  <2>1. queue \in Seq(HeldWindows(now) \cup PushedColumns(now))
    BY DEF HeatIInv, WireShape
  <2>2. OneIn(Append(queue, w), w)
    BY <1>9, <2>1, ElementJoins
  <2>3. QED BY <1>4, <1>9, <2>2
<1>11. OnItsWay(w)'
  <2>1. outgoing' = <<>> /\ sub' = w.band /\ jobs' = {} /\ delivered' = Absent
    BY <1>1, <1>9
  <2>2. QED BY <1>10, <2>1 DEF OnItsWay
<1>12. Waiting'
  BY <1>1, <1>5, <1>6, <1>8, <1>11, StillAwaited
<1>13. QED BY <1>12

(* A live column is pushed.                                                *)
LEMMA PulseSettles ==
  ASSUME HeatIInv, SettledIInv, LivePulse
  PROVE  SettledIInv'
<1>1. /\ now' = now + Pulse
      /\ UNCHANGED <<open, view, follow, debouncing, floor, weighed, hmBand, pending, cache, outgoing, delivered,
                     livecols, sub, jobs, requests>>
  BY DEF LivePulse, ui, stitch, client
<1>2. now \in Nat /\ now' \in Nat /\ now <= now'
  BY <1>1, HeatConstants DEF HeatIInv, ViewShape
<1>3. PICK m : m.kind # "window" /\ (queue' = queue \/ queue' = Append(queue, m)) /\ (clean' => clean)
  <2>1. PICK m : m = [kind |-> "column", ts |-> now', band |-> sub]
    OBVIOUS
  <2>2. m.kind = "column"
    BY <2>1
  <2>3. (queue' = queue \/ queue' = Append(queue, m)) /\ (clean' => clean)
    BY <2>1 DEF LivePulse, Send
  <2>4. QED BY <2>2, <2>3
<1>4. Weighed' => Weighed /\ view' = view /\ floor' = floor
  BY <1>1 DEF Weighed
<1>5. queue \in Seq(HeldWindows(now) \cup PushedColumns(now))
  BY DEF HeatIInv, WireShape
<1>6. NoneIn(queue) => NoneIn(queue')
  <2>1. NoneIn(queue) => NoneIn(Append(queue, m))
    BY <1>3, <1>5, ElementJoins
  <2>2. QED BY <1>3, <2>1
<1>7. ASSUME NEW w, OneIn(queue, w) PROVE OneIn(queue', w)
  <2>1. OneIn(Append(queue, m), w)
    BY <1>3, <1>5, <1>7, ElementJoins
  <2>2. QED BY <1>3, <1>7, <2>1
<1>8. SUFFICES ASSUME Resting \/ Waiting PROVE Resting' \/ Waiting'
  BY <1>1, <1>3 DEF SettledIInv
<1>9. CASE Resting
  <2>1. NoneIn(queue')
    BY <1>6, <1>9 DEF Resting, NothingAsked
  <2>2. NothingAsked'
    BY <1>1, <1>9, <2>1 DEF Resting, NothingAsked, NoneIn
  <2>3. Resting'
    BY <1>1, <1>2, <1>4, <1>9, <2>2, StillShown
  <2>4. QED BY <2>3
<1>10. ASSUME NEW w \in HeldWindows(now), Awaited(w) PROVE Waiting'
  <2>1. OnItsWay(w)
    BY <1>10 DEF Awaited
  <2>2. CASE LastIn(outgoing, w) /\ jobs = {} /\ NoneIn(queue) /\ delivered = Absent
    <3>1. LastIn(outgoing', w) /\ jobs' = {} /\ NoneIn(queue') /\ delivered' = Absent
      BY <1>1, <1>6, <2>2
    <3>2. OnItsWay(w)'
      BY <3>1 DEF OnItsWay
    <3>3. QED BY <1>1, <1>2, <1>4, <1>10, <3>2, StillAwaited
  <2>3. CASE outgoing = <<>> /\ sub = w.band /\ delivered = Absent
             /\ ((jobs = {w} /\ NoneIn(queue)) \/ (jobs = {} /\ OneIn(queue, w)))
    <3>1. outgoing' = <<>> /\ sub' = w.band /\ delivered' = Absent
          /\ ((jobs' = {w} /\ NoneIn(queue')) \/ (jobs' = {} /\ OneIn(queue', w)))
      BY <1>1, <1>6, <1>7, <2>3
    <3>2. OnItsWay(w)'
      BY <3>1 DEF OnItsWay
    <3>3. QED BY <1>1, <1>2, <1>4, <1>10, <3>2, StillAwaited
  <2>4. CASE outgoing = <<>> /\ sub = w.band /\ jobs = {} /\ NoneIn(queue) /\ delivered = w
    <3>1. outgoing' = <<>> /\ sub' = w.band /\ jobs' = {} /\ NoneIn(queue') /\ delivered' = w
      BY <1>1, <1>6, <2>4
    <3>2. OnItsWay(w)'
      BY <3>1 DEF OnItsWay
    <3>3. QED BY <1>1, <1>2, <1>4, <1>10, <3>2, StillAwaited
  <2>5. QED BY <2>1, <2>2, <2>3, <2>4 DEF OnItsWay
<1>11. QED BY <1>8, <1>9, <1>10 DEF Waiting

(* A frame of the daemon's arrives.                                        *)
LEMMA DeliverSettles ==
  ASSUME HeatIInv, SettledIInv, Deliver
  PROVE  SettledIInv'
<1>1. /\ queue # <<>> /\ queue' = Tail(queue)
      /\ Head(queue).kind = "window" => delivered' = Head(queue)
      /\ Head(queue).kind # "window" => delivered' = delivered
      /\ UNCHANGED <<now, open, view, follow, debouncing, floor, weighed, hmBand, pending, cache, outgoing,
                     sub, jobs, requests, faults, clean>>
  BY DEF Deliver, ui, stitch
<1>2. PICK q, h, T : q = queue /\ h = Head(q) /\ T = HeldWindows(now) \cup PushedColumns(now)
  OBVIOUS
<1>3. q \in Seq(T) /\ q # <<>>
  BY <1>1, <1>2 DEF HeatIInv, WireShape
<1>4. now \in Nat /\ now <= now
  BY HeatConstants DEF HeatIInv, ViewShape
<1>5. Weighed' => Weighed /\ view' = view /\ floor' = floor
  BY <1>1 DEF Weighed
<1>6. NoneIn(q) => h.kind # "window" /\ NoneIn(Tail(q))
  <2>1. PICK y : y = [kind |-> "window"]
    OBVIOUS
  <2>2. y.kind = "window"
    BY <2>1
  <2>3. QED BY <1>2, <1>3, <2>2, HeadLeaves
<1>7. NoneIn(queue) => delivered' = delivered /\ NoneIn(queue')
  BY <1>1, <1>2, <1>6
<1>8. SUFFICES ASSUME Resting \/ Waiting PROVE Resting' \/ Waiting'
  BY <1>1 DEF SettledIInv
<1>9. CASE Resting
  <2>1. delivered' = delivered /\ NoneIn(queue')
    BY <1>7, <1>9 DEF Resting, NothingAsked
  <2>2. NothingAsked'
    BY <1>1, <1>9, <2>1 DEF Resting, NothingAsked, NoneIn
  <2>3. Resting'
    BY <1>1, <1>4, <1>5, <1>9, <2>2, StillShown
  <2>4. QED BY <2>3
<1>10. ASSUME NEW w \in HeldWindows(now), Awaited(w) PROVE Waiting'
  <2>1. OnItsWay(w)
    BY <1>10 DEF Awaited
  <2>2. CASE LastIn(outgoing, w) /\ jobs = {} /\ NoneIn(queue) /\ delivered = Absent
    <3>1. LastIn(outgoing', w) /\ jobs' = {} /\ NoneIn(queue') /\ delivered' = Absent
      BY <1>1, <1>7, <2>2
    <3>2. OnItsWay(w)'
      BY <3>1 DEF OnItsWay
    <3>3. QED BY <1>1, <1>4, <1>5, <1>10, <3>2, StillAwaited
  <2>3. CASE outgoing = <<>> /\ sub = w.band /\ NoneIn(queue)
             /\ ((jobs = {w} /\ delivered = Absent) \/ (jobs = {} /\ delivered = w))
    <3>1. outgoing' = <<>> /\ sub' = w.band /\ NoneIn(queue')
          /\ ((jobs' = {w} /\ delivered' = Absent) \/ (jobs' = {} /\ delivered' = w))
      BY <1>1, <1>7, <2>3
    <3>2. OnItsWay(w)'
      BY <3>1 DEF OnItsWay
    <3>3. QED BY <1>1, <1>4, <1>5, <1>10, <3>2, StillAwaited
  <2>4. CASE outgoing = <<>> /\ sub = w.band /\ jobs = {} /\ OneIn(q, w) /\ delivered = Absent
    <3>1. w.kind = "window"
      BY HeldParts
    <3>2. (h = w /\ NoneIn(Tail(q))) \/ (h.kind # "window" /\ OneIn(Tail(q), w))
      BY <1>2, <1>3, <2>4, <3>1, HeadLeaves
    <3>3. (delivered' = w /\ NoneIn(queue')) \/ (delivered' = Absent /\ OneIn(queue', w))
      BY <1>1, <1>2, <2>4, <3>1, <3>2
    <3>4. outgoing' = <<>> /\ sub' = w.band /\ jobs' = {}
      BY <1>1, <2>4
    <3>5. OnItsWay(w)'
      BY <3>3, <3>4 DEF OnItsWay
    <3>6. QED BY <1>1, <1>4, <1>5, <1>10, <3>5, StillAwaited
  <2>5. QED BY <1>2, <2>1, <2>2, <2>3, <2>4 DEF OnItsWay
<1>11. QED BY <1>8, <1>9, <1>10 DEF Waiting

(* What the frame stitches into an empty cache, before its first window.   *)
LEMMA NothingJoins ==
  ASSUME NEW c, c.cols = <<>>, NEW cols \in Seq(HeatCol), NEW d \in AppendAll(c, cols)
  PROVE  d.cols = <<>>
<1>1. \A i \in 1..Len(cols) : AppendLive(c, cols[i]) = c
  BY DEF AppendLive
<1>2. Len(cols) \in Nat
  OBVIOUS
<1>3. AppendAll(c, cols) \subseteq {c}
  BY <1>1, <1>2, AppendAllKeeps
<1>4. QED BY <1>3

(* A frame shows what a window brought.                                    *)
LEMMA FrameShows ==
  ASSUME HeatIInv, NothingAsked', pending' = Absent, outgoing' = <<>>, sub' = hmBand',
         NEW t \in Nat, t = now', NEW st \in Nat, NEW e \in Int, NEW c \in JoinedCache(t, st, hmBand', e),
         NEW cols \in Seq(HeatCol), \A i \in 1..Len(cols) : cols[i].ts <= t,
         cache' \in AppendAll(c, cols), Weighed' => view'.band = hmBand' /\ e <= Edge'
  PROVE  Resting'
<1>1. PICK b, d : b = hmBand' /\ d = cache'
  OBVIOUS
<1>2. d \in JoinedCache(t, st, b, e)
  BY <1>1, FrameJoins
<1>3. d.step = st
  BY <1>2 DEF JoinedCache
<1>4. Shown'
  BY <1>1, <1>2, <1>3 DEF Shown
<1>5. QED BY <1>4 DEF Resting

LEMMA FrameSettles ==
  ASSUME HeatIInv, SettledIInv, Frame
  PROVE  SettledIInv'
<1>1. PICK c, d, t, s :
        /\ c = cache /\ d = delivered /\ t = now
        /\ s = (IF d = Absent THEN c
                ELSE IF pending = "prepend" /\ c.cols # <<>> THEN PrependOlder(c, d)
                ELSE CacheReset(d))
  OBVIOUS
<1>2. PICK out : out \in AppendAll(s, livecols) /\ cache' = out
  BY <1>1 DEF Frame
<1>3. /\ hmBand' = (IF d = Absent \/ (pending = "prepend" /\ c.cols # <<>>) THEN hmBand ELSE d.band)
      /\ pending' = (IF d = Absent THEN pending ELSE Absent)
      /\ delivered' = Absent
      /\ ~follow => view' = view
      /\ UNCHANGED <<now, open, follow, debouncing, floor, weighed, outgoing, sub, jobs, queue, requests, faults,
                     clean>>
  BY <1>1 DEF Frame, daemon
<1>4. t \in Nat /\ now' = t
  BY <1>1, <1>3, HeatConstants DEF HeatIInv, ViewShape
<1>5. PICK live \in Seq(HeatCol) : live = livecols /\ \A i \in 1..Len(live) : live[i].ts <= t
  <2>1. PICK q, S : q = livecols /\ S = HeldColumns(t)
    OBVIOUS
  <2>2. q \in Seq(S) /\ S \subseteq HeatCol /\ \A x \in S : x.ts <= t
    BY <1>1, <2>1 DEF HeatIInv, WireShape, HeldColumns
  <2>3. QED BY <2>1, <2>2
<1>6. Weighed' => Weighed /\ view' = view /\ floor' = floor
  BY <1>3 DEF Weighed
<1>7. Weighed' => Edge' = Edge
  BY <1>6 DEF Edge, LeftEdge, NeedStep
<1>8. PICK st \in Nat : st = c.step
  BY <1>1 DEF HeatIInv, SoundCache
<1>9. SUFFICES ASSUME Resting \/ Waiting PROVE Resting' \/ Waiting'
  BY <1>3 DEF SettledIInv
<1>10. CASE Resting
  <2>1. d = Absent /\ s = c
    BY <1>1, <1>10 DEF Resting, NothingAsked
  <2>2. NothingAsked'
    BY <1>3, <1>10 DEF Resting, NothingAsked, NoneIn
  <2>3. hmBand' = hmBand /\ pending' = pending
    BY <1>3, <2>1
  <2>4. CASE pending = "reset" /\ cache.cols = <<>>
    <3>1. out.cols = <<>>
      BY <1>1, <1>2, <1>5, <2>1, <2>4, NothingJoins
    <3>2. QED BY <1>2, <2>2, <2>3, <2>4, <3>1 DEF Resting
  <2>5. CASE Shown
    <3>1. PICK e \in Int : /\ c \in JoinedCache(t, st, hmBand, e)
                           /\ Weighed => view.band = hmBand /\ e <= Edge
      BY <1>1, <1>8, <2>5 DEF Shown
    <3>2. Weighed' => view'.band = hmBand' /\ e <= Edge'
      BY <1>6, <1>7, <2>3, <3>1
    <3>3. pending' = Absent /\ outgoing' = <<>> /\ sub' = hmBand'
      BY <1>3, <2>3, <2>5 DEF Shown
    <3>4. c \in JoinedCache(t, st, hmBand', e)
      BY <2>3, <3>1
    <3>5. cache' \in AppendAll(c, live)
      BY <1>2, <1>5, <2>1
    <3>6. Resting'
      BY <1>4, <1>5, <2>2, <3>2, <3>3, <3>4, <3>5, FrameShows
    <3>7. QED BY <3>6
  <2>6. QED BY <1>10, <2>4, <2>5 DEF Resting
<1>11. ASSUME NEW w \in HeldWindows(now), Awaited(w) PROVE Resting' \/ Waiting'
  <2>1. OnItsWay(w) /\ hmBand = w.band /\ (Weighed => view.band = w.band /\ FirstOf(w) <= Edge)
    BY <1>11 DEF Awaited
  <2>2. Weighed' => view'.band = w.band /\ FirstOf(w) <= Edge'
    BY <1>6, <1>7, <2>1
  <2>3. CASE d = Absent
    <3>1. s = c /\ hmBand' = hmBand /\ pending' = pending
      BY <1>1, <1>3, <2>3
    <3>2. w # Absent
      BY AbsentIsNoWindow
    <3>3. OnItsWay(w)'
      BY <1>1, <1>3, <2>1, <2>3, <3>2 DEF OnItsWay, LastIn, OneIn, NoneIn
    <3>4. pending = "prepend" => /\ (w.t1 - w.t0) \div w.n <= 3 * out.step
                                 /\ out \in JoinedCache(t, out.step, hmBand, w.t1 + 1)
      <4>1. SUFFICES ASSUME pending = "prepend"
                     PROVE  /\ (w.t1 - w.t0) \div w.n <= 3 * out.step
                            /\ out \in JoinedCache(t, out.step, hmBand, w.t1 + 1)
        OBVIOUS
      <4>2. pending # "reset"
        BY <4>1
      <4>3. (w.t1 - w.t0) \div w.n <= 3 * st /\ c \in JoinedCache(t, st, hmBand, w.t1 + 1)
        BY <1>1, <1>8, <1>11, <4>2 DEF Awaited
      <4>4. PICK b, e : e \in Int /\ b = hmBand /\ e = w.t1 + 1
        BY HeldParts
      <4>5. out \in AppendAll(c, live)
        BY <1>2, <1>5, <3>1
      <4>6. out \in JoinedCache(t, st, b, e)
        BY <1>4, <1>5, <4>3, <4>4, <4>5, FrameJoins
      <4>7. out.step = st
        BY <4>6 DEF JoinedCache
      <4>8. QED BY <4>3, <4>4, <4>6, <4>7
    <3>5. pending \in {"reset", "prepend"}
      BY <1>11 DEF Awaited
    <3>6. Awaited(w)'
      BY <1>2, <1>4, <2>1, <2>2, <3>1, <3>3, <3>4, <3>5 DEF Awaited
    <3>7. w \in HeldWindows(now')
      BY <1>1, <1>4
    <3>8. QED BY <3>6, <3>7 DEF Waiting
  <2>4. CASE d # Absent
    <3>1. jobs = {} /\ NoneIn(queue) /\ d = w /\ outgoing = <<>> /\ sub = w.band
      BY <1>1, <2>1, <2>4 DEF OnItsWay
    <3>2. NothingAsked'
      <4>1. jobs' = {} /\ NoneIn(queue') /\ NoneIn(outgoing') /\ delivered' = Absent
        BY <1>3, <3>1 DEF NoneIn
      <4>2. QED BY <4>1 DEF NothingAsked
    <3>3. hmBand' = w.band /\ pending' = Absent /\ outgoing' = <<>> /\ sub' = hmBand'
      BY <1>3, <2>1, <2>4, <3>1
    <3>4. w \in SoundWindow(0, t)
      BY <1>1 DEF HeldWindows
    <3>5. PICK z \in Nat : s \in JoinedCache(t, z, w.band, FirstOf(w)) /\ FirstOf(w) \in Nat
      <4>1. CASE pending = "prepend" /\ c.cols # <<>>
        <5>1. pending # "reset"
          BY <4>1
        <5>2. (w.t1 - w.t0) \div w.n <= 3 * st /\ c \in JoinedCache(t, st, w.band, w.t1 + 1)
          BY <1>1, <1>8, <1>11, <5>1 DEF Awaited
        <5>3. PrependOlder(c, w) \in JoinedCache(t, st, w.band, FirstOf(w)) /\ FirstOf(w) \in Nat
          BY <1>4, <3>4, <5>2, PrependJoins
        <5>4. s = PrependOlder(c, w)
          BY <1>1, <2>4, <3>1, <4>1
        <5>5. QED BY <5>3, <5>4
      <4>2. CASE ~(pending = "prepend" /\ c.cols # <<>>)
        <5>1. PICK z : z = (w.t1 - w.t0) \div w.n
          OBVIOUS
        <5>2. CacheReset(w) \in JoinedCache(t, z, w.band, FirstOf(w)) /\ FirstOf(w) \in Nat /\ z \in Nat
          BY <1>4, <3>4, <5>1, ResetJoins
        <5>3. s = CacheReset(w)
          BY <1>1, <2>4, <3>1, <4>2
        <5>4. QED BY <5>2, <5>3
      <4>3. QED BY <4>1, <4>2
    <3>6. PICK e \in Int : e = FirstOf(w)
      BY <3>5
    <3>7. s \in JoinedCache(t, z, hmBand', e) /\ (Weighed' => view'.band = hmBand' /\ e <= Edge')
      BY <2>2, <3>3, <3>5, <3>6
    <3>8. cache' \in AppendAll(s, live)
      BY <1>2, <1>5
    <3>9. Resting'
      BY <1>4, <1>5, <3>2, <3>3, <3>7, <3>8, FrameShows
    <3>10. QED BY <3>9
  <2>5. QED BY <2>3, <2>4
<1>12. QED BY <1>9, <1>10, <1>11 DEF Waiting

LEMMA NextSettled == HeatIInv /\ SettledIInv /\ [HeatNext]_heatVars => SettledIInv'
<1> SUFFICES ASSUME HeatIInv, SettledIInv, [HeatNext]_heatVars PROVE SettledIInv'
  OBVIOUS
<1>1. ASSUME NEW start \in Starts, NEW priced \in BOOLEAN, Enter(start, priced) PROVE SettledIInv'
  BY <1>1, EnterSettles
<1>2. CASE Exit
  <2>1. open' = FALSE
    BY <1>2 DEF Exit
  <2>2. QED BY <2>1 DEF SettledIInv
<1>3. CASE Refollow \/ \E v \in Spans, b \in Bands : Pan(v, b)
  BY <1>3, GestureSettles
<1>4. CASE RequestVisible
  BY <1>4, RequestSettles
<1>5. CASE Frame
  BY <1>5, FrameSettles
<1>6. CASE HandleControl
  BY <1>6, ControlSettles
<1>7. ASSUME NEW w \in jobs, BuildDone(w) \/ BuildFails(w) PROVE SettledIInv'
  BY <1>7, BuildSettles
<1>8. CASE LivePulse
  BY <1>8, PulseSettles
<1>9. CASE Deliver
  BY <1>9, DeliverSettles
<1>10. CASE Reconnect
  <2>1. clean' = FALSE
    BY <1>10 DEF Reconnect
  <2>2. QED BY <2>1 DEF SettledIInv
<1>11. CASE UNCHANGED heatVars
  <2>1. UNCHANGED <<now, open, view, follow, debouncing, floor, weighed, hmBand, pending, cache, outgoing, delivered,
                    livecols, sub, jobs, queue, requests, faults, clean>>
    BY <1>11 DEF heatVars, ui, stitch, client, daemon
  <2>2. now \in Nat /\ now <= now
    BY HeatConstants DEF HeatIInv, ViewShape
  <2>3. Weighed' => Weighed /\ view' = view /\ floor' = floor
    BY <2>1 DEF Weighed
  <2>4. ASSUME Resting PROVE Resting'
    <3>1. NothingAsked'
      BY <2>1, <2>4 DEF Resting, NothingAsked, NoneIn
    <3>2. QED BY <2>1, <2>2, <2>3, <2>4, <3>1, StillShown
  <2>5. ASSUME NEW w \in HeldWindows(now), Awaited(w) PROVE Waiting'
    <3>1. OnItsWay(w)'
      BY <2>1, <2>5 DEF Awaited, OnItsWay, LastIn, OneIn, NoneIn
    <3>2. QED BY <2>1, <2>2, <2>3, <2>5, <3>1, StillAwaited
  <2>6. QED BY <2>1, <2>4, <2>5 DEF SettledIInv, Waiting
<1>12. QED BY <1>1, <1>2, <1>3, <1>4, <1>5, <1>6, <1>7, <1>8, <1>9, <1>10, <1>11 DEF HeatNext

LEMMA SettledLoads == HeatIInv /\ SettledIInv => SettledMeansLoaded
<1> SUFFICES ASSUME HeatIInv, SettledIInv, Quiet, clean, cache.cols # <<>>
             PROVE  /\ hmBand = cache.band /\ sub = hmBand
                    /\ ~follow /\ weighed =>
                          /\ cache.band = view.band
                          /\ cache.cols[1].ts <= Larger(LeftEdge + 2 * NeedStep,
                                                        cache.cols[Len(cache.cols)].ts - MaxSpan + 3 * cache.step + 1)
  BY DEF SettledMeansLoaded
<1>1. open /\ NothingAsked /\ ~debouncing /\ pending = Absent
  BY NothingIsAsked DEF Quiet
<1>2. ~Waiting
  BY <1>1, OneIsAsked DEF HeatIInv, Waiting, Awaited
<1>3. Shown
  BY <1>1, <1>2 DEF SettledIInv, Resting
<1>4. PICK e \in Int : /\ cache \in JoinedCache(now, cache.step, hmBand, e)
                       /\ Weighed => view.band = hmBand /\ e <= Edge
  BY <1>3 DEF Shown
<1>5. cache.band = hmBand /\ sub = hmBand
  BY <1>3, <1>4 DEF Shown, JoinedCache
<1>6. ASSUME ~follow, weighed
      PROVE  /\ cache.band = view.band
             /\ cache.cols[1].ts <= Larger(LeftEdge + 2 * NeedStep,
                                           cache.cols[Len(cache.cols)].ts - MaxSpan + 3 * cache.step + 1)
  <2>1. view.band = hmBand /\ e <= Edge
    BY <1>1, <1>4, <1>6 DEF Weighed
  <2>2. PICK s, st : s = cache.cols /\ st = cache.step /\ st \in Nat
    BY DEF HeatIInv, SoundCache
  <2>3. s \in SoundCols(0, now) /\ s # <<>> /\ StartsBy(s, st, e)
    BY <1>4, <2>2 DEF JoinedCache, JoinedCols
  <2>4. PICK x \in Int, f \in Int : x = CutAt(s) + Slack(st) /\ f = s[1].ts /\ f <= Larger(e, x)
    <3>1. CutAt(s) \in Int /\ Slack(st) \in Nat
      BY <2>2, <2>3, ColumnTimes, SlackIs
    <3>2. 1 \in 1..Len(s)
      BY <2>3, ColumnTimes
    <3>3. s[1].ts \in Nat
      BY <2>3, <3>2, ColumnTimes
    <3>4. s[1].ts <= Larger(e, CutAt(s) + Slack(st))
      BY <2>3 DEF StartsBy
    <3>5. QED BY <3>1, <3>3, <3>4
  <2>5. x = s[Len(s)].ts - MaxSpan + 3 * st + 1
    <3>1. PICK l \in Nat : l = s[Len(s)].ts
      <4>1. Len(s) \in 1..Len(s)
        BY <2>3, ColumnTimes
      <4>2. QED BY <2>3, <4>1, ColumnTimes
    <3>2. x = CutAt(s) + Slack(st)
      BY <2>4
    <3>3. CutAt(s) = l - MaxSpan /\ Slack(st) = 3 * st + 1
      BY <3>1 DEF CutAt, Slack
    <3>4. st \in Nat /\ MaxSpan \in Nat
      BY <2>2, HeatConstants
    <3>5. QED BY <3>1, <3>2, <3>3, <3>4
  <2>6. f <= Larger(Edge, x)
    <3>1. PICK g \in Int : g = Edge
      <4>1. PICK l \in Int : l = LeftEdge
        BY HeatConstants DEF HeatIInv, ViewShape, LeftEdge, Larger
      <4>2. PICK a \in Int : a = view.hi - l
        BY <4>1 DEF HeatIInv, ViewShape
      <4>3. a \div Px \in Int
        BY HeatConstants
      <4>4. Edge = l + 2 * (a \div Px)
        BY <4>1, <4>2 DEF Edge, NeedStep
      <4>5. QED BY <4>1, <4>3, <4>4
    <3>2. e <= g
      BY <2>1, <3>1
    <3>3. f <= Larger(g, x)
      BY <2>4, <3>2 DEF Larger
    <3>4. QED BY <3>1, <3>3
  <2>7. QED BY <1>5, <2>1, <2>2, <2>4, <2>5, <2>6 DEF Edge
<1>7. QED BY <1>5, <1>6

(* When the requests are answered one at a time and nothing is lost, an idle *)
(* heat-map shows the band the daemon keeps live; once its last gesture was *)
(* weighed with nothing on its way, it shows the band the user looks at and *)
(* is loaded from the view's left edge on, but for two pixels or for what   *)
(* the cache's end cut off (_hm_request_visible, _scan_depth_heatmap and    *)
(* HeatmapCache; the daemon's _send_depth_window and depth_live_loop).      *)
THEOREM SettledHolds == HeatSpec => []SettledMeansLoaded
<1>1. HeatInit => HeatIInv /\ SettledIInv
  BY InitHeatIInv DEF HeatInit, SettledIInv
<1>2. HeatIInv /\ SettledIInv /\ [HeatNext]_heatVars => HeatIInv' /\ SettledIInv'
  BY NextHeatIInv, NextSettled
<1>3. HeatIInv /\ SettledIInv => SettledMeansLoaded
  BY SettledLoads
<1>4. QED BY <1>1, <1>2, <1>3, PTL DEF HeatSpec
=============================================================================
