------------------------------ MODULE SshTunnel ------------------------------
(***************************************************************************)
(* The terminals' SSH tunnel (app/terminal.py, SSHTunnelManager): every    *)
(* terminal checks the port when it starts and when its Refresh button is  *)
(* pressed, launches a gcloud process when nothing serves the port, and    *)
(* kills the process its handle names when it quits.  Several terminals    *)
(* run on one machine and share the port.                                  *)
(*                                                                         *)
(* A launch is an entry of `launches`; its process is starting (the SSH    *)
(* session is not up yet), up (it forwards the port), idle (alive, but     *)
(* another process had taken the port) or dead.  That ssh stays alive when *)
(* the port is taken is its default (ExitOnForwardFailure is not set).     *)
(***************************************************************************)
EXTENDS Naturals, Sequences

CONSTANTS
    TunnelApps,     \* the terminals of one machine
    MaxLaunches     \* bound: how many times a tunnel is launched

VARIABLES
    running,        \* the terminals that run
    handle,         \* _proc of each terminal: the launch it would kill, 0 = None
    launches,       \* every launch made: its terminal and its process
    served          \* a daemon of this machine serves the port

tunnelVars == <<running, handle, launches, served>>

Alive(p) == launches[p].state # "dead"

\* _ipc_port_open: something accepts connections on the port.
PortOpen == served \/ \E p \in DOMAIN launches : launches[p].state = "up"

TunnelInit ==
    /\ running = {}
    /\ handle = [a \in TunnelApps |-> 0]
    /\ launches = <<>>
    /\ served \in BOOLEAN

\* ensure with nothing on the port: Popen makes a process, which replaces the
\* handle whatever the old one was doing, or raises, which clears it.
Launch(a) ==
    /\ Len(launches) < MaxLaunches
    /\ \E started \in BOOLEAN :
        /\ launches' = Append(launches,
               [app |-> a, state |-> IF started THEN "starting" ELSE "dead"])
        /\ handle' = [handle EXCEPT ![a] = IF started THEN Len(launches) + 1 ELSE 0]

\* A planted fault: the port's owner is found by another way and the handle dropped.
Reuse_DropsTheHandle(a) == handle' = [handle EXCEPT ![a] = 0] /\ UNCHANGED launches

\* ensure with the port served: the tunnel is used as it is.  (So it is when
\* gcloud is not installed: nothing is launched.)
Reuse(a) == UNCHANGED <<handle, launches>>

EnsureTunnel(a) ==
    \/ ~PortOpen /\ Launch(a)
    \/ PortOpen /\ Reuse(a)

\* main: a terminal starts and ensures its tunnel before its first window.
StartApp(a) ==
    /\ a \notin running
    /\ running' = running \cup {a}
    /\ EnsureTunnel(a)
    /\ UNCHANGED served

\* _refresh: the Refresh button relaunches the tunnel if the port is closed.
RefreshTunnel(a) ==
    /\ a \in running
    /\ EnsureTunnel(a)
    /\ UNCHANGED <<running, served>>

\* main's teardown (aboutToQuit, then the finally): the process of the handle is
\* killed with its tree, in whatever state it is, and the handle cleared.
QuitApp(a) ==
    /\ a \in running
    /\ running' = running \ {a}
    /\ handle' = [handle EXCEPT ![a] = 0]
    /\ launches' = [p \in DOMAIN launches |->
                       IF p = handle[a] THEN [launches[p] EXCEPT !.state = "dead"]
                       ELSE launches[p]]
    /\ UNCHANGED served

\* The SSH session comes up and forwards the port, unless it is taken.
ComeUp(p) ==
    /\ launches[p].state = "starting"
    /\ launches' = [launches EXCEPT ![p].state = IF PortOpen THEN "idle" ELSE "up"]
    /\ UNCHANGED <<running, handle, served>>

\* The SSH session is lost and its process ends.
Die(p) ==
    /\ Alive(p)
    /\ launches' = [launches EXCEPT ![p].state = "dead"]
    /\ UNCHANGED <<running, handle, served>>

\* The machine's own daemon stops.
DaemonStops ==
    /\ served
    /\ served' = FALSE
    /\ UNCHANGED <<running, handle, launches>>

TunnelNext ==
    \/ \E a \in TunnelApps : StartApp(a) \/ RefreshTunnel(a) \/ QuitApp(a)
    \/ \E p \in DOMAIN launches : ComeUp(p) \/ Die(p)
    \/ DaemonStops

TunnelSpec == TunnelInit /\ [][TunnelNext]_tunnelVars

-----------------------------------------------------------------------------

\* The variables have their types, and a handle names a process its own running
\* terminal launched (SSHTunnelManager._proc).
TunnelTypeOK ==
    /\ running \subseteq TunnelApps
    /\ handle \in [TunnelApps -> 0..Len(launches)]
    /\ \A p \in DOMAIN launches : launches[p] \in
           [app : TunnelApps, state : {"starting", "up", "idle", "dead"}]
    /\ served \in BOOLEAN
    /\ \A a \in TunnelApps : handle[a] # 0 =>
           a \in running /\ launches[handle[a]].app = a

\* A process that outlives its terminal had been superseded: the same terminal
\* called Popen again while it was alive (stop kills the handle's process, and
\* a launch while the first is still coming up replaces the handle).
OnlySupersededTunnelsLeak ==
    \A p \in DOMAIN launches :
        Alive(p) /\ launches[p].app \notin running =>
            \E q \in DOMAIN launches : q > p /\ launches[q].app = launches[p].app

\* The handle accounts for every process of its terminal but the superseded ones.
TunnelsAreAccounted == TunnelTypeOK /\ OnlySupersededTunnelsLeak
=============================================================================
