------------------------------ MODULE MCTerminal ------------------------------
(***************************************************************************)
(* A small instance of four parts of a terminal window: the canvas, the    *)
(* readouts of the selection box, the audio feed and the SSH tunnel.  They *)
(* share no state but the frame that runs the first three, and no property *)
(* relates two of them, so a behaviour takes the steps of one part only    *)
(* and the state spaces add up instead of multiplying.                     *)
(***************************************************************************)
EXTENDS TerminalCanvas, TerminalSelection, SshTunnel, AudioFeed

\* Two timeframes of one bucket size, trades that half fill a bucket.
MCTargets == <<2, 2>>
MCTrades  == {1}
MCOthers  == {[n |-> 2, t |-> 1]}
MCAnchors == {0, 1}

MCSelTargets == <<1, 2>>
MCSelBoxes   == {<<0, 1>>, <<1, 1>>}

MCPast == [s \in Scales |-> IF s = 1 THEN {"h1"} ELSE {"h2"}]

VARIABLE part   \* the part whose steps the behaviour takes

vars == <<part, canvasVars, selectionVars, tunnelVars, audioVars>>

InCanvas(A) ==
    part = "canvas" /\ A /\ UNCHANGED <<part, selectionVars, tunnelVars, audioVars>>
InSelection(A) ==
    part = "selection" /\ A /\ UNCHANGED <<part, canvasVars, tunnelVars, audioVars>>
InTunnel(A) ==
    part = "tunnel" /\ A /\ UNCHANGED <<part, canvasVars, selectionVars, audioVars>>
InAudio(A) ==
    part = "audio" /\ A /\ UNCHANGED <<part, canvasVars, selectionVars, tunnelVars>>

Init ==
    /\ part \in {"canvas", "selection", "tunnel", "audio"}
    /\ CanvasInit /\ SelectionInit /\ TunnelInit /\ AudioInit
    /\ part # "tunnel" => ~served

Next ==
    \/ InCanvas(CanvasNext)
    \/ InSelection(SelectionNext)
    \/ InTunnel(TunnelNext)
    \/ InAudio(AudioNext)

\* The loops go on: live_edge_loop, the worker thread, the 20 Hz timer.
CanvasFairness ==
    /\ WF_vars(InCanvas(Pulse))
    /\ WF_vars(InCanvas(Deliver))
    /\ WF_vars(InCanvas(Frame))

\* ... and the daemon's command and recompute loops.  A subscription and the end
\* of a rescan wait for room on the wire, a bound the code does not have: strong
\* fairness takes its place.
AudioFairness ==
    /\ WF_vars(InAudio(Connect))
    /\ SF_vars(InAudio(Subscribe))
    /\ WF_vars(InAudio(DeliverMatrix))
    /\ WF_vars(InAudio(StartRescan))
    /\ SF_vars(InAudio(Rescanned))
    /\ WF_vars(InAudio(AnnounceFrame))

Spec == Init /\ [][Next]_vars /\ CanvasFairness /\ AudioFairness
=============================================================================
