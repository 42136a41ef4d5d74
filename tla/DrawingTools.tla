------------------------------ MODULE DrawingTools ------------------------------
(* The drawing toolbar of the terminal (drawing_tools.py) with the mode switch
   that locks it (terminal.py).  Each window keeps two lists of drawings: the
   time-space ones, loaded from data/drawings.json and written back there, and
   the index-space ones drawn on the Mode 10 canvas, which live in memory only.
   Windows share the one file: every save writes the window's own lists over
   it, in place.

   A drawing is a model value with a kind; what it looks like is a Boolean that
   an edit flips.  The geometry of a shape is kept only while its edit dots are
   attached (met with any of Geometries).  A window of this module
   may be a second window of one program or a program of its own: the second
   case has every interleaving of the first and more. *)
EXTENDS Integers, FiniteSets, Functions

CONSTANTS
  Windows,       \* MinimalTerminalWindow objects that share the drawings file
  Editors,       \* a bound: in the other windows the user only erases
  Stored,        \* drawings the file may hold when the first window opens
  Session,       \* drawings the user makes
  KindOf,        \* [Stored \cup Session -> Kinds]
  Geometries,    \* the points a shape is met with
  Grid,          \* coordinates the cursor can be at
  DragsShared,   \* a bound: are dots dragged once the file has been shared?
  MaxX,          \* bound on what Expand widens a rectangle to
  MaxCrashes,    \* bound on the windows that die without closing
  None

Drawings == Stored \cup Session
Brackets == {d \in Drawings : KindOf[d] = "bracket"}
TwoPoint == {"rect", "ellipse", "line"}          \* trend, ray and measure are lines
Kinds    == TwoPoint \cup {"hline", "vline", "bracket"}
Tools    == {"none", "select", "magic_select", "eraser", "draw"}

---------------------------------------------------------------------------
(* The dots of a shape: where _specs puts each role (which point supplies x,
   which y; 0 is the midpoint, doubled coordinates) and which coordinates of
   which point _on_drag writes. *)
SpecOf ==
  [rect    |-> [c_tl |-> <<1, 1>>, c_tr |-> <<2, 1>>, c_bl |-> <<1, 2>>, c_br |-> <<2, 2>>,
                e_t |-> <<0, 1>>, e_b |-> <<0, 2>>, e_l |-> <<1, 0>>, e_r |-> <<2, 0>>],
   ellipse |-> [center |-> <<0, 0>>, corner |-> <<2, 2>>],
   line    |-> [p0 |-> <<1, 1>>, p1 |-> <<2, 2>>],
   hline   |-> [hline |-> <<0, 1>>],
   vline   |-> [vline |-> <<1, 0>>]]

DragOf ==
  [hline |-> {<<1, 2>>}, vline |-> {<<1, 1>>}, p0 |-> {<<1, 1>>, <<1, 2>>},
   p1 |-> {<<2, 1>>, <<2, 2>>}, corner |-> {<<2, 1>>, <<2, 2>>}, center |-> {},
   c_tl |-> {<<1, 1>>, <<1, 2>>}, c_tr |-> {<<2, 1>>, <<1, 2>>},
   c_bl |-> {<<1, 1>>, <<2, 2>>}, c_br |-> {<<2, 1>>, <<2, 2>>},
   e_t |-> {<<1, 2>>}, e_b |-> {<<2, 2>>}, e_l |-> {<<1, 1>>}, e_r |-> {<<2, 1>>}]

Roles == DOMAIN DragOf

(* A set of drawings with their looks, the points of a shape and of a dot, and
   a shape with its dots shown. *)
Looks  == UNION {[S -> BOOLEAN] : S \in SUBSET Drawings}
Shapes == [1..2 -> [1..2 -> 0..MaxX]]
Dots   == UNION {[R -> [1..2 -> Int]] : R \in SUBSET Roles}
Edits  == [id : Drawings, pts : Shapes, dots : Dots]

ASSUME DrawingAssumption ==
  /\ Stored \cap Session = {} /\ Editors \subseteq Windows
  /\ KindOf \in [Drawings -> Kinds]
  /\ Grid \subseteq 0..MaxX /\ Geometries \subseteq Shapes
  /\ MaxX \in Nat /\ DragsShared \in BOOLEAN /\ MaxCrashes \in Nat
  /\ None \notin Drawings \cup Roles \cup Looks \cup Edits

VARIABLES
  win,       \* per window, what it holds (see Fresh)
  file,      \* data/drawings.json: None when it cannot be read, else [drawing |-> look]
  shared,    \* a window was opened while another was open (history)
  crashes

vars == <<win, file, shared, crashes>>

---------------------------------------------------------------------------
Specs(kind, pts) ==
  [r \in DOMAIN SpecOf[kind] |->
     [a \in 1..2 |-> LET i == SpecOf[kind][r][a]
                     IN IF i = 0 THEN pts[1][a] + pts[2][a] ELSE 2 * pts[i][a]]]

(* Mutant: a dot writes both coordinates of every point it touches. *)
Dragged_BothWays(pts, role, c) ==
  [i \in 1..2 |-> [a \in 1..2 |->
     IF \E b \in 1..2 : <<i, b>> \in DragOf[role] THEN c[a] \div 2 ELSE pts[i][a]]]

(* _on_drag: the dot of a role moved to the (doubled) position c. *)
Dragged(pts, role, c) ==
  [i \in 1..2 |-> [a \in 1..2 |->
     IF role = "center" THEN pts[i][a] + (c[a] - pts[1][a] - pts[2][a]) \div 2
     ELSE IF <<i, a>> \in DragOf[role] THEN c[a] \div 2 ELSE pts[i][a]]]

(* The shape whose dots are shown, and where they are. *)
Attach(d, pts) == [id |-> d, pts |-> pts, dots |-> Specs(KindOf[d], pts)]

(* _reposition(exclude): the other dots are put back on the shape. *)
Reposition(e, pts, exclude) ==
  [e EXCEPT !.pts = pts,
            !.dots = [r \in DOMAIN @ |-> IF r = exclude THEN @[r] ELSE Specs(KindOf[e.id], pts)[r]]]

---------------------------------------------------------------------------
(* DrawingController.__init__: nothing armed, not locked, time space.  todo
   are the brackets of the file that _load has not built yet; held is the role of
   the dot the mouse is dragging. *)
Fresh ==
  [phase |-> "closed", canvas |-> TRUE, locked |-> FALSE, index |-> FALSE, tool |-> "none",
   own |-> <<>>, todo |-> <<>>, idx |-> {}, live |-> FALSE, sel |-> FALSE,
   edit |-> None, held |-> None, panel |-> None]

Init ==
  /\ win = [w \in Windows |-> Fresh]
  /\ file \in {None} \cup {[d \in S |-> FALSE] : S \in SUBSET Stored}
  /\ shared = FALSE
  /\ crashes = 0

Holds(x)     == DOMAIN x.own \cup x.idx
Without(f, D)   == [d \in DOMAIN f \ D |-> f[d]]
IsOpen(w)    == win[w].phase = "open"
Usable(w)    == IsOpen(w) /\ ~win[w].locked
AtRest(x)    == ~x.live /\ x.held = None

(* Mutant: the brackets are left out of the file. *)
Payload_ShapesOnly(x) == Without(x.own, Brackets)

(* _save writes the window's time-space lists, and nothing else, over the file. *)
Payload(x) == x.own
Stays(w, x) == win' = [win EXCEPT ![w] = x] /\ UNCHANGED <<file, shared, crashes>>
Saves(w, x) == win' = [win EXCEPT ![w] = x] /\ file' = Payload(x) /\ UNCHANGED <<shared, crashes>>

(* set_tool: a half-drawn shape and the dots are dropped; the panel survives
   only under "select". *)
Armed(x, tool) ==
  [x EXCEPT !.tool = tool, !.live = FALSE, !.edit = None,
            !.panel = IF tool = "select" THEN @ ELSE None]
Cancelled(x) == Armed(x, "none")

(* clear_all, the toolbar's trash: all four lists, the dots and the selection.
   set_tool returns before it hides the panel. *)
Trashed(x) ==
  [x EXCEPT !.own = <<>>, !.idx = {}, !.edit = None, !.sel = FALSE, !.live = FALSE]

(* Mutant: the selection is not cleared with the canvas. *)
Switched_KeepsSelection(x, toCanvas) ==
  LET z == [x EXCEPT !.canvas = toCanvas, !.locked = ~toCanvas, !.index = toCanvas]
  IN IF toCanvas THEN z ELSE Cancelled(z)

(* The part of _set_scanner that concerns the drawings. *)
Switched(x, toCanvas) ==
  LET y == IF x.canvas /\ ~toCanvas THEN [x EXCEPT !.edit = None, !.sel = FALSE] ELSE x
      z == [y EXCEPT !.canvas = toCanvas, !.locked = ~toCanvas, !.index = toCanvas]
  IN IF toCanvas THEN z ELSE Cancelled(z)

---------------------------------------------------------------------------
(* _load at window construction: the shapes at once; each bracket is then built
   by _make_bracket, which saves what has been loaded so far.  Another program
   may be between truncating the file and writing it: then nothing is read. *)
Open(w) ==
  /\ win[w].phase = "closed"
  /\ \E read \in {file} \cup {None : v \in {u \in Windows \ {w} : win[u].phase # "closed"}} :
       LET data == IF read = None THEN <<>> ELSE read
       IN win' = [win EXCEPT ![w] = [Fresh EXCEPT !.phase = "loading",
                    !.own = Without(data, Brackets), !.todo = Restrict(data, DOMAIN data \cap Brackets)]]
  /\ shared' = \E u \in Windows \ {w} : win[u].phase # "closed"
  /\ UNCHANGED <<file, crashes>>

(* One bracket of the file built: not in index space yet, so it is saved. *)
LoadBracket(w) ==
  /\ win[w].phase = "loading"
  /\ \E d \in DOMAIN win[w].todo :
       LET x == [win[w] EXCEPT !.own = [e \in DOMAIN @ \cup {d} |->
                                          IF e = d THEN win[w].todo[d] ELSE @[e]],
                               !.todo = Without(@, {d})]
       IN Saves(w, x)

(* The rest of the window's construction ends with _set_scanner("bucket_canvas"). *)
Opened(w) ==
  /\ win[w].phase = "loading" /\ win[w].todo = <<>>
  /\ Stays(w, [Switched(win[w], TRUE) EXCEPT !.phase = "open"])

Close(w) ==
  /\ IsOpen(w)
  /\ Stays(w, Fresh)

(* A window that dies, possibly between the truncation and the end of a save. *)
Crash(w) ==
  /\ win[w].phase # "closed" /\ crashes < MaxCrashes
  /\ crashes' = crashes + 1
  /\ win' = [win EXCEPT ![w] = Fresh]
  /\ file' \in {file, None}
  /\ UNCHANGED shared

(* The scanner combo; the mouse is not holding anything. *)
SetScanner(w) ==
  /\ IsOpen(w) /\ AtRest(win[w]) /\ w \in Editors
  /\ \E c \in BOOLEAN : Stays(w, Switched(win[w], c))

(* A toolbar button.  The trash works in every mode. *)
SetTool(w) ==
  /\ IsOpen(w) /\ AtRest(win[w])
  /\ \/ \E t \in IF w \in Editors THEN Tools \ {"none"} ELSE {"eraser"} : Stays(w, Armed(win[w], t))
     \/ Saves(w, Trashed(win[w]))

(* Escape, or the toolbar hidden: at any time, in the middle of a drag too. *)
Cancel(w) ==
  /\ IsOpen(w)
  /\ Stays(w, Cancelled(win[w]))

(* The press of a drag with a tool armed: the rubber band appears; a magic
   drag replaces the selection. *)
BeginDraw(w) ==
  /\ Usable(w) /\ AtRest(win[w]) /\ win[w].tool \in {"magic_select", "draw"}
  /\ Stays(w, [win[w] EXCEPT !.live = TRUE, !.sel = IF win[w].tool = "magic_select" THEN FALSE ELSE @])

(* The release: the rubber band goes, the drawing is kept in the list of the
   space the window is in, and the cursor tool is back.  A selection of no area
   is ignored. *)
FinishDraw(w) ==
  LET x == [win[w] EXCEPT !.live = FALSE] IN
  /\ Usable(w) /\ x # win[w]
  /\ \/ x.tool = "magic_select" /\ \E made \in BOOLEAN : Stays(w, Armed([x EXCEPT !.sel = made], "select"))
     \/ /\ x.tool = "draw"
        /\ \E d \in Session \ UNION {Holds(win[u]) : u \in Windows} :
             IF x.index THEN Stays(w, Armed([x EXCEPT !.idx = @ \cup {d}], "select"))
             ELSE Saves(w, Armed([x EXCEPT !.own = [e \in DOMAIN @ \cup {d} |->
                                     IF e = d THEN FALSE ELSE @[e]]], "select"))

(* A click with the cursor tool: a shape near it is bound to the panel and gets
   its dots, whichever list it is in; on nothing both go. *)
SelectAt(w) ==
  /\ Usable(w) /\ AtRest(win[w]) /\ win[w].tool = "select"
  /\ \/ \E d \in Holds(win[w]) \ Brackets, pts \in Geometries :
          Stays(w, [win[w] EXCEPT !.panel = d, !.edit = Attach(d, pts)])
     \/ Stays(w, [win[w] EXCEPT !.panel = None, !.edit = None])

(* A click with the eraser: every drawing near it, in all four lists, and the
   selection if the click is inside; the dots go and the window saves. *)
EraseAt(w) ==
  /\ Usable(w) /\ AtRest(win[w]) /\ win[w].tool = "eraser"
  /\ \E E \in SUBSET Holds(win[w]), inside \in BOOLEAN :
       Saves(w, [win[w] EXCEPT !.own = Without(@, E), !.idx = @ \ E, !.edit = None,
                               !.sel = IF inside THEN FALSE ELSE @])

Flip(x, d) == IF d \in DOMAIN x.own THEN [x EXCEPT !.own[d] = ~@] ELSE x

(* A dot is dragged: the shape follows at once, and is saved only on release. *)
DragDot(w) ==
  /\ IsOpen(w) /\ win[w].edit # None /\ ~win[w].live /\ (shared => DragsShared)
  /\ LET e == win[w].edit IN
     \E r \in DOMAIN e.dots, cx, cy \in Grid :
       LET c == <<2 * cx, 2 * cy>>  pts == Dragged(e.pts, r, c) IN
       /\ win[w].held \in {None, r}
       /\ \A i, a \in 1..2 : pts[i][a] \in 0..MaxX
       /\ r = "center" => \A a \in 1..2 : (c[a] - e.pts[1][a] - e.pts[2][a]) % 2 = 0
       /\ Stays(w, [(IF win[w].held = None THEN Flip(win[w], e.id) ELSE win[w]) EXCEPT
                      !.held = r, !.edit = Reposition([e EXCEPT !.dots[r] = c], pts, r)])

(* Mutant: the release is not connected to _save. *)
ReleaseDot_Unsaved(w) ==
  /\ IsOpen(w) /\ win[w].held # None
  /\ Stays(w, [win[w] EXCEPT !.held = None,
                 !.edit = IF @ = None THEN None ELSE Reposition(@, @.pts, None)])

(* The release puts the dragged dot back on the shape, and the window saves: a
   dot dropped in the middle of its drag is still told of the release. *)
ReleaseDot(w) ==
  /\ IsOpen(w) /\ win[w].held # None
  /\ Saves(w, [win[w] EXCEPT !.held = None,
                 !.edit = IF @ = None THEN None ELSE Reposition(@, @.pts, None)])

(* _expand: half the width is added on one side, whichever point that is. *)
Expanded(pts, direction) ==
  LET x0 == pts[1][1]  x1 == pts[2][1]
      step == (IF x1 >= x0 THEN x1 - x0 ELSE x0 - x1) \div 2
  IN IF direction = "right"
     THEN IF x1 >= x0 THEN [pts EXCEPT ![2][1] = x1 + step] ELSE [pts EXCEPT ![1][1] = x0 + step]
     ELSE IF x0 <= x1 THEN [pts EXCEPT ![1][1] = x0 - step] ELSE [pts EXCEPT ![2][1] = x1 - step]

(* The panel: a colour, width or fill edit, or an expansion of a rectangle.
   The window saves and the dots are put back on the shape. *)
EditPanel(w) ==
  /\ IsOpen(w) /\ AtRest(win[w]) /\ win[w].panel # None
  /\ LET x == Flip(win[w], win[w].panel) IN
     \/ Saves(w, x)
     \/ /\ x.edit # None /\ KindOf[x.panel] = "rect"
        /\ \E side \in {"left", "right"} :
             LET pts == Expanded(x.edit.pts, side) IN
             /\ (x.edit.pts[1][1] - x.edit.pts[2][1]) % 2 = 0
             /\ pts # x.edit.pts /\ \A i \in 1..2 : pts[i][1] \in 0..MaxX
             /\ Saves(w, [x EXCEPT !.edit = Reposition(x.edit, pts, None)])

(* A line of a bracket is dragged: every move saves when the bracket came from
   the file, in every mode and with every tool. *)
DragBracketLine(w) ==
  /\ IsOpen(w) /\ AtRest(win[w]) /\ w \in Editors
  /\ \E d \in DOMAIN win[w].own \cap Brackets : Saves(w, Flip(win[w], d))

WindowStep(w) ==
  \/ Open(w) \/ LoadBracket(w) \/ Opened(w) \/ Close(w) \/ Crash(w)
  \/ SetScanner(w) \/ SetTool(w) \/ Cancel(w)
  \/ BeginDraw(w) \/ FinishDraw(w) \/ SelectAt(w) \/ EraseAt(w)
  \/ DragDot(w) \/ ReleaseDot(w) \/ EditPanel(w) \/ DragBracketLine(w)

Next == \E w \in Windows : WindowStep(w)
Spec == Init /\ [][Next]_vars

---------------------------------------------------------------------------
TypeOK ==
  /\ file = None \/ (DOMAIN file \subseteq Drawings /\ \A d \in DOMAIN file : file[d] \in BOOLEAN)
  /\ shared \in BOOLEAN /\ crashes \in 0..MaxCrashes
  /\ \A w \in Windows : LET x == win[w] IN
       /\ x.phase \in {"closed", "loading", "open"} /\ x.tool \in Tools
       /\ {x.canvas, x.locked, x.index, x.live, x.sel} \subseteq BOOLEAN
       /\ DOMAIN x.own \cap x.idx = {} /\ Holds(x) \subseteq Drawings
       /\ DOMAIN x.todo \subseteq Brackets
       /\ x.panel \in Drawings \cup {None}
       /\ x.edit # None => \A i, a \in 1..2 : x.edit.pts[i][a] \in 0..MaxX
       /\ x.phase = "open" => x.locked = ~x.canvas /\ x.index = x.canvas

(* What is drawn on the Mode 10 canvas stays in memory: it reaches neither the
   file nor the list that is written to it, over every switch of mode. *)
SessionDrawingsStayInMemory ==
  /\ file # None => DOMAIN file \cap Session = {}
  /\ \A w \in Windows : DOMAIN win[w].own \subseteq Stored

(* A window that never shared the file with another holds exactly what the file
   holds, with the looks it shows, whenever no dot is being dragged: every edit,
   erasure and trash has been written, and nothing erased can come back. *)
LoneWindowOwnsTheFile ==
  ~shared => \A w \in Windows :
    IsOpen(w) /\ win[w].held = None =>
      IF file = None THEN win[w].own = <<>> ELSE file = win[w].own

(* The edit dots are those of a drawing the window still holds, and sit on it:
   all but the one under the mouse. *)
DotsSitOnTheShape ==
  \A w \in Windows : LET e == win[w].edit IN
    e # None =>
      /\ e.id \in Holds(win[w])
      /\ \A r \in DOMAIN e.dots \ {win[w].held} : e.dots[r] = Specs(KindOf[e.id], e.pts)[r]

(* Outside the canvas nothing can be edited: no dots, panel, selection or half-
   drawn shape survives the switch to another mode. *)
OnlyTheCanvasIsEdited ==
  \A w \in Windows : IsOpen(w) /\ ~win[w].canvas =>
    /\ win[w].edit = None /\ win[w].panel = None
    /\ ~win[w].sel /\ ~win[w].live

Opposite ==
  [c_tl |-> "c_br", c_br |-> "c_tl", c_tr |-> "c_bl", c_bl |-> "c_tr", e_t |-> "e_b",
   e_b |-> "e_t", e_l |-> "e_r", e_r |-> "e_l", p0 |-> "p1", p1 |-> "p0"]

OneWay == {"e_t", "e_b", "e_l", "e_r", "hline", "vline"}

(* Dragging a dot moves that point of the shape under the mouse (an edge dot:
   in one coordinate) and leaves the opposite point where it was. *)
DragMovesOnlyItsSide ==
  [][\A w \in Windows : LET e == win[w].edit  f == win'[w].edit  r == win'[w].held IN
       e # None /\ f # None /\ r # None =>
         LET was == Specs(KindOf[e.id], e.pts)  now == Specs(KindOf[f.id], f.pts) IN
         /\ r \notin OneWay => now[r] = f.dots[r]
         /\ r \in OneWay => \E i \in 1..2 : now[r][i] = f.dots[r][i] /\ now[r][3 - i] = was[r][3 - i]
         /\ r \in DOMAIN Opposite => now[Opposite[r]] = was[Opposite[r]]]_vars

Readable(f, d) == IF f = None THEN FALSE ELSE d \in DOMAIN f

(* A drawing leaves the file only when a window erases it; when a window that
   shares the file saves a list that never had it; for as long as a window that
   is starting has not read that bracket yet; or when a window dies in a save. *)
LostOnlyWhenErasedOrShared ==
  [][\A d \in Drawings : Readable(file, d) /\ ~Readable(file', d) =>
       \/ crashes' # crashes
       \/ \E w \in Windows :
            \/ IsOpen(w) /\ d \in DOMAIN win[w].own \ DOMAIN win'[w].own
            \/ win'[w].phase = "loading" /\ d \in DOMAIN win'[w].todo
            \/ shared /\ win[w].phase # "closed" /\ d \notin DOMAIN win[w].own]_vars

(* Of two kinds of drawing one lives in the file and one in memory, and neither
   leaks into the other or gets lost while one window is open. *)
FileAndMemoryAgree == SessionDrawingsStayInMemory /\ LoneWindowOwnsTheFile

(* Editing happens on the canvas, and the dots are where the shape is. *)
EditsFollowTheCanvas == TypeOK /\ DotsSitOnTheShape /\ OnlyTheCanvasIsEdited
=============================================================================
