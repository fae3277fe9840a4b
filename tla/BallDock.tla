------------------------------ MODULE BallDock ------------------------------
(***************************************************************************)
(* The floating ball of the Windows frontend: it is dragged by its window  *)
(* procedure (platform/windows/mod.rs), docks against the left or right    *)
(* edge of the screen where it is dropped, and is drawn by its view        *)
(* (ui/floating.rs), which morphs it between a circle and a smaller        *)
(* square.  The two halves share the window's position, the published size *)
(* of the card, and the queue of tray commands that carries a drop to the  *)
(* view.                                                                   *)
(*                                                                         *)
(* Lengths are in whole units on the horizontal axis.  The card is centred *)
(* in a window of fixed size, so x, its centre, stands for the window's    *)
(* position and a size is half of the card's side.                         *)
(***************************************************************************)
EXTENDS Integers, Sequences

CONSTANTS
  WorkWidth,        \* the monitor's work area is 0..WorkWidth
  Points,           \* where the pointer is taken while dragging
  Grabs,            \* where it takes hold, relative to the card's centre
  MinHalf, MaxHalf, \* half of the ball at no usage and at the reference usage
  PopHalf,          \* what hovering adds
  Steps,            \* frames of a morph that differ
  MaxCommands,      \* bound: tray commands not yet handled
  None

ASSUME BallAssumption ==
  /\ {WorkWidth, MinHalf, MaxHalf, PopHalf, MaxCommands} \subseteq Nat
  /\ Steps \in Nat \ {0}
  /\ Points \subseteq Int /\ Grabs \subseteq Int
  /\ None \notin {"left", "right", "refresh"}

VARIABLES
  usage,      \* 0 or 1: no usage, or the reference usage and more
  hovered,
  published,  \* FLOATING_CARD_FRAC: the card as the last frame drew it
  x,          \* centre of the window, and of the card
  docked, edge, morph, target, moving, pending,  \* FloatingView
  dragging, offset, near,  \* DRAGGING, DRAG_OFFSET, LAST_CLICK is near enough
  pointer,    \* the pointer's place
  cmds,       \* tray commands sent and not yet handled
  dropped,    \* history: what the last drop reported
  framed,     \* history: a frame was drawn of a docked ball since the pointer was followed
  painted     \* history: nothing has changed since the last frame

viewVars == <<docked, edge, morph, target, moving, pending>>
dragVars == <<dragging, offset, near>>
ballVars == <<usage, hovered, published, x, viewVars, dragVars, pointer, cmds, dropped, framed, painted>>

Edges == {"left", "right"}
Refresh == "refresh"
Gap == 1         \* DOCK_GAP
Threshold == 3   \* DOCK_THRESHOLD
Slack == 1       \* HIT_SLACK
IconHalf == 1    \* half of the refresh icon
ShrinkPercent == 38  \* 100 - DOCK_SIDE_RATIO

-----------------------------------------------------------------------------
\* Geometry.

\* The area of the ball follows the usage, and it pops under the pointer.
SphereHalf(u, h) == MinHalf + (MaxHalf - MinHalf) * u + (IF h THEN PopHalf ELSE 0)

CardHalf(sphere, m) == sphere - (sphere * ShrinkPercent * m) \div (100 * Steps)

DockEdgeFor(centre, half) ==
  LET fromLeft  == centre - half
      fromRight == WorkWidth - (centre + half)
  IN  IF fromLeft <= Threshold /\ fromLeft <= fromRight THEN "left"
      ELSE IF fromRight <= Threshold THEN "right"
      ELSE None

\* Where the card's centre is when its outer edge keeps the gap from the screen's.
DockLine(e, half) == IF e = "left" THEN Gap + half ELSE WorkWidth - Gap - half

\* What dock_and_snap makes of a drop here, by the size that was published last.
DropEdge == DockEdgeFor(x, published)

OnTheBall(g) == g \in -(published + Slack) .. published + Slack

-----------------------------------------------------------------------------
BallInit ==
  /\ usage = 0 /\ hovered = FALSE
  /\ published = MinHalf
  /\ x = WorkWidth \div 2
  /\ docked = FALSE /\ edge = None /\ pending = None
  /\ morph = 0 /\ target = 0 /\ moving = FALSE
  /\ dragging = FALSE /\ offset = 0 /\ near = FALSE
  /\ pointer = WorkWidth \div 2
  /\ cmds = <<>> /\ dropped = None
  /\ framed = FALSE /\ painted = FALSE

-----------------------------------------------------------------------------
\* The window procedure.

\* The button goes down on the ball, off its refresh icon.  A second press of a
\* double click gives up the drag the first one began and opens the main window.
Press(g, double) ==
  /\ ~dragging
  /\ OnTheBall(g)
  /\ double => near /\ pointer = x + g
  /\ pointer' = x + g
  /\ near' = TRUE
  /\ IF double
     THEN UNCHANGED <<dragging, offset, framed>>
     ELSE dragging' = TRUE /\ offset' = g /\ framed' = FALSE
  /\ UNCHANGED <<usage, hovered, published, x, viewVars, cmds, dropped, painted>>

PressIcon(g) ==
  /\ ~dragging
  /\ g \in -IconHalf .. IconHalf
  /\ Len(cmds) < MaxCommands
  /\ pointer' = x + g
  /\ cmds' = Append(cmds, Refresh)
  /\ UNCHANGED <<usage, hovered, published, x, viewVars, dragVars, dropped, framed, painted>>

\* The pointer moves, and the window with it while it is dragged.
Move(p) ==
  /\ p # pointer
  /\ pointer' = p
  /\ near' = FALSE
  /\ IF dragging
     THEN x' = p - offset /\ framed' = FALSE /\ painted' = FALSE
     ELSE UNCHANGED <<x, framed, painted>>
  /\ UNCHANGED <<usage, hovered, published, viewVars, dragging, offset, cmds, dropped>>

\* The button goes up: the drop is judged and the window snapped at once, by the
\* size the view last published; the view hears of it through the queue.
Release ==
  LET e == DropEdge IN
  /\ dragging
  /\ Len(cmds) < MaxCommands
  /\ dragging' = FALSE
  /\ x' = IF e = None THEN x ELSE DockLine(e, published)
  /\ cmds' = Append(cmds, e)
  /\ dropped' = e
  /\ painted' = FALSE
  /\ UNCHANGED <<usage, hovered, published, viewVars, offset, near, pointer, framed>>

-----------------------------------------------------------------------------
\* The view.

Hover ==
  /\ hovered' = ~hovered /\ painted' = FALSE
  /\ UNCHANGED <<usage, published, x, viewVars, dragVars, pointer, cmds, dropped, framed>>

SetUsage ==
  /\ usage' = 1 - usage /\ painted' = FALSE
  /\ UNCHANGED <<hovered, published, x, viewVars, dragVars, pointer, cmds, dropped, framed>>

\* Mutation: a morph under way is let finish.
MorphTo_Later(t) ==
  IF t = morph \/ moving
  THEN UNCHANGED <<morph, target, moving>>
  ELSE moving' = TRUE /\ target' = t /\ UNCHANGED morph

\* Starts a morph, unless the ball has that shape already.
MorphTo(t) ==
  IF t = morph
  THEN moving' = FALSE /\ UNCHANGED <<morph, target>>
  ELSE moving' = TRUE /\ target' = t /\ UNCHANGED morph

\* Mutation: coming off the edge leaves the snap owed.
SetDocked_KeepsSnap(e) ==
  LET toDock == e # None
      noOp   == docked = toDock /\ (~toDock \/ e = edge)
  IN  /\ edge' = IF toDock THEN e ELSE edge
      /\ pending' = IF toDock /\ docked /\ e # edge THEN e ELSE pending
      /\ IF noOp
         THEN UNCHANGED <<docked, morph, target, moving>>
         ELSE docked' = toDock /\ MorphTo(IF toDock THEN Steps ELSE 0)

SetDocked(e) ==
  LET toDock == e # None
      noOp   == docked = toDock /\ (~toDock \/ e = edge)
  IN  /\ edge' = IF toDock THEN e ELSE edge
      /\ pending' = IF ~toDock THEN None
                    ELSE IF docked /\ e # edge THEN e ELSE pending
      /\ IF noOp
         THEN UNCHANGED <<docked, morph, target, moving>>
         ELSE docked' = toDock /\ MorphTo(IF toDock THEN Steps ELSE 0)

\* The loop over the tray's commands takes the next one.
HandleCommand ==
  /\ cmds # <<>>
  /\ cmds' = Tail(cmds)
  /\ IF Head(cmds) = Refresh THEN UNCHANGED <<viewVars, painted>>
     ELSE SetDocked(Head(cmds)) /\ painted' = FALSE
  /\ UNCHANGED <<usage, hovered, published, x, dragVars, pointer, dropped, framed>>

\* What advance_morph can find: any shape from the present one to the target.
Advanced == IF ~moving THEN {morph} ELSE IF target > morph THEN morph .. target ELSE target .. morph

\* What the morph leaves behind when a frame finds it at m: landed, it owes a
\* snap to the edge it docked at, or lets go of the edge it came from.
AfterMorph(m) ==
  LET landed == moving /\ m = target
  IN  [moving  |-> moving /\ ~landed,
       edge    |-> IF landed /\ target = 0 /\ ~docked THEN None ELSE edge,
       pending |-> IF landed /\ target = Steps /\ edge # None THEN edge ELSE pending]

\* A frame: the morph advances, the card's size is published, a docked card is
\* put on its line, and a snap that is owed is done.
Frame(m) ==
  LET after == AfterMorph(m)
      half  == CardHalf(SphereHalf(usage, hovered), m)
      aimed == IF docked /\ after.edge # None THEN DockLine(after.edge, half) ELSE x
  IN  /\ morph' = m
      /\ moving' = after.moving
      /\ edge' = after.edge
      /\ pending' = None
      /\ published' = half
      /\ x' = IF after.pending # None THEN DockLine(after.pending, half) ELSE aimed
      /\ framed' = (framed \/ (dragging /\ docked))
      /\ painted' = TRUE
      /\ UNCHANGED <<usage, hovered, docked, target, dragVars, pointer, cmds, dropped>>

-----------------------------------------------------------------------------
BallNext ==
  \/ \E g \in Grabs, double \in BOOLEAN : Press(g, double)
  \/ \E g \in Grabs : PressIcon(g)
  \/ \E p \in Points : Move(p)
  \/ Release
  \/ Hover
  \/ SetUsage
  \/ HandleCommand
  \/ \E m \in Advanced : Frame(m)

BallSpec == BallInit /\ [][BallNext]_ballVars

-----------------------------------------------------------------------------
BallTypeOK ==
  /\ usage \in 0 .. 1
  /\ {hovered, docked, moving, dragging, near, framed, painted} \subseteq BOOLEAN
  /\ {published, x, offset, pointer} \subseteq Int
  /\ morph \in 0 .. Steps /\ target \in {0, Steps}
  /\ {edge, pending, dropped} \subseteq Edges \cup {None}
  /\ cmds \in Seq(Edges \cup {None, Refresh}) /\ Len(cmds) <= MaxCommands

Reported(i) == cmds[i] # Refresh

\* The form and the edge the view is aiming at are those of the last drop the
\* window procedure reported, however late the reports are handled, in the
\* middle of whatever morph, and however often a drop repeats another.
DockFollowsDrop ==
  \/ \E i \in DOMAIN cmds :
        /\ Reported(i) /\ cmds[i] = dropped
        /\ \A j \in DOMAIN cmds : Reported(j) => j <= i
  \/ /\ \A i \in DOMAIN cmds : ~Reported(i)
     /\ docked = (dropped # None)
     /\ docked => edge = dropped

\* A snap that is owed is owed to the edge the ball is docked at: coming off the
\* edge cancels it, and docking elsewhere redirects it.
OwedSnapIsCurrent == pending # None => docked /\ pending = edge

\* No writer of the window's position gets between the pointer and a ball that
\* is dragged, except a frame drawn while the view still holds it docked.
DragFollowsPointer == dragging /\ ~framed => x = pointer - offset

\* Once everything is handled and drawn, shape, position and edge agree: a
\* square with its outer edge on the gap of the edge it was dropped at, or a
\* circle.
RestingBallIsWhole ==
  painted /\ ~moving /\ ~dragging /\ cmds = <<>> =>
    /\ published = CardHalf(SphereHalf(usage, hovered), morph)
    /\ IF docked THEN morph = Steps /\ x = DockLine(dropped, published)
                 ELSE morph = 0

BallInv == BallTypeOK /\ DockFollowsDrop /\ OwedSnapIsCurrent /\ DragFollowsPointer
=============================================================================
