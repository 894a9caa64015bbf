------------------------------- MODULE Drawer -------------------------------
(***************************************************************************)
(* DropDownMenuLayout: a drawer above its content, pulled down by a drag   *)
(* over the content's upper end, pushed up again by a drag, or opened and  *)
(* closed by the toolbar, whose button another finger may press during a   *)
(* drag.  The layout takes the touches away from its children by sending   *)
(* them a CANCEL and changing the action of the event under way to DOWN;   *)
(* what no child consumes comes back to its own onTouchEvent.  Heights are *)
(* counted in a coarse unit.                                               *)
(***************************************************************************)
EXTENDS Integers

CONSTANTS
  DrawerHeight,  \* mDrawerView.getHeight()
  Height,        \* the lowest y of a touch
  TouchSlop      \* mTouchSlop

DrawerAssumption ==
  /\ DrawerHeight \in Nat \ {0} /\ Height \in Nat /\ TouchSlop \in Nat
  /\ DrawerHeight <= Height

VARIABLES
  layout,       \* the fields of the layout, and where its children are
  finger,       \* the y of the touch, or Up
  interrupted   \* history: an animation of the content was cancelled under way

drawerVars == <<layout, finger, interrupted>>

None   == "none"
Up     == -1
NoAnim == [to |-> 0, content |-> FALSE, running |-> FALSE]
Ys     == 0..Height

Abs(n) == IF n < 0 THEN -n ELSE n
Clamp(n) == IF n < 0 THEN 0 ELSE IF n > DrawerHeight THEN DrawerHeight ELSE n

\* findTopChildUnder: the drawer lies above the layout's top by its height, both
\* children are translated.
TopChildUnder(d, y) ==
  IF y < d.drawerTy THEN "drawer" ELSE IF y >= d.contentTy THEN "content" ELSE None

-----------------------------------------------------------------------------
(* openDrawer and closeDrawer.                                             *)

\* A mutant of Settle: only the drawer is animated.
SettleDrawerOnly(d, open) ==
  [d EXCEPT !.state = IF open THEN "opened" ELSE "closed",
            !.anim  = [to |-> IF open THEN DrawerHeight ELSE 0,
                       content |-> FALSE, running |-> TRUE]]

\* The state is set at once; the animation replaces the one under way and takes
\* the content along only when the content is what is being touched.
Settle(d, open) ==
  [d EXCEPT !.state = IF open THEN "opened" ELSE "closed",
            !.anim  = [to |-> IF open THEN DrawerHeight ELSE 0,
                       content |-> d.touching = "content", running |-> TRUE]]

\* ifOpenDrawer.
IfOpenDrawer(d) ==
  \/ d.state = "opening" /\ 100 * d.drawerTy > 35 * DrawerHeight
  \/ d.state = "closing" /\ d.touching = "drawer" /\ 10 * d.drawerTy > 8 * DrawerHeight

-----------------------------------------------------------------------------
(* Touch events.                                                           *)

\* onTouchEvent(ACTION_MOVE) while opening and while closing.
DragOpen(d, y) ==
  IF d.touching # "content" THEN d
  ELSE LET ty == Clamp(y - d.initY)
       IN  [d EXCEPT !.drawerTy = ty, !.contentTy = ty]

DragClosed(d, y) ==
  LET e == IF TopChildUnder(d, y) = "drawer" /\ d.touching # "drawer"
             THEN [d EXCEPT !.initY = y, !.touching = "drawer"] ELSE d
  IN  IF e.touching # "drawer" THEN e
      ELSE [e EXCEPT !.drawerTy = Clamp(DrawerHeight + y - e.initY)]

\* A mutant of Release: the end of a touch settles only a drawer that is dragged.
ReleaseDraggedOnly(d) ==
  [IF d.state \in {"opening", "closing"} THEN Settle(d, IfOpenDrawer(d)) ELSE d
   EXCEPT !.touching = None]

\* onTouchEvent(ACTION_UP, ACTION_CANCEL).
Release(d) == [Settle(d, IfOpenDrawer(d)) EXCEPT !.touching = None]

OnTouchEvent(d, action, y) ==
  CASE action = "down" -> [d EXCEPT !.initY = y, !.touching = TopChildUnder(d, y)]
    [] action = "move" ->
         LET e == [d EXCEPT !.anim = NoAnim]
         IN  CASE e.state = "opening" -> DragOpen(e, y)
               [] e.state = "closing" -> DragClosed(e, y)
               [] OTHER -> e
    [] OTHER -> Release(d)

\* super.dispatchTouchEvent: both children consume what they are touched with;
\* without a child the event is the layout's own.
DispatchToChildren(d, action, y) ==
  LET child == IF action = "down" THEN TopChildUnder(d, y) ELSE d.target
      e == [d EXCEPT !.target = IF action \in {"up", "cancel"} THEN None ELSE child]
  IN  IF child = None THEN OnTouchEvent(e, action, y) ELSE e

\* The end of dispatchTouchEvent.
Route(d, action, y) ==
  IF d.state \in {"opening", "closing"} THEN OnTouchEvent(d, action, y)
                                        ELSE DispatchToChildren(d, action, y)

\* dispatchTouchEvent(ACTION_DOWN): a touch beside an open drawer begins to close it.
TouchDown(d, y) ==
  Route([d EXCEPT !.initY = y, !.currentY = y,
                  !.state = IF d.state = "opened" /\ TopChildUnder(d, y) # "drawer"
                              THEN "closing" ELSE @], "down", y)

\* dispatchTouchEvent(ACTION_MOVE).  overScrolling is what
\* ScrollableViewUtil.ifOverScrollingVertically says of the content; it is false
\* without a view and true for the drawer, which does not scroll.  The children's
\* CANCEL, and the layout's own, come before the event, which is a DOWN by then.
TouchMove(d, y, overScrolling) ==
  LET dy == y - d.currentY
      child == TopChildUnder(d, y)
      over == child = "drawer" \/ (child = "content" /\ overScrolling)
      Take(state) == DispatchToChildren([d EXCEPT !.state = state], "cancel", y)
      GiveBack == OnTouchEvent([d EXCEPT !.state = "closed"], "cancel", y)
      At(e) == [e EXCEPT !.currentY = y]
  IN  CASE Abs(y - d.initY) <= TouchSlop -> Route(d, "move", y)
        [] OTHER ->
           CASE d.state = "opened" -> Route(At(Take("closing")), "down", y)
             [] d.state = "closed" /\ dy > 0 /\ over ->
                  Route(At(Take("opening")), "down", y)
             [] d.state = "opening" /\ dy < 0 /\ d.drawerTy = 0 ->
                  Route(At(GiveBack), "down", y)
             [] OTHER -> Route(At(d), "move", y)

\* dispatchTouchEvent(ACTION_UP, ACTION_CANCEL).
TouchEnd(d, action, y) ==
  Route([d EXCEPT !.initY = 0, !.currentY = 0], action, y)

-----------------------------------------------------------------------------
Init ==
  /\ layout = [state |-> "closed", touching |-> None, target |-> None,
               initY |-> 0, currentY |-> 0,
               drawerTy |-> 0, contentTy |-> 0, anim |-> NoAnim]
  /\ finger = Up /\ interrupted = FALSE

\* The layout becomes d, which may have cancelled the content's animation.
Become(d) ==
  /\ layout' = d
  /\ interrupted' = \/ interrupted /\ d.contentTy # 0
                    \/ /\ layout.anim.content /\ layout.contentTy # 0
                       /\ d.anim # layout.anim

Press == finger = Up /\ \E y \in Ys :
  finger' = y /\ Become(TouchDown(layout, y))

Move == finger # Up /\ \E y \in Ys \ {finger}, overScrolling \in BOOLEAN :
  finger' = y /\ Become(TouchMove(layout, y, overScrolling))

Lift == finger # Up /\ \E action \in {"up", "cancel"} :
  finger' = Up /\ Become(TouchEnd(layout, action, finger))

\* toggleDrawerMenu of the activity, and its onBackPressed when it is open.
Toggle ==
  /\ Become(Settle(layout, layout.state # "opened"))
  /\ UNCHANGED finger

\* A frame of the animators, which bring a view nearer to its end, or there.
Frame ==
  LET a == layout.anim IN
  /\ a.running
  /\ \E ty \in {layout.drawerTy, a.to,
                layout.drawerTy + (IF a.to > layout.drawerTy THEN 1 ELSE -1)},
        cy \in IF a.content THEN {layout.contentTy, Clamp(layout.contentTy - 1), 0}
                            ELSE {layout.contentTy} :
       /\ ty \in 0..DrawerHeight
       /\ (ty = layout.drawerTy) = (a.to = layout.drawerTy)
       /\ layout' = [layout EXCEPT !.drawerTy = ty, !.contentTy = cy,
                     !.anim = IF ty = a.to /\ (a.content => cy = 0) THEN NoAnim ELSE @]
  /\ interrupted' = (interrupted /\ layout'.contentTy # 0)
  /\ UNCHANGED finger

Next == Press \/ Move \/ Lift \/ Toggle \/ Frame

Spec == Init /\ [][Next]_drawerVars

-----------------------------------------------------------------------------
AtRest == finger = Up /\ ~layout.anim.running

\* At rest, without a finger and an animation, the drawer is wholly open or wholly
\* closed, and mDrawerState says which, whatever touches, faked events and toggles
\* came before.
DrawerSettles ==
  AtRest => \/ layout.state = "opened" /\ layout.drawerTy = DrawerHeight
            \/ layout.state = "closed" /\ layout.drawerTy = 0

\* At rest the content is back at its place, unless its way back was interrupted
\* by a touch or a toggle: the animation that replaces it leaves the content
\* where it is, since mTouchingChild is no longer the content.
ContentSettlesUnlessInterrupted ==
  AtRest /\ ~interrupted => layout.contentTy = 0
=============================================================================
