---------------------------- MODULE ElasticDrag ----------------------------
(***************************************************************************)
(* ElasticDragLayout and ElasticDragMenuLayout: what the scrolling child   *)
(* leaves of a scroll drags it from its place, elastically; a scroll that  *)
(* is turned back is taken from the child until the child is at its place  *)
(* again; the end of a scroll animates it there and, in the second class, *)
(* opens or closes the menu over it.  Both orientations run the same code. *)
(* Only the side of a translation is kept, whose size grows with the       *)
(* distance dragged; the scale goes with it.                               *)
(***************************************************************************)
EXTENDS Integers

CONSTANTS
  OverDistance,  \* mDragOverDistance
  MaxOffset,     \* the child's scroll range
  MaxDrag        \* bound: |mTotalDrag|

ElasticAssumption ==
  OverDistance \in Nat \ {0} /\ MaxOffset \in Nat /\ MaxDrag \in Nat \ {0}

VARIABLES
  menu,       \* is it an ElasticDragMenuLayout
  elastic,    \* the fields of the layout, the child's translation, the menu's alpha
  scrolling,  \* the child is in a nested scroll that the layout accepted
  offset,     \* how far the child has scrolled its own content
  cancelled   \* history: an animation was cancelled and nothing will take its place

elasticVars == <<menu, elastic, scrolling, offset, cancelled>>

Abs(n) == IF n < 0 THEN -n ELSE n
Clamp(n) == IF n < 0 THEN 0 ELSE IF n > MaxOffset THEN MaxOffset ELSE n

\* The alpha where the animation leads the menu; 1 is anything between.
Goal(d) == IF d.opened THEN 2 ELSE 0
InPlace(d) == d.translation = 0 /\ d.alpha = Goal(d)

Init ==
  /\ menu \in BOOLEAN
  /\ elastic = [total |-> 0, start |-> FALSE, end |-> FALSE, translation |-> 0,
                opened |-> FALSE, alpha |-> 0, animating |-> FALSE]
  /\ scrolling = FALSE /\ offset \in {0, MaxOffset} /\ cancelled = FALSE

-----------------------------------------------------------------------------
\* dragScaleVertically, dragScaleHorizontally: the side dragged to is kept until the
\* drag is back at or past the child's place.
DragScale(d, scroll) ==
  LET fresh == ~d.start /\ ~d.end
      total == d.total + scroll
      end   == d.end \/ (fresh /\ scroll < 0)
      start == d.start \/ (fresh /\ scroll > 0)
      past  == (end /\ total >= 0) \/ (start /\ total <= 0)
  IN  IF scroll = 0 THEN d
      ELSE [d EXCEPT !.total = IF past THEN 0 ELSE total,
                     !.end = end /\ ~past, !.start = start /\ ~past,
                     !.translation = IF past THEN 0 ELSE IF start THEN -1 ELSE 1,
                     !.animating = FALSE]

\* doAnimation of both classes, openMenu and closeMenu.
Animate(d, open) == [d EXCEPT !.opened = menu /\ open, !.animating = TRUE]

\* A mutant of Reverses: only the first of the two directions.
ReversesDownwardOnly(d, delta) == d.end /\ delta > 0

\* The conditions of onNestedPreScroll, whose scroll is consumed whole.
Reverses(d, delta) == (d.end /\ delta > 0) \/ (d.start /\ delta < 0)

\* A mutant of Stopped: a scroll that has dragged nothing has nothing to settle.
StoppedAfterDragOnly(d) ==
  [IF d.total = 0 THEN d ELSE Animate(d, Abs(d.total) >= OverDistance)
   EXCEPT !.total = 0, !.start = FALSE, !.end = FALSE]

\* onStopNestedScroll, with onDragOver and onDragCancel.
Stopped(d) ==
  [Animate(d, Abs(d.total) >= OverDistance)
   EXCEPT !.total = 0, !.start = FALSE, !.end = FALSE]

-----------------------------------------------------------------------------
Become(d) ==
  /\ elastic' = d
  /\ cancelled' = (cancelled /\ ~d.animating /\ ~InPlace(d))
  /\ UNCHANGED menu

\* An animation under way is cancelled before anything else is looked at.
Cancel ==
  /\ elastic' = [elastic EXCEPT !.animating = FALSE]
  /\ cancelled' = (~scrolling' /\ (cancelled \/ (elastic.animating /\ ~InPlace(elastic))))
  /\ UNCHANGED <<menu, offset>>

\* onStartNestedScroll: of the child along the layout's axis, and of something in the
\* child along the other one, which is refused.
StartScroll == ~scrolling /\ scrolling' = TRUE /\ Cancel
RefuseScroll == UNCHANGED scrolling /\ Cancel

\* onSizeChanged.
ResizeLayout == UNCHANGED scrolling /\ Cancel

\* One move of the finger: onNestedPreScroll, the child's own scroll of what is left,
\* onNestedScroll.
ScrollBy(delta) ==
  /\ scrolling
  /\ offset' = IF Reverses(elastic, delta) THEN offset ELSE Clamp(offset + delta)
  /\ LET d == DragScale(elastic, delta - (offset' - offset))
     IN  Abs(d.total) <= MaxDrag /\ Become(d)
  /\ UNCHANGED scrolling

StopScroll ==
  /\ scrolling /\ scrolling' = FALSE
  /\ Become(Stopped(elastic)) /\ UNCHANGED offset

\* toggleDrawerMenu and onBackPressed of the activity with the menu.
ToggleMenu ==
  /\ menu /\ Become(Animate(elastic, ~elastic.opened))
  /\ UNCHANGED <<scrolling, offset>>

\* The child goes on scrolling by itself after a fling, which is no nested scroll.
Fling == ~scrolling /\ offset' \in 0..MaxOffset /\ UNCHANGED <<menu, elastic, scrolling, cancelled>>

\* A frame of the animators, which end once everything is in place.
Frame ==
  /\ elastic.animating
  /\ \E translation \in {elastic.translation, 0},
        alpha \in {elastic.alpha, Goal(elastic)} \cup (IF menu THEN {1} ELSE {}) :
       LET d == [elastic EXCEPT !.translation = translation, !.alpha = alpha]
       IN  Become([d EXCEPT !.animating = ~InPlace(d)])
  /\ UNCHANGED <<scrolling, offset>>

Next ==
  \/ StartScroll \/ RefuseScroll \/ ResizeLayout \/ StopScroll
  \/ \E delta \in -2..2 \ {0} : ScrollBy(delta)
  \/ ToggleMenu \/ Fling \/ Frame

Spec == Init /\ [][Next]_elasticVars

-----------------------------------------------------------------------------
\* Without a scroll and an animation the child is at its place and the menu as
\* mIsMenuOpened says, whatever scrolls, reversals and toggles came before, unless an
\* animation was cancelled for a scroll that is refused or for a new size, after which no
\* onStopNestedScroll follows that would start it again.
DragSettlesUnlessCancelled ==
  ~scrolling /\ ~elastic.animating /\ ~cancelled => InPlace(elastic)

\* A child is dragged away only while its own content is at that end: turned back, the
\* scroll brings the child to its place before the content moves again.
DraggedOnlyAtItsEnd ==
  /\ elastic.end   => offset = 0 /\ elastic.total < 0
  /\ elastic.start => offset = MaxOffset /\ elastic.total > 0
=============================================================================
