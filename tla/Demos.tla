------------------------------- MODULE Demos -------------------------------
(***************************************************************************)
(* The screens and views that stand alone, side by side: a behaviour is    *)
(* that of one of them, chosen at the start, with the others at rest.      *)
(* They share nothing, so nothing is lost by not interleaving them.        *)
(***************************************************************************)
EXTENDS Integers

CONSTANTS
  DrawerHeight, Height, TouchSlop,     \* Drawer
  MaxFiles,                            \* TakePhoto
  MaxResumes, MaxClicks,               \* News
  MaxSessions,                         \* Unpack
  OverDistance, MaxOffset, MaxDrag     \* ElasticDrag

VARIABLES
  demo,                                \* the one that runs
  layout, finger, interrupted,
  sdk23, delegate, inFront, ifDispatch, photoPath, saved, request, answer,
  camera, files, opened, result,
  screen, resumes, stream, uiQueue, uiError, dialog, placeholder,
  subscriptions, debounced, clicks, details,
  current, live, worker, unpackFile, writer, cut, ready, bar,
  menu, elastic, scrolling, offset, cancelled

drawerVars  == <<layout, finger, interrupted>>
photoVars   == <<sdk23, delegate, inFront, ifDispatch, photoPath, saved, request,
                 answer, camera, files, opened, result>>
newsVars    == <<screen, resumes, stream, uiQueue, uiError, dialog, placeholder,
                 subscriptions, debounced, clicks, details>>
unpackVars  == <<current, live, worker, unpackFile, writer, cut, ready, bar>>
elasticVars == <<menu, elastic, scrolling, offset, cancelled>>

vars == <<demo, drawerVars, photoVars, newsVars, unpackVars, elasticVars>>

D == INSTANCE Drawer
P == INSTANCE TakePhoto
N == INSTANCE News
U == INSTANCE Unpack
E == INSTANCE ElasticDrag

ASSUME DemosAssumption ==
  /\ D!DrawerAssumption /\ P!TakePhotoAssumption /\ N!NewsAssumption
  /\ U!UnpackAssumption /\ E!ElasticAssumption

\* The demos at rest have one state.
Init ==
  /\ demo \in {"drawer", "photo", "news", "unpack", "elastic"}
  /\ D!Init /\ P!Init /\ N!Init /\ U!Init /\ E!Init
  /\ demo # "photo" => sdk23
  /\ demo # "elastic" => menu /\ offset = 0

DrawerStep ==
  /\ demo = "drawer" /\ D!Next
  /\ UNCHANGED <<demo, photoVars, newsVars, unpackVars, elasticVars>>

TakePhotoStep ==
  /\ demo = "photo" /\ P!Next
  /\ UNCHANGED <<demo, drawerVars, newsVars, unpackVars, elasticVars>>

NewsStep ==
  /\ demo = "news" /\ N!Next
  /\ UNCHANGED <<demo, drawerVars, photoVars, unpackVars, elasticVars>>

UnpackStep ==
  /\ demo = "unpack" /\ U!Next
  /\ UNCHANGED <<demo, drawerVars, photoVars, newsVars, elasticVars>>

ElasticStep ==
  /\ demo = "elastic" /\ E!Next
  /\ UNCHANGED <<demo, drawerVars, photoVars, newsVars, unpackVars>>

Next == DrawerStep \/ TakePhotoStep \/ NewsStep \/ UnpackStep \/ ElasticStep

Spec == Init /\ [][Next]_vars

-----------------------------------------------------------------------------
\* At rest the drawer is wholly open or wholly closed, as mDrawerState says.
DrawerSettles == D!DrawerSettles

\* At rest the content below the drawer is back at its place, unless its animation
\* was interrupted.
ContentSettlesUnlessInterrupted == D!ContentSettlesUnlessInterrupted

\* One delegate starts the camera once, over rotations, destruction and permissions.
CameraOpensOnce == P!CameraOpensOnce

\* A photo that was taken for the delegate comes back to its caller.
PhotoComesBack == P!PhotoComesBack

\* The progress dialog of the news goes, unless the translation threw.
DialogGoesUnlessBroken == N!DialogGoesUnlessBroken

\* No click opens the details twice, however often the news were loaded.
OneDetailPerClick == N!OneDetailPerClick

\* The landmark detector is given a model that was unpacked whole.
LoadSeesWholeModel == U!LoadSeesWholeModel

\* At rest an elastic child is at its place and the menu as its flag says, unless the
\* animation was cancelled for a scroll that is refused or a new size.
DragSettlesUnlessCancelled == E!DragSettlesUnlessCancelled

\* An elastic child is dragged only while its own content is at that end.
DraggedOnlyAtItsEnd == E!DraggedOnlyAtItsEnd
=============================================================================
