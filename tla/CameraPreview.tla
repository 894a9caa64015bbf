---------------------------- MODULE CameraPreview ----------------------------
(***************************************************************************)
(* CameraObservable over CameraSourcePreview: a started game subscribes on *)
(* an io worker, and there hands a CameraSource to the view; the main      *)
(* thread meanwhile creates and destroys the surface, lays the view out,   *)
(* and releases the camera in onPause.  The view's three fields are shared *)
(* without a lock, and a dispose that does not happen on the main thread   *)
(* posts its release there.                                                *)
(*                                                                         *)
(* The file of a stream may arrive twice (ModelDownload), and each arrival *)
(* begins a game: two CameraSources for one view.                          *)
(*                                                                         *)
(* Both threads run startIfReady; each of its reads and writes is a step.  *)
(***************************************************************************)
EXTENDS Naturals, FiniteSets

CONSTANTS
  MaxSessions,   \* bound: how many times the activity is resumed
  MaxGames       \* bound: how many games begin in all

ASSUME PreviewAssumption == MaxSessions \in Nat \ {0} /\ MaxGames \in Nat \ {0}

Sessions == 1..MaxSessions   \* one stream each
Games    == 1..MaxGames      \* one CameraSource and one io thread each
GamesPerStream == 2          \* how often the file of a stream arrives at most
None     == 0                \* null
Main     == 0                \* the main thread
Threads  == Games \cup {Main}
Releasing == {"nullThenClear", "clear", "null"}
MainSteps == {"free", "check", "read", "start", "finish"} \cup Releasing
Resting   == {"none", "fail", "done"}
IoSteps   == Resting \cup {"subscribe", "source", "request", "check", "read", "start", "finish"}

VARIABLES
  session,    \* the latest stream
  resumed,    \* is it subscribed?  FALSE as soon as mDisposables.clear() runs
  failed,     \* the latest stream that a game's error has ended
  streamOf,   \* game -> the stream that began it
  sub,        \* game -> the CameraPreviewDisposable: "none", "active", "disposed"
  requested,  \* mStartRequested
  available,  \* mSurfaceAvailable
  source,     \* mCameraSource: the game that built it, or None
  camera,     \* game -> its CameraSource: "none", "built", "running", "released"
  pc,         \* thread -> its next step
  target,     \* thread -> the source that startIfReady has read
  posted,     \* releases posted to the main looper
  replaced,   \* history: games whose source the view held when it got the next
  raced,      \* history: an io thread went on across a pause or its stream's error,
              \* or a release was still posted at the next resume
  crashed     \* an exception nobody caught

viewVars   == <<requested, available, source, replaced>>
streamVars == <<session, resumed, failed, streamOf, sub>>
vars == <<streamVars, viewVars, camera, pc, target, posted, raced, crashed>>

Init ==
  /\ session = 0 /\ resumed = FALSE /\ requested = FALSE /\ available = FALSE
  /\ failed = 0
  /\ streamOf = [g \in Games |-> 0]
  /\ sub = [g \in Games |-> "none"]
  /\ source = None
  /\ camera = [g \in Games |-> "none"]
  /\ pc = [t \in Threads |-> IF t = Main THEN "free" ELSE "none"]
  /\ target = [t \in Threads |-> None]
  /\ posted = 0 /\ replaced = {} /\ raced = FALSE /\ crashed = FALSE

Subscribed(g) == resumed /\ streamOf[g] = session /\ failed # session
Running == {g \in Games : camera[g] = "running"}
GamesOf(s) == {g \in Games : streamOf[g] = s}
Active == {g \in GamesOf(session) : sub[g] = "active"}   \* to be disposed with the stream

\* A step of thread t; an io thread that takes one for a stream that has ended, or
\* while a release is under way, has raced.
Goes(t, from, to) ==
  /\ ~crashed /\ pc[t] = from
  /\ pc' = [pc EXCEPT ![t] = to]
  /\ raced' = (raced \/ (t # Main /\ ~(Subscribed(t) /\ pc[Main] \notin Releasing)))

-----------------------------------------------------------------------------
(* startIfReady, on either thread.                                         *)

End(t) == IF t = Main THEN "free" ELSE "done"

\* An exception other than IOException: uncaught on the main thread; caught by
\* subscribeActual and handed to an observer that may be disposed.
Fails(t, from) ==
  IF t = Main
    THEN Goes(t, from, "free") /\ crashed' = TRUE
    ELSE Goes(t, from, IF sub[t] = "active" THEN "fail" ELSE "done") /\ UNCHANGED crashed

CheckReady(t) ==
  /\ Goes(t, "check", IF requested /\ available THEN "read" ELSE End(t))
  /\ UNCHANGED <<streamVars, viewVars, camera, target, posted, crashed>>

\* mCameraSource.start: a null field throws ...
ReadSource(t) ==
  /\ IF source = None
       THEN Fails(t, "read") /\ UNCHANGED target
       ELSE Goes(t, "read", "start") /\ target' = [target EXCEPT ![t] = source] /\ UNCHANGED crashed
  /\ UNCHANGED <<streamVars, viewVars, camera, posted>>

\* ... and so does a camera that another source holds.  A source that runs
\* already returns at once, a released one opens the camera all the same.
StartSource(t) ==
  /\ IF Running \ {target[t]} # {}
       THEN Fails(t, "start") /\ UNCHANGED camera
       ELSE Goes(t, "start", "finish") /\ camera' = [camera EXCEPT ![target[t]] = "running"]
                                       /\ UNCHANGED crashed
  /\ UNCHANGED <<streamVars, viewVars, target, posted>>

Finish(t) ==
  /\ Goes(t, "finish", End(t))
  /\ requested' = FALSE
  /\ UNCHANGED <<streamVars, available, source, replaced, camera, target, posted, crashed>>

StartIfReady(t) == CheckReady(t) \/ ReadSource(t) \/ StartSource(t) \/ Finish(t)

-----------------------------------------------------------------------------
(* subscribeActual and start, on the io worker.                            *)

\* A LoadDetectorResult reaches startGameIfOk, whose merge subscribes to the
\* game's camera.  flatMap hands it one result after another: the subscription
\* of the game before has returned.
BeginGame(g) ==
  /\ streamOf[g] = 0 /\ \A h \in Games : h < g => streamOf[h] # 0
  /\ streamOf' = [streamOf EXCEPT ![g] = session]
  /\ resumed /\ failed # session /\ pc[Main] \notin Releasing
  /\ Cardinality(GamesOf(session)) < GamesPerStream
  /\ \A h \in GamesOf(session) : pc[h] \in {"done", "fail"}
  /\ ~crashed /\ pc[g] = "none" /\ pc' = [pc EXCEPT ![g] = "subscribe"]
  /\ UNCHANGED <<session, resumed, failed, sub, viewVars, camera, target, posted, raced, crashed>>

\* onSubscribe(disposable): a stream already disposed disposes it at once, on
\* this thread, which posts the release.
OnSubscribe(g) ==
  /\ Goes(g, "subscribe", "source")
  /\ sub' = [sub EXCEPT ![g] = IF Subscribed(g) THEN "active" ELSE "disposed"]
  /\ posted' = IF Subscribed(g) THEN posted ELSE posted + 1
  /\ UNCHANGED <<session, resumed, failed, streamOf, viewVars, camera, target, crashed>>

\* The CameraSource is built and stored in the view, over one that may run.
SetSource(g) ==
  /\ Goes(g, "source", "request")
  /\ source' = g
  /\ replaced' = replaced \cup ({source} \ {None})
  /\ camera' = [camera EXCEPT ![g] = "built"]
  /\ UNCHANGED <<streamVars, requested, available, target, posted, crashed>>

RequestStart(g) ==
  /\ Goes(g, "request", "check")
  /\ requested' = TRUE
  /\ UNCHANGED <<streamVars, available, source, replaced, camera, target, posted, crashed>>

\* A game's error reaches the merges on a computation thread: they dispose every
\* game of the stream, which posts a release for each.
Collapse(g) ==
  /\ ~crashed /\ pc[g] = "fail"
  /\ pc' = [pc EXCEPT ![g] = "done"]
  /\ IF Subscribed(g)
       THEN /\ failed' = session
            /\ sub' = [h \in Games |-> IF h \in Active THEN "disposed" ELSE sub[h]]
            /\ posted' = posted + Cardinality(Active)
       ELSE UNCHANGED <<failed, sub, posted>>
  /\ UNCHANGED <<session, resumed, streamOf, viewVars, camera, target, raced, crashed>>

-----------------------------------------------------------------------------
(* The main thread.                                                        *)

\* Mutant of Release: the field is emptied, the source is not released.
ReleaseOnlyForgets(then, orElse) ==
  Goes(Main, pc[Main], IF source # None THEN then ELSE orElse) /\ UNCHANGED camera

\* release(): the source is released, the field set to null in a later step.
Release(then, orElse) ==
  IF source # None
    THEN /\ camera' = [camera EXCEPT ![source] = "released"]
         /\ Goes(Main, pc[Main], then)
    ELSE Goes(Main, pc[Main], orElse) /\ UNCHANGED camera

Resume ==
  /\ ~crashed /\ pc[Main] = "free" /\ ~resumed /\ session < MaxSessions
  /\ session' = session + 1 /\ resumed' = TRUE
  /\ raced' = (raced \/ posted > 0)
  /\ UNCHANGED <<failed, streamOf, sub, viewVars, camera, pc, target, posted, crashed>>

\* onPause: mCameraView.release(), then mDisposables.clear().
Pause ==
  /\ pc[Main] = "free" /\ resumed
  /\ Release("nullThenClear", "clear")
  /\ UNCHANGED <<streamVars, viewVars, target, posted, crashed>>

NullSource ==
  /\ \/ Goes(Main, "nullThenClear", "clear")
     \/ Goes(Main, "null", "free")
  /\ source' = None
  /\ UNCHANGED <<streamVars, requested, available, replaced, camera, target, posted, crashed>>

\* The stream is cancelled, then each of its games is disposed here and
\* releases again.
ClearDisposables ==
  /\ pc[Main] = "clear"
  /\ resumed' = FALSE
  /\ \/ \E g \in Active : /\ sub' = [sub EXCEPT ![g] = "disposed"]
                          /\ Release("nullThenClear", "clear")
     \/ Active = {} /\ Goes(Main, "clear", "free") /\ UNCHANGED <<sub, camera>>
  /\ UNCHANGED <<session, failed, streamOf, viewVars, target, posted, crashed>>

\* The stream's error reaches a subscriber that does not handle errors.
ReportError ==
  /\ ~crashed /\ pc[Main] = "free" /\ resumed /\ failed = session
  /\ crashed' = TRUE
  /\ UNCHANGED <<streamVars, viewVars, camera, pc, target, posted, raced>>

\* A release posted by another thread: it takes whatever the view holds now.
RunPosted ==
  /\ pc[Main] = "free" /\ posted > 0
  /\ posted' = posted - 1
  /\ Release("null", "free")
  /\ UNCHANGED <<streamVars, viewVars, target, crashed>>

\* Mutant of SurfaceCreated: it leaves the start to the next layout.
SurfaceOnlyNoted ==
  /\ resumed /\ ~available /\ Goes(Main, "free", "free")
  /\ available' = TRUE
  /\ UNCHANGED <<streamVars, requested, source, replaced, camera, target, posted, crashed>>

SurfaceCreated ==
  /\ resumed /\ ~available /\ Goes(Main, "free", "check")
  /\ available' = TRUE
  /\ UNCHANGED <<streamVars, requested, source, replaced, camera, target, posted, crashed>>

\* The window of a paused activity loses its surface; the camera is not told.
SurfaceDestroyed ==
  /\ ~resumed /\ available /\ Goes(Main, "free", "free")
  /\ available' = FALSE
  /\ UNCHANGED <<streamVars, requested, source, replaced, camera, target, posted, crashed>>

Layout ==
  /\ resumed /\ Goes(Main, "free", "check")
  /\ UNCHANGED <<streamVars, viewVars, camera, target, posted, crashed>>

-----------------------------------------------------------------------------
IoSequel(g) == OnSubscribe(g) \/ SetSource(g) \/ RequestStart(g) \/ StartIfReady(g)

MainSequel == NullSource \/ ClearDisposables \/ StartIfReady(Main)

Next ==
  \/ Resume \/ Pause \/ MainSequel \/ RunPosted \/ ReportError
  \/ SurfaceCreated \/ SurfaceDestroyed \/ Layout
  \/ \E g \in Games : BeginGame(g) \/ IoSequel(g) \/ Collapse(g)

Spec == Init /\ [][Next]_vars

\* A thread finishes what it has begun, and each has finitely much to do for a
\* game; nothing obliges anybody to pause.
Fairness ==
  /\ WF_vars(MainSequel) /\ WF_vars(RunPosted \/ ReportError)
  /\ WF_vars(\E g \in Games : IoSequel(g) \/ Collapse(g))

FairSpec == Spec /\ Fairness

-----------------------------------------------------------------------------
\* Every variable holds a value the code can give it.
TypeOK ==
  /\ session \in 0..MaxSessions /\ failed \in 0..MaxSessions
  /\ resumed \in BOOLEAN /\ requested \in BOOLEAN /\ available \in BOOLEAN
  /\ raced \in BOOLEAN /\ crashed \in BOOLEAN
  /\ streamOf \in [Games -> 0..MaxSessions]
  /\ sub \in [Games -> {"none", "active", "disposed"}]
  /\ source \in Threads
  /\ camera \in [Games -> {"none", "built", "running", "released"}]
  /\ pc \in [Threads -> MainSteps \cup IoSteps]
  /\ pc[Main] \in MainSteps /\ \A g \in Games : pc[g] \in IoSteps
  /\ target \in [Threads -> Threads]
  /\ posted \in Nat
  /\ replaced \subseteq Games

\* As long as nothing of a stream goes on across a pause, whatever order surface,
\* layout, start and release take, the running camera is the one the view holds,
\* or one that a second game's took the place of.
RunningCameraIsTheViews ==
  ~raced /\ pc[Main] \notin Releasing => Running \subseteq {source} \cup replaced

\* With the same proviso, the only camera that a paused activity may have open is
\* one that a second game's took the place of: what onPause finds, it closes.
PausedClosesCameraUnlessRaced ==
  ~raced /\ ~resumed /\ pc[Main] = "free" => Running \subseteq replaced

\* The only game of the stream has asked for its camera, there is a surface, and
\* nothing of an earlier stream interferes: but the camera does not run.
Waiting ==
  \E g \in Games :
    /\ Subscribed(g) /\ pc[g] = "done" /\ available /\ pc[Main] \notin Releasing
    /\ GamesOf(session) = {g} /\ ~raced /\ ~crashed
    /\ camera[g] # "running"

\* A game that has asked for its camera gets it once there is a surface, whichever
\* of the two threads notices last, unless an earlier stream still interferes or
\* the stream begins a second game.
RequestedCameraStarts == Waiting ~> ~Waiting

\* GameActivity.java:407 "Close camera.": once nothing is left to run, a paused
\* activity has no camera open.
PausedClosesCamera ==
  (~resumed /\ pc[Main] = "free" /\ posted = 0 /\ ~crashed
     /\ \A g \in Games : pc[g] \in {"none", "done"}) => Running = {}

=============================================================================
