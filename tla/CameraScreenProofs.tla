-------------------------- MODULE CameraScreenProofs --------------------------
(***************************************************************************)
(* For any number of resumes and handler threads: a view never has two     *)
(* handler threads, no classifier is closed under a prediction, and every  *)
(* camera of a paused activity has a request to close before it, unless an *)
(* open came too late or twice.                                            *)
(***************************************************************************)
EXTENDS CameraScreen, TLAPS

-----------------------------------------------------------------------------
(* The inductive invariant.                                                *)

\* The looper that runs is mHandler's, a prediction runs on it, and a looper
\* that has quit keeps no message.
ThreadOfHandler ==
  /\ running = {handler} \ {NoHandler}
  /\ predicting \subseteq running
  /\ \A h \in Handlers : h \notin running => queue[h] = <<>>

\* Some request to close stands behind position k of a queue.
ClosedAfter(q, k) == \E j \in 1..Len(q) : j > k /\ q[j] = "close"
OpensAreClosed(q) == \A i \in 1..Len(q) : q[i] = "open" => ClosedAfter(q, i)

\* On time and once: what the proviso of the property excludes, and the crash.
OnTime == ~late /\ ~reopened /\ ~crashed

\* A request to open in the main thread's hands is the resumed activity's.
OpenIsOfResumed == OnTime /\ main = "open" => resumed

\* After onPause every request to open has one to close behind it, and so has
\* the camera if it is open.
PausedWillClose ==
  OnTime /\ ~resumed /\ main # "close" =>
    /\ \A h \in Handlers : OpensAreClosed(queue[h])
    /\ camera => \E h \in Handlers : ClosedAfter(queue[h], 0)

\* Each resume posts at most one opening animation.
PostedByResumes == posted <= resumes

Inv ==
  /\ TypeOK /\ ThreadOfHandler /\ PredictionKeepsItsClassifier
  /\ OpenIsOfResumed /\ PausedWillClose /\ PostedByResumes

USE DEF Handlers, NoHandler

-----------------------------------------------------------------------------
(* Lemmas about queues.                                                    *)

\* A message at the end of a queue, which is not a request to open, leaves
\* everything closed that was; a request to close closes everything.
LEMMA PostedBehind ==
  ASSUME NEW q \in Seq(Messages), NEW msg \in Messages
  PROVE  /\ Append(q, msg) \in Seq(Messages)
         /\ msg = "close" => OpensAreClosed(Append(q, msg)) /\ ClosedAfter(Append(q, msg), 0)
         /\ msg # "open" /\ OpensAreClosed(q) => OpensAreClosed(Append(q, msg))
         /\ ClosedAfter(q, 0) => ClosedAfter(Append(q, msg), 0)
  <1> DEFINE p == Append(q, msg)
  <1>1. /\ Len(q) \in Nat /\ p \in Seq(Messages) /\ Len(p) = Len(q) + 1 /\ p[Len(q) + 1] = msg
        /\ \A i \in 1..Len(q) : p[i] = q[i]
    OBVIOUS
  <1> HIDE DEF p
  <1>2. ASSUME msg = "close", NEW i \in 0..Len(q) PROVE ClosedAfter(p, i)
    <2>1. Len(q) + 1 \in 1..Len(p) /\ Len(q) + 1 > i
      BY <1>1
    <2> QED BY <1>1, <1>2, <2>1 DEF ClosedAfter
  <1>3. ASSUME NEW i \in Nat, ClosedAfter(q, i) PROVE ClosedAfter(p, i)
    BY <1>1, <1>3 DEF ClosedAfter
  <1>4. ASSUME msg = "close" PROVE OpensAreClosed(p) /\ ClosedAfter(p, 0)
    <2>1. \A i \in 1..Len(p) : p[i] = "open" => i \in 0..Len(q)
      BY <1>1, <1>4
    <2> QED BY <1>1, <1>2, <1>4, <2>1 DEF OpensAreClosed
  <1>5. ASSUME msg # "open", OpensAreClosed(q) PROVE OpensAreClosed(p)
    <2>1. \A i \in 1..Len(p) : p[i] = "open" => i \in 1..Len(q) /\ q[i] = "open"
      BY <1>1, <1>5
    <2> QED BY <1>3, <1>5, <2>1 DEF OpensAreClosed
  <1> QED BY <1>1, <1>3, <1>4, <1>5 DEF p

\* The message at the head of a queue can be taken without losing what closes
\* the others; if it is a request to open, the one that closes it is left.
LEMMA TakenFromFront ==
  ASSUME NEW q \in Seq(Messages), q # <<>>
  PROVE  /\ Tail(q) \in Seq(Messages)
         /\ OpensAreClosed(q) => OpensAreClosed(Tail(q))
         /\ OpensAreClosed(q) /\ Head(q) = "open" => ClosedAfter(Tail(q), 0)
         /\ ClosedAfter(q, 0) /\ Head(q) # "close" => ClosedAfter(Tail(q), 0)
  <1> DEFINE p == Tail(q)
  <1>1. /\ Len(q) \in Nat \ {0} /\ p \in Seq(Messages) /\ Len(p) = Len(q) - 1 /\ Head(q) = q[1]
        /\ \A i \in 1..Len(p) : p[i] = q[i + 1]
    OBVIOUS
  <1> HIDE DEF p
  <1>2. ASSUME NEW i \in Nat, i > 0, ClosedAfter(q, i) PROVE ClosedAfter(p, i - 1)
    <2>1. PICK j \in 1..Len(q) : j > i /\ q[j] = "close"
      BY <1>2 DEF ClosedAfter
    <2>2. j - 1 \in 1..Len(p) /\ j - 1 > i - 1 /\ p[j - 1] = q[j]
      BY <1>1, <1>2, <2>1
    <2> QED BY <2>1, <2>2 DEF ClosedAfter
  <1>3. ASSUME OpensAreClosed(q) PROVE OpensAreClosed(p)
    <2>1. SUFFICES ASSUME NEW i \in 1..Len(p), p[i] = "open" PROVE ClosedAfter(p, i)
      BY DEF OpensAreClosed
    <2>2. i + 1 \in 1..Len(q) /\ q[i + 1] = "open" /\ i + 1 \in Nat /\ i + 1 > 0
      BY <1>1, <2>1
    <2>3. ClosedAfter(q, i + 1)
      BY <1>3, <2>2 DEF OpensAreClosed
    <2>4. ClosedAfter(p, (i + 1) - 1) /\ (i + 1) - 1 = i
      BY <1>2, <2>2, <2>3
    <2> QED BY <2>4
  <1>4. ASSUME OpensAreClosed(q), Head(q) = "open" PROVE ClosedAfter(p, 0)
    <2>1. ClosedAfter(q, 1)
      BY <1>1, <1>4 DEF OpensAreClosed
    <2>2. ClosedAfter(p, 1 - 1)
      BY <1>2, <2>1
    <2> QED BY <2>2
  <1>5. ASSUME ClosedAfter(q, 0), Head(q) # "close" PROVE ClosedAfter(p, 0)
    <2>1. ClosedAfter(q, 1)
      BY <1>1, <1>5 DEF ClosedAfter
    <2>2. ClosedAfter(p, 1 - 1)
      BY <1>2, <2>1
    <2> QED BY <2>2
  <1> QED BY <1>1, <1>3, <1>4, <1>5 DEF p

\* Nothing is asked of an empty queue.
LEMMA EmptyQueue == <<>> \in Seq(Messages) /\ OpensAreClosed(<<>>) /\ ~ClosedAfter(<<>>, 0)
  BY DEF OpensAreClosed, ClosedAfter

-----------------------------------------------------------------------------
(* Lemmas about the operations of the view.                                *)

\* ensureHandler leaves the view with exactly one looper that runs.
LEMMA Ensured ==
  ASSUME ViewTypeOK, ThreadOfHandler, EnsureHandler
  PROVE  /\ handler' \in Handlers /\ running' = {handler'} /\ predicting \subseteq running'
         /\ running \subseteq running'
         /\ handler # NoHandler => handler' = handler /\ running' = running
  <1>1. CASE handler # NoHandler
    BY <1>1 DEF ViewTypeOK, ThreadOfHandler, EnsureHandler, handlerVars
  <1>2. CASE handler = NoHandler
    <2>1. running = {} /\ predicting = {}
      BY <1>2 DEF ThreadOfHandler
    <2>2. PICK h \in Dead : handler' = h /\ running' = running \cup {h}
      BY <1>2 DEF EnsureHandler
    <2> QED BY <1>2, <2>1, <2>2 DEF Dead
  <1> QED BY <1>1, <1>2

\* A message is posted to the one looper that runs.
LEMMA Posted ==
  ASSUME ViewTypeOK, NEW h \in Handlers, NEW on, NEW msg \in Messages, Post(h, msg, on)
  PROVE  /\ queue' \in [Handlers -> Seq(Messages)]
         /\ h \in on => queue'[h] = Append(queue[h], msg)
         /\ \A g \in Handlers : g # h \/ h \notin on => queue'[g] = queue[g]
  <1>1. queue \in [Handlers -> Seq(Messages)] /\ Append(queue[h], msg) \in Seq(Messages)
    BY DEF ViewTypeOK
  <1>2. CASE h \in on
    <2>1. queue' = [queue EXCEPT ![h] = Append(queue[h], msg)]
      BY <1>2 DEF Post
    <2>2. queue'[h] = Append(queue[h], msg) /\ \A g \in Handlers : g # h => queue'[g] = queue[g]
      BY <1>1, <2>1
    <2> QED BY <1>1, <1>2, <2>1, <2>2
  <1>3. CASE h \notin on
    BY <1>1, <1>3 DEF Post
  <1> QED BY <1>2, <1>3

\* What taking a message does to the queues, with or without the looper's quit.
LEMMA Taken ==
  ASSUME ViewTypeOK, NEW h \in Handlers, queue[h] # <<>>
  PROVE  /\ Rest(h) \in [Handlers -> Seq(Messages)]
         /\ Rest(h)[h] = Tail(queue[h])
         /\ \A g \in Handlers : g # h => Rest(h)[g] = queue[g]
  <1>1. queue \in [Handlers -> Seq(Messages)] /\ Tail(queue[h]) \in Seq(Messages)
    BY DEF ViewTypeOK
  <1>2. Rest(h) = [queue EXCEPT ![h] = Tail(queue[h])]
    BY DEF Rest
  <1> QED BY <1>1, <1>2

\* openCameraSync and closeCameraSync on a camera that is open quit the looper
\* of the thread that runs them, which is mHandler's and not in a prediction.
LEMMA Quits ==
  ASSUME ViewTypeOK, ThreadOfHandler, NEW h \in Handlers, NEW msg, Takes(h, msg),
         QuitLooper(Rest(h))
  PROVE  /\ handler' = NoHandler /\ running' = {} /\ predicting = {} /\ h = handler
         /\ queue' \in [Handlers -> Seq(Messages)] /\ \A g \in Handlers : queue'[g] = <<>>
  <1>1. h = handler /\ running = {h} /\ predicting = {} /\ queue[h] # <<>>
    BY DEF Takes, ThreadOfHandler
  <1>2. handler' = NoHandler /\ running' = {} /\ queue' = [Rest(h) EXCEPT ![h] = <<>>]
    BY <1>1 DEF QuitLooper
  <1>3. \A g \in Handlers : g # h => queue[g] = <<>>
    BY <1>1 DEF ThreadOfHandler
  <1>4. queue' \in [Handlers -> Seq(Messages)] /\ \A g \in Handlers : queue'[g] = <<>>
    BY <1>1, <1>2, <1>3, Taken, EmptyQueue
  <1> QED BY <1>1, <1>2, <1>4

\* A message that does not quit the looper.
LEMMA TakesOne ==
  ASSUME ViewTypeOK, ThreadOfHandler, NEW h \in Handlers, NEW msg, Takes(h, msg),
         queue' = Rest(h), UNCHANGED handlerVars
  PROVE  /\ handler' = handler /\ running' = running
         /\ h = handler /\ running = {h} /\ predicting = {}
         /\ queue[h] # <<>> /\ Head(queue[h]) = msg
         /\ queue' \in [Handlers -> Seq(Messages)] /\ queue'[h] = Tail(queue[h])
         /\ \A g \in Handlers : g # h => queue'[g] = queue[g] /\ queue'[g] = <<>>
  <1>1. h = handler /\ running = {h} /\ predicting = {} /\ queue[h] # <<>> /\ Head(queue[h]) = msg
    BY DEF Takes, ThreadOfHandler
  <1>2. \A g \in Handlers : g # h => queue[g] = <<>>
    BY <1>1 DEF ThreadOfHandler
  <1> QED BY <1>1, <1>2, Taken DEF handlerVars

\* Every step of a handler thread: a message taken on the one looper that runs,
\* with or without its quit, or the end of a prediction.
LEMMA HandlerGoes ==
  ASSUME ViewTypeOK, ThreadOfHandler, NEW h \in Handlers, HandlerThread(h)
  PROVE  /\ ~crashed /\ UNCHANGED <<available, main, crashed>> /\ (reopened => reopened')
         /\ \/ /\ predicting' = {} /\ handler' = NoHandler /\ running' = {}
               /\ queue' \in [Handlers -> Seq(Messages)]
               /\ \A g \in Handlers : queue'[g] = <<>>
               /\ reopened' \/ ~camera'
            \/ /\ handler' = handler /\ running' = running /\ running = {h} /\ predicting = {}
               /\ queue[h] # <<>> /\ queue' \in [Handlers -> Seq(Messages)]
               /\ queue'[h] = Tail(queue[h])
               /\ \A g \in Handlers : g # h => queue'[g] = queue[g] /\ queue'[g] = <<>>
               /\ predicting' \subseteq {h} /\ (predicting' # {} => classifying')
               /\ Head(queue[h]) = "open" => ~camera
               /\ Head(queue[h]) # "open" => camera' = camera
               /\ Head(queue[h]) = "close" => ~camera
            \/ /\ predicting' \subseteq predicting
               /\ UNCHANGED <<handlerVars, queue, cameraVars, reopened>>
  <1>1. CASE OpenCameraSync(h)
    <2>0. /\ ~crashed /\ UNCHANGED <<available, main, crashed, predicting>>
          /\ reopened' = (reopened \/ camera) /\ Takes(h, "open")
      BY <1>1 DEF OpenCameraSync, Takes
    <2>1. CASE camera
      <3>1. QuitLooper(Rest(h)) /\ reopened'
        BY <1>1, <2>0, <2>1 DEF OpenCameraSync
      <3> QED BY <2>0, <3>1, Quits
    <2>2. CASE ~camera
      <3>1. queue' = Rest(h) /\ UNCHANGED handlerVars
        BY <1>1, <2>2 DEF OpenCameraSync
      <3> QED BY <2>0, <2>2, <3>1, TakesOne
    <2> QED BY <2>1, <2>2
  <1>2. CASE CloseCameraSync(h)
    <2>0. /\ ~crashed /\ UNCHANGED <<available, main, crashed, predicting, reopened>>
          /\ Takes(h, "close")
      BY <1>2 DEF CloseCameraSync, Takes
    <2>1. CASE camera
      <3>1. QuitLooper(Rest(h)) /\ ~camera'
        BY <1>2, <2>0, <2>1 DEF CloseCameraSync
      <3> QED BY <2>0, <3>1, Quits
    <2>2. CASE ~camera
      <3>1. queue' = Rest(h) /\ UNCHANGED <<handlerVars, camera>>
        BY <1>2, <2>2 DEF CloseCameraSync, cameraVars
      <3> QED BY <2>0, <2>2, <3>1, TakesOne
    <2> QED BY <2>1, <2>2
  <1>3. CASE SafePreviewCamera(h)
    <2>1. /\ ~crashed /\ UNCHANGED <<available, main, crashed, predicting, reopened, camera>>
          /\ Takes(h, "preview") /\ queue' = Rest(h) /\ UNCHANGED handlerVars
      BY <1>3 DEF SafePreviewCamera, Takes
    <2> QED BY <2>1, TakesOne
  <1>4. CASE SetPreviewSize(h)
    <2>1. /\ ~crashed /\ UNCHANGED <<available, main, crashed, predicting, reopened, camera>>
          /\ Takes(h, "size") /\ queue' = Rest(h) /\ UNCHANGED handlerVars
      BY <1>4 DEF SetPreviewSize, Takes, cameraVars
    <2> QED BY <2>1, TakesOne
  <1>5. CASE StartPrediction(h)
    <2>1. /\ ~crashed /\ UNCHANGED <<available, main, crashed, reopened, camera>>
          /\ Takes(h, "predict") /\ queue' = Rest(h) /\ UNCHANGED handlerVars
          /\ classifying' = classifying
          /\ predicting' = predicting \/ (classifying /\ predicting' = predicting \cup {h})
      BY <1>5 DEF StartPrediction, Takes, cameraVars
    <2> QED BY <2>1, TakesOne
  <1>6. CASE EndPrediction(h)
    BY <1>6 DEF EndPrediction
  <1> QED BY <1>1, <1>2, <1>3, <1>4, <1>5, <1>6 DEF HandlerThread

-----------------------------------------------------------------------------
(* Lemmas about the operations of the screen.                              *)

\* Asking for the camera either touches nothing of the view, or is a request to
\* open, which a paused activity makes too late.
LEMMA Asks ==
  ASSUME NEW isResumed \in BOOLEAN, GrantPermissionAndOpen(isResumed)
  PROVE  \/ UNCHANGED viewVars /\ late' = late
         \/ /\ BeginAsync("open") /\ UNCHANGED available
            /\ late' = (late \/ ~isResumed)
  <1>1. CASE permSettling
    BY <1>1 DEF GrantPermissionAndOpen, KeepView, permissionVars
  <1>2. CASE ~permSettling /\ granted
    BY <1>2 DEF GrantPermissionAndOpen, OpenCameraAsync
  <1>3. CASE ~permSettling /\ ~granted
    BY <1>3 DEF GrantPermissionAndOpen, KeepView
  <1> QED BY <1>1, <1>2, <1>3

\* So does cancelling or replacing an animation.
LEMMA Cancels ==
  ASSUME TypeOK, CancelAnimation
  PROVE  \/ UNCHANGED viewVars /\ late' = late
         \/ /\ BeginAsync("open") /\ UNCHANGED available
            /\ late' = (late \/ ~resumed)
  <1>1. CASE GrantPermissionAndOpen(resumed)
    BY <1>1, Asks DEF TypeOK
  <1>2. CASE KeepView /\ UNCHANGED permissionVars
    BY <1>2 DEF KeepView, permissionVars
  <1> QED BY <1>1, <1>2 DEF CancelAnimation

\* What any step of the screen does to the view.
LEMMA ScreenSteps ==
  ASSUME TypeOK, [Next]_vars
  PROVE  \/ UNCHANGED viewVars /\ late' = late /\ (resumed' = resumed \/ resumed')
         \/ /\ BeginAsync("open") /\ UNCHANGED available
            /\ late' = (late \/ ~resumed') /\ (resumed' = resumed \/ resumed')
         \/ BeginAsync("close") /\ late' = late /\ available' \in BOOLEAN
         \/ /\ EnsureHandler
            /\ UNCHANGED <<queue, predicting, cameraVars, available, main, reopened, crashed>>
            /\ UNCHANGED <<late, resumed>>
         \/ /\ \E msg \in {"preview", "size", "close"} : EnsureAndPost(msg)
            /\ available' \in BOOLEAN /\ UNCHANGED <<late, resumed>>
         \/ (PostAsync \/ PredictTick) /\ UNCHANGED <<late, resumed>>
         \/ (\E h \in Handlers : HandlerThread(h)) /\ UNCHANGED <<late, resumed>>
  <1>1. CASE Resume
    <2>1. resumed' = TRUE
      BY <1>1 DEF Resume
    <2>2. CASE GrantPermissionAndOpen(TRUE)
      BY <2>1, <2>2, Asks
    <2>3. CASE KeepView /\ UNCHANGED permissionVars
      BY <2>1, <2>3 DEF KeepView, permissionVars
    <2> QED BY <1>1, <2>2, <2>3 DEF Resume
  <1>2. CASE Pause \/ Detach
    BY <1>2 DEF Pause, Detach, permissionVars, TypeOK, ViewTypeOK
  <1>3. CASE Attach
    BY <1>3 DEF Attach, permissionVars
  <1>4. CASE SurfaceComesOrChanges
    BY <1>4 DEF SurfaceComesOrChanges, SurfaceAvailable, SurfaceSizeChanged, permissionVars,
                activityVars, TypeOK, ViewTypeOK
  <1>5. CASE SurfaceGoes
    BY <1>5 DEF SurfaceGoes, SurfaceDestroyed, permissionVars
  <1>6. CASE RequestPermission
    BY <1>6 DEF RequestPermission, KeepView, activityVars
  <1>7. CASE AnswerPermission
    <2>1. CASE KeepView /\ UNCHANGED <<resumed, late>>
      BY <2>1 DEF KeepView
    <2>2. CASE OpenCameraAsync(resumed) /\ UNCHANGED activityVars
      BY <2>2 DEF OpenCameraAsync, activityVars
    <2> QED BY <1>7, <2>1, <2>2 DEF AnswerPermission, activityVars
  <1>8. CASE RunPostedOpen \/ StartNestedScroll \/ DragCancelled \/ CloseLayout
    <2>1. CancelAnimation /\ resumed' = resumed
      BY <1>8 DEF RunPostedOpen, StartNestedScroll, DragCancelled, CloseLayout, Open, Close
    <2> QED BY <2>1, Cancels
  <1>9. CASE AnimationEnds
    <2>1. resumed' = resumed /\ resumed \in BOOLEAN
      BY <1>9 DEF AnimationEnds, TypeOK
    <2>2. CASE GrantPermissionAndOpen(resumed)
      BY <2>1, <2>2, Asks
    <2>3. CASE KeepView /\ UNCHANGED permissionVars
      BY <2>1, <2>3 DEF KeepView, permissionVars
    <2> QED BY <1>9, <2>2, <2>3 DEF AnimationEnds
  <1>10. CASE Looper \/ Timer \/ \E h \in Handlers : Handles(h)
    BY <1>10 DEF Looper, Timer, Handles, screenVars, activityVars, permissionVars
  <1>11. CASE UNCHANGED vars
    BY <1>11 DEF vars, activityVars, permissionVars
  <1> QED BY <1>1, <1>2, <1>3, <1>4, <1>5, <1>6, <1>7, <1>8, <1>9, <1>10, <1>11 DEF Next

-----------------------------------------------------------------------------
(* Each part of the invariant, at every step.                              *)

\* The camera's variables keep their types on the handler thread.
LEMMA CameraTypes ==
  ASSUME ViewTypeOK, NEW h \in Handlers, HandlerThread(h)
  PROVE  /\ camera' \in BOOLEAN /\ preview' \in {"no", "yes", "failed"}
         /\ classifying' \in BOOLEAN /\ reopened' \in BOOLEAN
  <1>1. CASE OpenCameraSync(h)
    BY <1>1 DEF OpenCameraSync
  <1>2. CASE CloseCameraSync(h)
    <2>1. reopened' = reopened
      BY <1>2 DEF CloseCameraSync
    <2>2. CASE UNCHANGED cameraVars
      BY <2>1, <2>2 DEF cameraVars, ViewTypeOK
    <2>3. CASE camera' = FALSE /\ preview' = "no" /\ classifying' = FALSE
      BY <2>1, <2>3 DEF ViewTypeOK
    <2> QED BY <1>2, <2>2, <2>3 DEF CloseCameraSync
  <1>3. CASE SafePreviewCamera(h)
    BY <1>3 DEF SafePreviewCamera, StartPreview, ViewTypeOK
  <1>4. CASE SetPreviewSize(h) \/ StartPrediction(h) \/ EndPrediction(h)
    BY <1>4 DEF SetPreviewSize, StartPrediction, EndPrediction, cameraVars, ViewTypeOK
  <1> QED BY <1>1, <1>2, <1>3, <1>4 DEF HandlerThread

\* At every step the view keeps its types, its one looper, and the classifier of
\* a prediction.
LEMMA ViewStep ==
  ASSUME TypeOK, ThreadOfHandler, PredictionKeepsItsClassifier, [Next]_vars
  PROVE  ViewTypeOK' /\ ThreadOfHandler' /\ PredictionKeepsItsClassifier'
  <1>0. ViewTypeOK /\ queue \in [Handlers -> Seq(Messages)]
    BY DEF TypeOK, ViewTypeOK
  <1>1. CASE UNCHANGED viewVars
    <2>1. UNCHANGED <<handler, running, queue, predicting, camera, preview, classifying,
                      available, main, reopened, crashed>>
      BY <1>1 DEF viewVars, handlerVars, cameraVars
    <2> QED BY <1>0, <2>1 DEF ViewTypeOK, ThreadOfHandler, PredictionKeepsItsClassifier
  <1>e. ASSUME EnsureHandler, UNCHANGED <<predicting, cameraVars, reopened, crashed>>,
               main' \in Requests \cup {"free"}, available' \in BOOLEAN,
               queue' \in [Handlers -> Seq(Messages)],
               \A h \in Handlers : h \notin running' => queue'[h] = queue[h]
        PROVE  ViewTypeOK' /\ ThreadOfHandler' /\ PredictionKeepsItsClassifier'
    <2>1. /\ handler' \in Handlers /\ running' = {handler'} /\ predicting' \subseteq running'
          /\ running \subseteq running'
      BY <1>0, <1>e, Ensured
    <2>2. ThreadOfHandler'
      BY <1>e, <2>1 DEF ThreadOfHandler
    <2>3. UNCHANGED <<camera, preview, classifying, reopened, crashed, predicting>>
      BY <1>e DEF cameraVars
    <2>4. ViewTypeOK'
      BY <1>0, <1>e, <2>1, <2>3 DEF ViewTypeOK
    <2> QED BY <2>2, <2>3, <2>4 DEF PredictionKeepsItsClassifier
  <1>p. ASSUME UNCHANGED <<handlerVars, predicting, cameraVars, available, reopened>>,
               main' \in Requests \cup {"free"}, crashed' \in BOOLEAN,
               queue' \in [Handlers -> Seq(Messages)],
               \A h \in Handlers : h \notin running => queue'[h] = queue[h]
        PROVE  ViewTypeOK' /\ ThreadOfHandler' /\ PredictionKeepsItsClassifier'
    <2>1. UNCHANGED <<handler, running, predicting, camera, preview, classifying, available,
                      reopened>>
      BY <1>p DEF handlerVars, cameraVars
    <2> QED BY <1>0, <1>p, <2>1 DEF ViewTypeOK, ThreadOfHandler, PredictionKeepsItsClassifier
  <1>2. ASSUME NEW request \in Requests, BeginAsync(request), available' \in BOOLEAN
        PROVE  ViewTypeOK' /\ ThreadOfHandler' /\ PredictionKeepsItsClassifier'
    BY <1>0, <1>2, <1>e DEF BeginAsync
  <1>3. CASE /\ EnsureHandler
             /\ UNCHANGED <<queue, predicting, cameraVars, available, main, reopened, crashed>>
    BY <1>0, <1>3, <1>e DEF ViewTypeOK
  <1>4. ASSUME NEW msg \in {"preview", "size", "close"}, EnsureAndPost(msg),
               available' \in BOOLEAN
        PROVE  ViewTypeOK' /\ ThreadOfHandler' /\ PredictionKeepsItsClassifier'
    <2>1. /\ EnsureHandler /\ Post(handler', msg, running')
          /\ UNCHANGED <<predicting, cameraVars, main, reopened, crashed>>
      BY <1>4 DEF EnsureAndPost
    <2>2. handler' \in Handlers /\ running' = {handler'} /\ msg \in Messages
      BY <1>0, <2>1, Ensured DEF Messages, Requests
    <2>3. /\ queue' \in [Handlers -> Seq(Messages)]
          /\ \A h \in Handlers : h \notin running' => queue'[h] = queue[h]
      BY <1>0, <2>1, <2>2, Posted
    <2> QED BY <1>0, <1>4, <1>e, <2>1, <2>3 DEF ViewTypeOK
  <1>5. CASE PostAsync
    <2>1. main \in Requests /\ main \in Messages /\ main' = "free"
      BY <1>0, <1>5 DEF PostAsync, ViewTypeOK, Messages
    <2>2. UNCHANGED <<handlerVars, predicting, cameraVars, available, reopened>>
          /\ crashed' \in BOOLEAN
      BY <1>0, <1>5 DEF PostAsync, ViewTypeOK
    <2>3. CASE handler = NoHandler
      BY <1>0, <1>5, <1>p, <2>1, <2>2, <2>3 DEF PostAsync
    <2>4. CASE handler # NoHandler
      <3>1. handler \in Handlers /\ running = {handler} /\ Post(handler, main, running)
        BY <1>0, <1>5, <2>4 DEF PostAsync, ViewTypeOK, ThreadOfHandler
      <3>2. /\ queue' \in [Handlers -> Seq(Messages)]
            /\ \A h \in Handlers : h \notin running => queue'[h] = queue[h]
        BY <1>0, <2>1, <3>1, Posted
      <3> QED BY <1>p, <2>1, <2>2, <3>2
    <2> QED BY <2>3, <2>4
  <1>6. CASE PredictTick
    <2>1. /\ handler \in Handlers /\ "predict" \in Messages
          /\ Post(handler, "predict", running) /\ running = {handler}
      BY <1>0, <1>6 DEF PredictTick, ViewTypeOK, Messages, ThreadOfHandler
    <2>2. /\ queue' \in [Handlers -> Seq(Messages)]
          /\ \A h \in Handlers : h \notin running => queue'[h] = queue[h]
      BY <1>0, <2>1, Posted
    <2> QED BY <1>0, <1>6, <1>p, <2>2 DEF PredictTick, ViewTypeOK
  <1>7. ASSUME NEW h \in Handlers, HandlerThread(h)
        PROVE  ViewTypeOK' /\ ThreadOfHandler' /\ PredictionKeepsItsClassifier'
    <2>1. /\ UNCHANGED <<available, main, crashed>>
          /\ camera' \in BOOLEAN /\ preview' \in {"no", "yes", "failed"}
          /\ classifying' \in BOOLEAN /\ reopened' \in BOOLEAN
      BY <1>0, <1>7, CameraTypes, HandlerGoes
    <2>2. CASE /\ predicting' = {} /\ handler' = NoHandler /\ running' = {}
               /\ queue' \in [Handlers -> Seq(Messages)] /\ \A g \in Handlers : queue'[g] = <<>>
      BY <1>0, <2>1, <2>2 DEF ViewTypeOK, ThreadOfHandler, PredictionKeepsItsClassifier
    <2>3. CASE /\ handler' = handler /\ running' = running /\ running = {h}
               /\ queue' \in [Handlers -> Seq(Messages)]
               /\ \A g \in Handlers : g # h => queue'[g] = <<>>
               /\ predicting' \subseteq {h} /\ (predicting' # {} => classifying')
      BY <1>0, <2>1, <2>3 DEF ViewTypeOK, ThreadOfHandler, PredictionKeepsItsClassifier
    <2>4. CASE predicting' \subseteq predicting /\ UNCHANGED <<handlerVars, queue, cameraVars>>
      <3>1. UNCHANGED <<handler, running, queue, classifying>>
        BY <2>4 DEF handlerVars, cameraVars
      <3> QED BY <1>0, <2>1, <2>4, <3>1
              DEF ViewTypeOK, ThreadOfHandler, PredictionKeepsItsClassifier
    <2> QED BY <1>0, <1>7, <2>2, <2>3, <2>4, HandlerGoes
  <1>8. CASE BeginAsync("open") /\ UNCHANGED available
    BY <1>0, <1>2, <1>8 DEF Requests, ViewTypeOK
  <1>9. CASE BeginAsync("close") /\ available' \in BOOLEAN
    BY <1>2, <1>9 DEF Requests
  <1> QED BY <1>1, <1>3, <1>4, <1>5, <1>6, <1>7, <1>8, <1>9, ScreenSteps

\* Whatever step the screen takes, what has to be closed stays before its request.
LEMMA WillCloseStep ==
  ASSUME TypeOK, ThreadOfHandler, OpenIsOfResumed, PausedWillClose, [Next]_vars
  PROVE  OpenIsOfResumed' /\ PausedWillClose'
  <1>0. /\ ViewTypeOK /\ queue \in [Handlers -> Seq(Messages)]
        /\ main \in {"open", "close", "free"} /\ handler \in Handlers \cup {NoHandler}
    BY DEF TypeOK, ViewTypeOK, Requests
  <1>1. CASE UNCHANGED viewVars /\ late' = late /\ (resumed' = resumed \/ resumed')
    <2>1. UNCHANGED <<queue, camera, main, reopened, crashed>>
      BY <1>1 DEF viewVars, cameraVars
    <2> QED BY <1>1, <2>1 DEF OpenIsOfResumed, PausedWillClose, OnTime
  <1>2. CASE BeginAsync("open") /\ late' = (late \/ ~resumed')
    BY <1>2 DEF BeginAsync, OpenIsOfResumed, PausedWillClose, OnTime
  <1>3. CASE BeginAsync("close")
    BY <1>3 DEF BeginAsync, OpenIsOfResumed, PausedWillClose
  <1>4. CASE UNCHANGED <<queue, cameraVars, main, reopened, crashed, late, resumed>>
    BY <1>4 DEF OpenIsOfResumed, PausedWillClose, OnTime, cameraVars
  \* A message that does not open is posted behind what has to be closed.
  <1>p. ASSUME NEW h \in Handlers, NEW msg \in Messages, msg # "open",
               queue'[h] = Append(queue[h], msg),
               \A g \in Handlers : g # h => queue'[g] = queue[g],
               UNCHANGED <<cameraVars, main, reopened, crashed, late, resumed>>
        PROVE  OpenIsOfResumed' /\ PausedWillClose'
    <2>1. OpenIsOfResumed' /\ camera' = camera
      BY <1>p DEF OpenIsOfResumed, OnTime, cameraVars
    <2>2. SUFFICES ASSUME OnTime, ~resumed, main # "close"
                   PROVE  /\ \A g \in Handlers : OpensAreClosed(queue'[g])
                          /\ camera => \E g \in Handlers : ClosedAfter(queue'[g], 0)
      BY <1>p, <2>1 DEF PausedWillClose, OnTime
    <2>3. /\ \A g \in Handlers : OpensAreClosed(queue[g])
          /\ camera => \E g \in Handlers : ClosedAfter(queue[g], 0)
      BY <2>2 DEF PausedWillClose
    <2>4. /\ OpensAreClosed(queue'[h])
          /\ ClosedAfter(queue[h], 0) => ClosedAfter(queue'[h], 0)
      BY <1>0, <1>p, <2>3, PostedBehind
    <2> QED BY <1>p, <2>3, <2>4
  <1>5. ASSUME NEW msg \in {"preview", "size", "close"}, EnsureAndPost(msg),
               UNCHANGED <<late, resumed>>
        PROVE  OpenIsOfResumed' /\ PausedWillClose'
    <2>1. /\ EnsureHandler /\ Post(handler', msg, running')
          /\ UNCHANGED <<cameraVars, main, reopened, crashed>>
          /\ msg \in Messages /\ msg # "open"
      BY <1>5 DEF EnsureAndPost, Messages, Requests
    <2>2. handler' \in Handlers /\ running' = {handler'}
      BY <1>0, <2>1, Ensured
    <2>3. /\ queue'[handler'] = Append(queue[handler'], msg)
          /\ \A g \in Handlers : g # handler' => queue'[g] = queue[g]
      BY <1>0, <2>1, <2>2, Posted
    <2> QED BY <1>5, <1>p, <2>1, <2>2, <2>3
  <1>6. CASE PostAsync /\ UNCHANGED <<late, resumed>>
    <2>1. /\ main # "free" /\ main' = "free" /\ camera' = camera /\ reopened' = reopened
          /\ ~crashed
      BY <1>6 DEF PostAsync, cameraVars
    <2>2. OpenIsOfResumed'
      BY <2>1 DEF OpenIsOfResumed
    <2>3. SUFFICES ASSUME ~crashed', ~late, ~reopened, ~resumed PROVE PausedWillClose'
      BY <1>6, <2>1, <2>2 DEF PausedWillClose, OnTime
    <2>4. main = "close"
      BY <1>0, <2>1, <2>3 DEF OpenIsOfResumed, OnTime
    <2>5. handler \in Handlers /\ running = {handler} /\ Post(handler, "close", running)
      BY <1>0, <1>6, <2>3, <2>4 DEF PostAsync, ThreadOfHandler
    <2>6. /\ queue'[handler] = Append(queue[handler], "close")
          /\ \A g \in Handlers : g # handler => queue'[g] = <<>>
      BY <1>0, <2>5, Posted DEF ThreadOfHandler, Messages, Requests
    <2>7. OpensAreClosed(queue'[handler]) /\ ClosedAfter(queue'[handler], 0)
      BY <1>0, <2>5, <2>6, PostedBehind DEF Messages, Requests
    <2> QED BY <2>5, <2>6, <2>7, EmptyQueue DEF PausedWillClose
  <1>7. CASE PredictTick /\ UNCHANGED <<late, resumed>>
    <2>1. /\ handler \in Handlers /\ "predict" \in Messages
          /\ Post(handler, "predict", running) /\ running = {handler}
          /\ UNCHANGED <<cameraVars, main, reopened, crashed>>
      BY <1>0, <1>7 DEF PredictTick, Messages, ThreadOfHandler
    <2>2. /\ queue'[handler] = Append(queue[handler], "predict")
          /\ \A g \in Handlers : g # handler => queue'[g] = queue[g]
      BY <1>0, <2>1, Posted
    <2> QED BY <1>7, <1>p, <2>1, <2>2
  <1>8. ASSUME NEW h \in Handlers, HandlerThread(h), UNCHANGED <<late, resumed>>
        PROVE  OpenIsOfResumed' /\ PausedWillClose'
    <2>1. ~crashed /\ UNCHANGED <<main, crashed>> /\ (reopened => reopened')
      BY <1>0, <1>8, HandlerGoes
    <2>2. OpenIsOfResumed'
      BY <1>8, <2>1 DEF OpenIsOfResumed, OnTime
    <2>3. SUFFICES ASSUME OnTime, ~reopened', ~resumed, main # "close"
                   PROVE  /\ \A g \in Handlers : OpensAreClosed(queue'[g])
                          /\ camera' => \E g \in Handlers : ClosedAfter(queue'[g], 0)
      BY <1>8, <2>1, <2>2 DEF PausedWillClose, OnTime
    <2>4. /\ \A g \in Handlers : OpensAreClosed(queue[g])
          /\ camera => \E g \in Handlers : ClosedAfter(queue[g], 0)
      BY <2>3 DEF PausedWillClose
    <2>5. CASE (\A g \in Handlers : queue'[g] = <<>>) /\ (reopened' \/ ~camera')
      BY <2>3, <2>5, EmptyQueue
    <2>6. CASE /\ queue[h] # <<>> /\ queue'[h] = Tail(queue[h])
               /\ \A g \in Handlers : g # h => queue'[g] = queue[g] /\ queue'[g] = <<>>
               /\ Head(queue[h]) = "open" => ~camera
               /\ Head(queue[h]) # "open" => camera' = camera
               /\ Head(queue[h]) = "close" => ~camera
      <3>1. \A g \in Handlers : OpensAreClosed(queue'[g])
        BY <1>0, <2>4, <2>6, TakenFromFront
      <3>2. ASSUME camera' PROVE ClosedAfter(queue'[h], 0)
        <4>1. CASE Head(queue[h]) = "open"
          BY <1>0, <2>4, <2>6, <4>1, TakenFromFront
        <4>2. CASE Head(queue[h]) # "open"
          <5>1. camera /\ Head(queue[h]) # "close"
            BY <2>6, <3>2, <4>2
          <5>2. ClosedAfter(queue[h], 0)
            BY <2>4, <2>6, <5>1, EmptyQueue
          <5> QED BY <1>0, <2>6, <5>1, <5>2, TakenFromFront
        <4> QED BY <4>1, <4>2
      <3> QED BY <3>1, <3>2
    <2>7. CASE UNCHANGED <<queue, cameraVars>>
      BY <2>4, <2>7 DEF cameraVars
    <2> QED BY <1>0, <1>8, <2>5, <2>6, <2>7, HandlerGoes
  <1> QED BY <1>1, <1>2, <1>3, <1>4, <1>5, <1>6, <1>7, <1>8, ScreenSteps

\* What the permission's variables may hold.
PermissionTypeOK ==
  /\ granted \in BOOLEAN /\ permSettling \in BOOLEAN /\ late \in BOOLEAN
  /\ asking \in {"no", "delayed", "dialog"}

\* Asking for the permission leaves its variables what they may be.
LEMMA AskTypes ==
  ASSUME TypeOK, NEW isResumed \in BOOLEAN, GrantPermissionAndOpen(isResumed)
  PROVE  PermissionTypeOK'
  <1>0. PermissionTypeOK
    BY DEF TypeOK, PermissionTypeOK
  <1>1. CASE permSettling
    BY <1>0, <1>1 DEF GrantPermissionAndOpen, permissionVars, PermissionTypeOK
  <1>2. CASE ~permSettling /\ granted
    BY <1>0, <1>2 DEF GrantPermissionAndOpen, OpenCameraAsync, PermissionTypeOK
  <1>3. CASE ~permSettling /\ ~granted
    BY <1>0, <1>3 DEF GrantPermissionAndOpen, PermissionTypeOK
  <1> QED BY <1>1, <1>2, <1>3

\* ... and so does the pause that cancels it.
LEMMA CancelTypes ==
  ASSUME TypeOK, CancelAnimation
  PROVE  PermissionTypeOK' /\ finishing' \in BOOLEAN
  <1>1. finishing' \in BOOLEAN
    BY DEF CancelAnimation, TypeOK
  <1>2. CASE GrantPermissionAndOpen(resumed)
    BY <1>1, <1>2, AskTypes DEF TypeOK
  <1>3. CASE UNCHANGED permissionVars
    BY <1>1, <1>3 DEF permissionVars, TypeOK, PermissionTypeOK
  <1> QED BY <1>2, <1>3 DEF CancelAnimation

\* The activity, its layout and its permission keep their types at every step.
LEMMA TypeStep ==
  ASSUME TypeOK, PostedByResumes, ViewTypeOK', [Next]_vars
  PROVE  TypeOK' /\ PostedByResumes'
  <1>0. /\ resumes \in Nat /\ posted \in Nat /\ MaxResumes \in Nat /\ resumes <= MaxResumes
        /\ posted <= resumes
    BY ScreenAssumption DEF TypeOK, PostedByResumes
  <1>p. PermissionTypeOK
    BY DEF TypeOK, PermissionTypeOK
  <1>c. ASSUME /\ resumes' \in Nat /\ posted' \in Nat /\ posted' <= resumes' /\ resumes' <= MaxResumes
        PROVE  resumes' \in 0..MaxResumes /\ posted' \in 0..MaxResumes /\ PostedByResumes'
    BY <1>0, <1>c DEF PostedByResumes
  <1>a. ASSUME /\ resumes' \in Nat /\ posted' \in Nat /\ posted' <= resumes' /\ resumes' <= MaxResumes
               /\ resumed' \in BOOLEAN /\ finishing' \in BOOLEAN /\ opened' \in BOOLEAN
               /\ cancelEnds' \in BOOLEAN
               /\ attached' \in {"no", "yes", "leaving", "gone"}
               /\ anim' \in {"none", "opening", "settling", "closing"}
               /\ PermissionTypeOK'
        PROVE  TypeOK' /\ PostedByResumes'
    BY <1>a, <1>c, Zenon DEF TypeOK, PermissionTypeOK
  <1>1. CASE Resume
    <2>1. /\ resumes' = resumes + 1 /\ resumes < MaxResumes /\ (posted' = posted \/ posted' = posted + 1)
          /\ resumed' = TRUE /\ UNCHANGED <<attached, finishing, opened, anim, cancelEnds>>
      BY <1>1 DEF Resume
    <2>2. PermissionTypeOK'
      BY <1>1, <1>p, AskTypes DEF Resume, permissionVars, PermissionTypeOK
    <2>3. resumes' \in Nat /\ posted' \in Nat /\ posted' <= resumes' /\ resumes' <= MaxResumes
      BY <1>0, <2>1
    <2> QED BY <1>a, <2>1, <2>2, <2>3, Zenon DEF TypeOK
  <1>u. ASSUME resumes' = resumes, posted' = posted
        PROVE  resumes' \in Nat /\ posted' \in Nat /\ posted' <= resumes' /\ resumes' <= MaxResumes
    BY <1>0, <1>u
  <1>2. CASE Pause
    <2>1. /\ UNCHANGED <<resumes, posted, attached, finishing, opened, anim, cancelEnds>>
          /\ resumed' = FALSE /\ PermissionTypeOK'
      BY <1>2, <1>p DEF Pause, layoutVars, permissionVars, PermissionTypeOK
    <2> QED BY <1>a, <1>u, <2>1, Zenon DEF TypeOK
  <1>3. CASE Attach \/ SurfaceComesOrChanges \/ SurfaceGoes \/ Detach
    <2>1. /\ UNCHANGED <<resumes, posted, resumed, finishing, opened, anim, cancelEnds>>
          /\ attached' \in {attached, "yes", "leaving", "gone"} /\ PermissionTypeOK'
      BY <1>3, <1>p DEF Attach, SurfaceComesOrChanges, SurfaceGoes, Detach, layoutVars,
                        permissionVars, activityVars, PermissionTypeOK
    <2>2. attached' \in {"no", "yes", "leaving", "gone"}
      BY <2>1 DEF TypeOK
    <2> QED BY <1>a, <1>u, <2>1, <2>2, Zenon DEF TypeOK
  <1>4. CASE RequestPermission
    <2>1. /\ UNCHANGED <<resumes, posted, resumed, attached, finishing, opened, anim, cancelEnds>>
          /\ PermissionTypeOK'
      BY <1>4, <1>p DEF RequestPermission, activityVars, layoutVars, PermissionTypeOK
    <2> QED BY <1>a, <1>u, <2>1, Zenon DEF TypeOK
  <1>5. CASE AnswerPermission
    <2>1. CASE UNCHANGED <<activityVars, layoutVars>> /\ PermissionTypeOK'
      BY <1>a, <1>u, <2>1, Zenon DEF TypeOK, activityVars, layoutVars
    <2>2. CASE /\ finishing' \in BOOLEAN /\ anim' = "closing" /\ opened' = FALSE
               /\ UNCHANGED <<resumes, resumed, attached, posted, cancelEnds>>
               /\ PermissionTypeOK'
      BY <1>a, <1>u, <2>2, Zenon DEF TypeOK
    <2>3. PermissionTypeOK'
      BY <1>5, <1>p DEF AnswerPermission, OpenCameraAsync, PermissionTypeOK, TypeOK
    <2> QED BY <1>5, <2>1, <2>2, <2>3 DEF AnswerPermission
  <1>6. CASE RunPostedOpen
    <2>1. /\ posted' = posted - 1 /\ posted > 0 /\ CancelAnimation
          /\ anim' = "opening" /\ opened' = TRUE
          /\ UNCHANGED <<resumes, resumed, attached, cancelEnds>>
      BY <1>6 DEF RunPostedOpen, Open
    <2>2. resumes' \in Nat /\ posted' \in Nat /\ posted' <= resumes' /\ resumes' <= MaxResumes
      BY <1>0, <2>1
    <2> QED BY <1>a, <2>1, <2>2, CancelTypes, Zenon DEF TypeOK
  <1>7. CASE StartNestedScroll \/ DragCancelled \/ CloseLayout
    <2>1. /\ CancelAnimation /\ anim' \in {"none", "settling", "closing"}
          /\ (opened' = opened \/ opened' = TRUE \/ opened' = FALSE)
          /\ UNCHANGED <<resumes, posted, resumed, attached, cancelEnds>>
      BY <1>7 DEF StartNestedScroll, DragCancelled, CloseLayout, Open, Close
    <2>2. anim' \in {"none", "opening", "settling", "closing"} /\ opened' \in BOOLEAN
      BY <2>1 DEF TypeOK
    <2> QED BY <1>a, <1>u, <2>1, <2>2, CancelTypes, Zenon DEF TypeOK
  <1>8. CASE AnimationEnds
    <2>1. /\ anim' = "none" /\ UNCHANGED <<resumes, resumed, attached, opened, posted, cancelEnds>>
          /\ finishing' \in BOOLEAN
      BY <1>8 DEF AnimationEnds, TypeOK
    <2>2. PermissionTypeOK'
      BY <1>8, <1>p, AskTypes DEF AnimationEnds, permissionVars, PermissionTypeOK, TypeOK
    <2> QED BY <1>a, <1>u, <2>1, <2>2, Zenon DEF TypeOK
  <1>9. CASE Looper \/ Timer \/ (\E h \in Handlers : Handles(h)) \/ UNCHANGED vars
    <2>1. UNCHANGED <<activityVars, layoutVars, permissionVars>>
      BY <1>9 DEF Looper, Timer, Handles, screenVars, vars
    <2>2. PermissionTypeOK'
      BY <1>p, <2>1 DEF permissionVars, PermissionTypeOK
    <2> QED BY <1>a, <1>u, <2>1, <2>2, Zenon DEF TypeOK, activityVars, layoutVars
  <1> QED BY <1>1, <1>2, <1>3, <1>4, <1>5, <1>6, <1>7, <1>8, <1>9 DEF Next

-----------------------------------------------------------------------------
\* The activity starts paused, with a view that has no thread and no camera.
LEMMA InitInv == Init => Inv
  <1> SUFFICES ASSUME Init PROVE Inv
    OBVIOUS
  <1>1. queue \in [Handlers -> Seq(Messages)] /\ \A h \in Handlers : queue[h] = <<>>
    BY EmptyQueue DEF Init, ViewInit
  <1>2. ViewTypeOK
    BY <1>1 DEF Init, ViewInit, ViewTypeOK
  <1>3. resumes \in 0..MaxResumes /\ posted \in 0..MaxResumes /\ PostedByResumes
    BY ScreenAssumption DEF Init, PostedByResumes
  <1>4. TypeOK
    BY <1>2, <1>3, Zenon DEF Init, TypeOK
  <1>5. ThreadOfHandler /\ PredictionKeepsItsClassifier
    BY <1>1 DEF Init, ViewInit, ThreadOfHandler, PredictionKeepsItsClassifier
  <1>6. OpenIsOfResumed /\ PausedWillClose
    BY <1>1, EmptyQueue DEF Init, ViewInit, OpenIsOfResumed, PausedWillClose
  <1> QED BY <1>3, <1>4, <1>5, <1>6 DEF Inv

\* The inductive invariant holds throughout.
LEMMA Invariant == Spec => []Inv
  <1>1. Inv /\ [Next]_vars => Inv'
    BY ViewStep, TypeStep, WillCloseStep DEF Inv
  <1> QED BY InitInv, <1>1, PTL DEF Spec

\* Every variable keeps to the values the code can give it.
THEOREM TypeCorrect == Spec => []TypeOK
  <1>1. Inv => TypeOK
    BY DEF Inv
  <1> QED BY Invariant, <1>1, PTL

\* CameraTextureView.ensureHandler and closeCameraSync: however often the handler
\* is dropped and made anew, no two of its threads run at once.
THEOREM HandlerThreadIsOne == Spec => []OneHandlerThread
  <1>1. Inv => OneHandlerThread
    BY DEF Inv, ThreadOfHandler, OneHandlerThread
  <1> QED BY Invariant, <1>1, PTL

\* CameraClassifierView: the classifier is never closed while a prediction uses
\* it, although the prediction holds no lock.
THEOREM ClassifierOutlivesPrediction == Spec => []PredictionKeepsItsClassifier
  <1>1. Inv => PredictionKeepsItsClassifier
    BY DEF Inv
  <1> QED BY Invariant, <1>1, PTL

\* A paused activity has closed its camera once nothing is under way, unless an
\* open was requested too late or twice.
THEOREM PauseClosesCamera == Spec => []PausedClosesCameraUnlessLateOrTwice
  <1>1. Inv => PausedClosesCameraUnlessLateOrTwice
    <2> SUFFICES ASSUME Inv, ~resumed, Quiet, ~late, ~reopened, camera PROVE FALSE
      BY DEF PausedClosesCameraUnlessLateOrTwice
    <2>1. \E h \in Handlers : ClosedAfter(queue[h], 0)
      BY DEF Inv, PausedWillClose, OnTime, Quiet
    <2> QED BY <2>1, EmptyQueue DEF Quiet
  <1> QED BY Invariant, <1>1, PTL

=============================================================================
