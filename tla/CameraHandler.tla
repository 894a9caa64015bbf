---------------------------- MODULE CameraHandler ----------------------------
(***************************************************************************)
(* The camera view that works on a handler thread of its own:              *)
(* CameraClassifierView, and CameraTextureView with the same code for      *)
(* everything but the classifier.  The main thread only posts messages,    *)
(* the handler thread opens, previews and closes the camera under the      *)
(* view's monitor, a timer posts the predictions, which run without it.    *)
(* Closing the camera also quits the looper of mHandler, with every        *)
(* message still in its queue; whoever posts next starts a new thread.     *)
(*                                                                         *)
(* CameraScreen adds the activity that uses the view.                      *)
(***************************************************************************)
EXTENDS Naturals, Sequences

CONSTANT MaxHandlers   \* bound: handler threads alive at once, dead ones are reused

ASSUME HandlerAssumption == MaxHandlers \in Nat \ {0}

Handlers  == 1..MaxHandlers
NoHandler == 0   \* null
Requests  == {"open", "close"}
Messages  == Requests \cup {"preview", "size", "predict"}

VARIABLES
  handler,     \* mHandler
  running,     \* the handler threads whose looper runs
  queue,       \* handler -> its messages
  predicting,  \* the handler threads inside recognizeImage
  camera,      \* mCamera # null
  preview,     \* "no", "yes" (mIsPreviewing) or "failed": of the present camera
  classifying, \* classifier, bitmap and timer exist
  available,   \* isAvailable(): is there a SurfaceTexture?
  main,        \* the request the main thread is about to post, or "free"
  reopened,    \* history: an open found the camera open
  crashed      \* an uncaught NullPointerException

cameraVars  == <<camera, preview, classifying>>
handlerVars == <<handler, running>>
viewVars == <<handlerVars, queue, predicting, cameraVars, available, main, reopened, crashed>>

ViewInit ==
  /\ handler = NoHandler
  /\ running = {}
  /\ queue = [h \in Handlers |-> <<>>]
  /\ predicting = {}
  /\ camera = FALSE /\ preview = "no" /\ classifying = FALSE
  /\ available = FALSE
  /\ main = "free"
  /\ reopened = FALSE /\ crashed = FALSE

-----------------------------------------------------------------------------
(* The main thread.                                                        *)

MainFree == main = "free" /\ ~crashed

Dead == Handlers \ (running \cup predicting)

\* Mutant of EnsureHandler: a new thread for everybody who asks.
AlwaysNewHandler ==
  \E h \in Dead :
    /\ \A g \in Dead : h <= g
    /\ handler' = h /\ running' = running \cup {h}

\* ensureHandler(): a new thread when mHandler is null.
EnsureHandler ==
  IF handler # NoHandler
    THEN UNCHANGED handlerVars
    ELSE \E h \in Dead :
           /\ \A g \in Dead : h <= g
           /\ handler' = h /\ running' = running \cup {h}

\* Handler.post: a looper that has quit drops the message.
Post(h, msg, on) ==
  queue' = IF h \in on THEN [queue EXCEPT ![h] = Append(@, msg)] ELSE queue

\* A callback under the monitor: ensures the handler and posts to it.
EnsureAndPost(msg) ==
  /\ MainFree
  /\ EnsureHandler
  /\ Post(handler', msg, running')
  /\ UNCHANGED <<predicting, cameraVars, main, reopened, crashed>>

\* openCameraAsync and closeCameraAsync hold the monitor for ensureHandler only ...
BeginAsync(request) ==
  /\ MainFree
  /\ EnsureHandler
  /\ main' = request
  /\ UNCHANGED <<queue, predicting, cameraVars, reopened, crashed>>

\* ... and then read mHandler again, which the handler thread may have cleared.
PostAsync ==
  /\ main # "free" /\ ~crashed
  /\ main' = "free"
  /\ IF handler = NoHandler
       THEN crashed' = TRUE /\ UNCHANGED queue
       ELSE Post(handler, main, running) /\ UNCHANGED crashed
  /\ UNCHANGED <<handlerVars, predicting, cameraVars, available, reopened>>

\* Mutant of SurfaceAvailable: the camera is expected to be opened later.
SurfaceOnlyEnsures ==
  /\ ~available /\ MainFree
  /\ EnsureHandler /\ available' = TRUE
  /\ UNCHANGED <<queue, predicting, cameraVars, main, reopened, crashed>>

SurfaceAvailable == ~available /\ EnsureAndPost("preview") /\ available' = TRUE

SurfaceDestroyed == available /\ EnsureAndPost("close") /\ available' = FALSE

\* Whether a message of this kind waits already (a bound, for the repeated ones).
Waiting(msg) == \E h \in Handlers : \E i \in DOMAIN queue[h] : queue[h][i] = msg

SurfaceSizeChanged ==
  /\ available /\ ~Waiting("size")
  /\ EnsureAndPost("size") /\ UNCHANGED available

-----------------------------------------------------------------------------
(* The timer thread.                                                       *)

\* predictCameraPreviewAsync: nothing is posted when mHandler is null.
PredictTick ==
  /\ ~crashed /\ classifying /\ handler # NoHandler /\ ~Waiting("predict")
  /\ Post(handler, "predict", running)
  /\ UNCHANGED <<handlerVars, predicting, cameraVars, available, main, reopened, crashed>>

-----------------------------------------------------------------------------
(* The handler thread: one message at a time.                              *)

Takes(h, msg) ==
  /\ ~crashed /\ h \in running \ predicting
  /\ queue[h] # <<>> /\ Head(queue[h]) = msg

Rest(h) == [queue EXCEPT ![h] = Tail(@)]

\* mHandler.getLooper().quit(): the messages still waiting are dropped.
QuitLooper(rest) ==
  IF handler = NoHandler
    THEN queue' = rest /\ UNCHANGED handlerVars
    ELSE /\ queue' = [rest EXCEPT ![handler] = <<>>]
         /\ running' = running \ {handler}
         /\ handler' = NoHandler

\* safePreviewCamera with a camera and a surface.  setPreviewTexture may throw
\* an IOException, and the classifier's creation anything, which is swallowed.
StartPreview ==
  \/ preview' = "failed" /\ UNCHANGED classifying
  \/ preview' = "yes" /\ classifying' \in BOOLEAN

\* openCameraSync: closes what is open, and its own looper with it.
OpenCameraSync(h) ==
  /\ Takes(h, "open")
  /\ IF camera THEN QuitLooper(Rest(h)) ELSE queue' = Rest(h) /\ UNCHANGED handlerVars
  /\ reopened' = (reopened \/ camera)
  /\ \/ camera' = FALSE /\ preview' = "no" /\ classifying' = FALSE   \* Camera.open throws
     \/ /\ camera' = TRUE
        /\ IF available THEN preview' \in {"yes", "failed"} ELSE preview' = "no"
        /\ classifying' \in {FALSE, preview' = "yes"}
  /\ UNCHANGED <<predicting, available, main, crashed>>

\* closeCameraSync: returns early when nothing is open, and keeps the thread.
CloseCameraSync(h) ==
  /\ Takes(h, "close")
  /\ IF camera
       THEN /\ camera' = FALSE /\ preview' = "no" /\ classifying' = FALSE
            /\ QuitLooper(Rest(h))
       ELSE queue' = Rest(h) /\ UNCHANGED <<handlerVars, cameraVars>>
  /\ UNCHANGED <<predicting, available, main, reopened, crashed>>

SafePreviewCamera(h) ==
  /\ Takes(h, "preview")
  /\ queue' = Rest(h)
  /\ IF camera /\ available /\ preview # "yes"
       THEN StartPreview
       ELSE UNCHANGED <<preview, classifying>>
  /\ UNCHANGED <<handlerVars, predicting, camera, available, main, reopened, crashed>>

\* setPreviewSize stops and restarts a preview that runs.
SetPreviewSize(h) ==
  /\ Takes(h, "size")
  /\ queue' = Rest(h)
  /\ UNCHANGED <<handlerVars, predicting, cameraVars, available, main, reopened, crashed>>

\* The prediction looks for classifier and bitmap and then uses them unlocked.
StartPrediction(h) ==
  /\ Takes(h, "predict")
  /\ queue' = Rest(h)
  /\ predicting' = IF available /\ classifying THEN predicting \cup {h} ELSE predicting
  /\ UNCHANGED <<handlerVars, cameraVars, available, main, reopened, crashed>>

EndPrediction(h) ==
  /\ ~crashed /\ h \in predicting
  /\ predicting' = predicting \ {h}
  /\ UNCHANGED <<handlerVars, queue, cameraVars, available, main, reopened, crashed>>

HandlerThread(h) ==
  \/ OpenCameraSync(h) \/ CloseCameraSync(h) \/ SafePreviewCamera(h)
  \/ SetPreviewSize(h) \/ StartPrediction(h) \/ EndPrediction(h)

-----------------------------------------------------------------------------
ViewTypeOK ==
  /\ handler \in Handlers \cup {NoHandler}
  /\ running \subseteq Handlers
  /\ queue \in [Handlers -> Seq(Messages)]
  /\ predicting \subseteq Handlers
  /\ camera \in BOOLEAN /\ classifying \in BOOLEAN /\ available \in BOOLEAN
  /\ reopened \in BOOLEAN /\ crashed \in BOOLEAN
  /\ preview \in {"no", "yes", "failed"}
  /\ main \in Requests \cup {"free"}
=============================================================================
