----------------------------- MODULE CameraScreen -----------------------------
(***************************************************************************)
(* SampleOfCameraActivity: a CameraClassifierView inside an                *)
(* ElasticDragDismissLayout.  The camera is opened by the end of the       *)
(* layout's opening animation, which onResume posts, or by onResume itself *)
(* once the layout is open; the permission may have to be asked for first. *)
(* onPause closes the camera.  None of what was posted is cancelled, so    *)
(* requests may arrive late or twice.                                      *)
(*                                                                         *)
(* Whether AnimatorSet.cancel() still calls onAnimationEnd on a listener   *)
(* that removed itself in onAnimationCancel depends on the platform.       *)
(***************************************************************************)
EXTENDS CameraHandler

CONSTANT MaxResumes   \* bound: how many times the activity is resumed

ASSUME ScreenAssumption == MaxResumes \in Nat

VARIABLES
  resumes,       \* how many times so far
  resumed,
  attached,      \* the view: "no", "yes", "leaving" (its surface is gone), "gone"
  finishing,
  opened,        \* the layout's mIsOpened
  posted,        \* opening animations that postOpen has posted
  anim,          \* mAnimSet: "none", "opening", "settling" (no end action), "closing"
  cancelEnds,    \* does the platform call onAnimationEnd after onAnimationCancel?
  granted,       \* the CAMERA permission
  permSettling,  \* mPermSettling
  asking,        \* the request for it: "no", "delayed", "dialog"
  late           \* history: an open was requested while paused

activityVars   == <<resumes, resumed, attached, finishing>>
layoutVars     == <<opened, posted, anim, cancelEnds>>
permissionVars == <<granted, permSettling, asking, late>>
vars == <<viewVars, activityVars, layoutVars, permissionVars>>

Init ==
  /\ ViewInit
  /\ resumes = 0 /\ resumed = FALSE /\ attached = "no" /\ finishing = FALSE
  /\ opened = FALSE /\ posted = 0 /\ anim = "none" /\ cancelEnds \in BOOLEAN
  /\ granted \in BOOLEAN /\ permSettling = FALSE /\ asking = "no" /\ late = FALSE

KeepView == MainFree /\ UNCHANGED viewVars

-----------------------------------------------------------------------------
(* Asking for the permission, and the camera.                              *)

OpenCameraAsync(isResumed) ==
  /\ BeginAsync("open") /\ UNCHANGED available
  /\ permSettling' = FALSE
  /\ late' = (late \/ ~isResumed)

\* grantPermissionAndOpenCameraAsync
GrantPermissionAndOpen(isResumed) ==
  IF permSettling THEN KeepView /\ UNCHANGED permissionVars
  ELSE IF granted THEN OpenCameraAsync(isResumed) /\ UNCHANGED <<granted, asking>>
  ELSE KeepView /\ permSettling' = TRUE /\ asking' = "delayed" /\ UNCHANGED <<granted, late>>

\* 400 ms later the system's dialog opens.
RequestPermission ==
  /\ asking = "delayed" /\ asking' = "dialog"
  /\ KeepView
  /\ UNCHANGED <<activityVars, layoutVars, granted, permSettling, late>>

-----------------------------------------------------------------------------
(* ElasticDragDismissLayout.                                               *)

\* Cancels the animation that runs; it may still take itself for ended, which
\* asks for the camera or finishes the activity.
CancelAnimation ==
  LET ends == cancelEnds /\ anim # "none"
  IN /\ IF ends /\ anim = "opening"
          THEN GrantPermissionAndOpen(resumed)
          ELSE KeepView /\ UNCHANGED permissionVars
     /\ finishing' = (finishing \/ (ends /\ anim = "closing"))

\* open(endAction), a null action when the animation only settles the view.
Open(as) ==
  /\ CancelAnimation
  /\ anim' = as /\ opened' = TRUE
  /\ UNCHANGED <<resumes, resumed, attached, cancelEnds>>

\* The posted runnable of postOpen.
RunPostedOpen ==
  /\ posted > 0 /\ attached # "no"
  /\ posted' = posted - 1
  /\ Open("opening")

\* onStartNestedScroll: a finger on the view stops it where it is; onSizeChanged does
\* the same.
StartNestedScroll ==
  /\ resumed /\ attached = "yes" /\ anim # "none"
  /\ CancelAnimation /\ anim' = "none"
  /\ UNCHANGED <<resumes, resumed, attached, opened, posted, cancelEnds>>

\* onDragCancel
DragCancelled == resumed /\ attached = "yes" /\ Open("settling") /\ UNCHANGED posted

\* close(): by the back key, a press beside the view or a drag over the limit.
Close ==
  /\ CancelAnimation
  /\ anim' = "closing" /\ opened' = FALSE
  /\ UNCHANGED <<resumes, resumed, attached, posted, cancelEnds>>

CloseLayout == resumed /\ Close

\* onAnimationEnd
AnimationEnds ==
  /\ anim # "none" /\ anim' = "none"
  /\ IF anim = "opening"
       THEN GrantPermissionAndOpen(resumed)
       ELSE KeepView /\ UNCHANGED permissionVars
  /\ finishing' = (finishing \/ anim = "closing")
  /\ UNCHANGED <<resumes, resumed, attached, opened, posted, cancelEnds>>

-----------------------------------------------------------------------------
(* The activity.                                                           *)

\* onResume: opens the camera, or the layout whose animation will.
Resume ==
  /\ ~resumed /\ ~finishing /\ attached \in {"no", "yes"} /\ resumes < MaxResumes
  /\ resumed' = TRUE /\ resumes' = resumes + 1
  /\ IF opened
       THEN GrantPermissionAndOpen(TRUE) /\ UNCHANGED posted
       ELSE KeepView /\ posted' = posted + 1 /\ UNCHANGED permissionVars
  /\ UNCHANGED <<attached, finishing, opened, anim, cancelEnds>>

\* Mutant of Pause: the camera is left to the view.
PauseOnly ==
  /\ resumed /\ resumed' = FALSE
  /\ KeepView
  /\ UNCHANGED <<resumes, attached, finishing, layoutVars, permissionVars>>

\* Mutant of Pause: the main thread closes the camera itself.
PauseClosesItself ==
  /\ resumed /\ resumed' = FALSE /\ MainFree
  /\ camera' = FALSE /\ preview' = "no" /\ classifying' = FALSE
  /\ QuitLooper(queue)
  /\ UNCHANGED <<predicting, available, main, reopened, crashed, resumes, attached,
                 finishing, layoutVars, permissionVars>>

\* onPause
Pause ==
  /\ resumed /\ resumed' = FALSE
  /\ BeginAsync("close") /\ UNCHANGED available
  /\ UNCHANGED <<resumes, attached, finishing, layoutVars, permissionVars>>

\* The user answers; a refusal is a press of the back key.
AnswerPermission ==
  /\ asking = "dialog" /\ asking' = "no"
  /\ \/ /\ finishing /\ KeepView
        /\ granted' \in BOOLEAN
        /\ UNCHANGED <<activityVars, layoutVars, permSettling, late>>
     \/ /\ ~finishing /\ granted' = TRUE
        /\ OpenCameraAsync(resumed)
        /\ UNCHANGED <<activityVars, layoutVars>>
     \/ /\ ~finishing /\ granted' = FALSE
        /\ KeepView
        /\ anim' = "closing" /\ opened' = FALSE
        /\ finishing' = (cancelEnds /\ anim = "closing")
        /\ UNCHANGED <<resumes, resumed, attached, posted, cancelEnds, permSettling, late>>

\* onAttachedToWindow, after the first resume.
Attach ==
  /\ attached = "no" /\ resumes > 0 /\ attached' = "yes"
  /\ MainFree /\ EnsureHandler
  /\ UNCHANGED <<queue, predicting, cameraVars, available, main, reopened, crashed,
                 resumes, resumed, finishing, layoutVars, permissionVars>>

\* A TextureView has its surface until it is detached.
SurfaceComesOrChanges ==
  /\ attached = "yes"
  /\ SurfaceAvailable \/ SurfaceSizeChanged
  /\ UNCHANGED <<activityVars, layoutVars, permissionVars>>

\* Depending on the platform the surface is destroyed before the view ...
SurfaceGoes ==
  /\ attached = "yes" /\ ~resumed /\ attached' = "leaving"
  /\ SurfaceDestroyed
  /\ UNCHANGED <<resumes, resumed, finishing, layoutVars, permissionVars>>

\* ... removes its listener in onDetachedFromWindow, or unnoticed after that.
Detach ==
  /\ attached \in {"yes", "leaving"} /\ ~resumed /\ attached' = "gone"
  /\ BeginAsync("close") /\ available' = FALSE
  /\ UNCHANGED <<resumes, resumed, finishing, layoutVars, permissionVars>>

-----------------------------------------------------------------------------
screenVars == <<activityVars, layoutVars, permissionVars>>

Looper     == PostAsync /\ UNCHANGED screenVars
Timer      == PredictTick /\ UNCHANGED screenVars
Handles(h) == HandlerThread(h) /\ UNCHANGED screenVars

Next ==
  \/ Resume \/ Pause \/ Attach \/ SurfaceComesOrChanges \/ SurfaceGoes \/ Detach
  \/ RequestPermission \/ AnswerPermission
  \/ RunPostedOpen \/ StartNestedScroll \/ DragCancelled \/ CloseLayout \/ AnimationEnds
  \/ Looper \/ Timer \/ \E h \in Handlers : Handles(h)

Spec == Init /\ [][Next]_vars

\* The main looper and a handler thread with messages do not stop.
Fairness ==
  /\ WF_vars(Looper)
  /\ \A h \in Handlers : WF_vars(Handles(h))

FairSpec == Spec /\ Fairness

-----------------------------------------------------------------------------
\* Every variable holds a value the code can give it.
TypeOK ==
  /\ ViewTypeOK
  /\ resumes \in 0..MaxResumes /\ posted \in 0..MaxResumes
  /\ resumed \in BOOLEAN /\ finishing \in BOOLEAN /\ opened \in BOOLEAN
  /\ cancelEnds \in BOOLEAN /\ granted \in BOOLEAN /\ permSettling \in BOOLEAN
  /\ late \in BOOLEAN
  /\ attached \in {"no", "yes", "leaving", "gone"}
  /\ anim \in {"none", "opening", "settling", "closing"}
  /\ asking \in {"no", "delayed", "dialog"}

\* However often the handler is dropped and ensured again, a view never has two
\* handler threads alive, and the one alive is mHandler's.
OneHandlerThread == running \subseteq {handler}

\* So nobody closes the classifier or recycles the bitmap that a prediction,
\* which holds no lock, is using.
PredictionKeepsItsClassifier == predicting # {} => classifying

\* Nothing that was posted or requested is still under way.
Quiet ==
  /\ main = "free" /\ ~crashed
  /\ \A h \in Handlers : queue[h] = <<>>

\* A paused activity has closed its camera, unless an open was requested too late
\* or twice: the second closes the looper that holds the request to close.
PausedClosesCameraUnlessLateOrTwice == ~resumed /\ Quiet /\ ~late /\ ~reopened => ~camera

\* Whichever of the surface and the camera comes last, and whatever messages the
\* quitting loopers drop, a camera with a surface attempts a preview.
PreviewStarts ==
  (camera /\ available /\ preview = "no") ~> (preview # "no" \/ ~camera \/ ~available \/ crashed)
=============================================================================
