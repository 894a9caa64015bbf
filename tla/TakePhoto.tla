------------------------------ MODULE TakePhoto ------------------------------
(***************************************************************************)
(* TakePhotoDelegateActivity: an invisible activity that asks for the      *)
(* permissions, starts a camera application with a file to write to, and   *)
(* returns the photo to the activity that started it.  While the           *)
(* permission dialog or the camera is in front Android may destroy the     *)
(* delegate and later create it anew from the state it saved; a rotation   *)
(* replaces it at once.  The permissions are requested through a fragment  *)
(* that is retained over a rotation with the observer it has, and lost     *)
(* when the activity is destroyed.                                         *)
(***************************************************************************)
EXTENDS Naturals

CONSTANT MaxFiles   \* bound: files created in a run

TakePhotoAssumption == MaxFiles \in Nat \ {0}

VARIABLES
  sdk23,       \* are permissions asked for at run time?
  delegate,    \* "paused", "resumed", "destroyed", "finishing" or "finished"
  inFront,     \* "delegate", "permission" or "camera"
  ifDispatch,  \* mIfDispatchIntent
  photoPath,   \* mPhotoPath
  saved,       \* the instance state
  request,     \* who observes the request: "none", "this", "old" or "lost"
  answer,      \* of the permission dialog, to be delivered
  camera,      \* the camera's state, file and which instance started it
  files,       \* what the files are by now
  opened,      \* history: how often a camera was started
  result       \* what the caller gets

photoVars == <<sdk23, delegate, inFront, ifDispatch, photoPath, saved, request,
               answer, camera, files, opened, result>>

None  == "none"
Files == 1..MaxFiles

Init ==
  /\ sdk23 \in BOOLEAN
  /\ delegate = "paused" /\ inFront = "delegate"
  /\ ifDispatch = TRUE /\ photoPath = 0
  /\ saved = [ifDispatch |-> TRUE, photoPath |-> 0]
  /\ request = None /\ answer = None
  /\ camera = [state |-> None, file |-> 0, by |-> "this"]
  /\ files = [f \in Files |-> "absent"]
  /\ opened = 0 /\ result = [code |-> "canceled", photo |-> 0]

-----------------------------------------------------------------------------
(* dispatchTakePhotoIntent, of this instance or of the one it replaced.    *)

\* There is no camera application, or no file: nothing is said or done.
DispatchNothing == UNCHANGED <<inFront, photoPath, camera, files, opened>>

\* The file is created, empty; its path is a field of the instance that runs.
DispatchCamera(by) ==
  \E f \in Files :
    /\ files[f] = "absent"
    /\ files' = [files EXCEPT ![f] = "empty"]
    /\ photoPath' = IF by = "this" THEN f ELSE photoPath
    /\ camera' = [state |-> "open", file |-> f, by |-> by]
    /\ opened' = opened + 1 /\ inFront' = "camera"

DispatchTakePhotoIntent(by) == DispatchNothing \/ DispatchCamera(by)

-----------------------------------------------------------------------------
(* The life of the delegate.                                               *)

Pending == answer # None \/ camera.state \in {"ok", "canceled"}

\* grantPermAndDispatchTakePhotoIntent: granted before, to be asked for, or
\* refused at installation, which is only said.
GrantPermAndDispatch ==
  \/ DispatchTakePhotoIntent("this") /\ UNCHANGED request
  \/ /\ sdk23 /\ request' = "this" /\ inFront' = "permission"
     /\ UNCHANGED <<photoPath, camera, files, opened>>
  \/ ~sdk23 /\ UNCHANGED <<request, inFront, photoPath, camera, files, opened>>

\* onResume, which Android calls after the answers and results that are due, even
\* when they have finished the delegate.
Resume ==
  /\ delegate \in {"paused", "finishing"} /\ inFront = "delegate" /\ ~Pending
  /\ ifDispatch' = FALSE
  /\ IF ifDispatch
       THEN GrantPermAndDispatch
       ELSE UNCHANGED <<request, inFront, photoPath, camera, files, opened>>
  /\ delegate' = CASE delegate = "finishing" -> "finished"
                   [] inFront' = "delegate"  -> "resumed"
                   [] OTHER                  -> "paused"
  /\ UNCHANGED <<sdk23, saved, answer, result>>

\* A mutant of SaveInstanceState: the path is not saved.
SaveForgetsPath == saved' = [ifDispatch |-> ifDispatch, photoPath |-> 0]

\* onSaveInstanceState.
SaveInstanceState == saved' = [ifDispatch |-> ifDispatch, photoPath |-> photoPath]

\* Android destroys the delegate, or its process, behind what is in front.
Destroy ==
  /\ delegate = "paused" /\ inFront # "delegate"
  /\ SaveInstanceState
  /\ delegate' = "destroyed"
  /\ request' = IF request = None THEN None ELSE "lost"
  /\ UNCHANGED <<sdk23, inFront, ifDispatch, photoPath, answer, camera, files, opened, result>>

\* A mutant of RestoreInstanceState: the flag is not restored.
RestoreForgetsFlag == ifDispatch' = TRUE /\ photoPath' = saved.photoPath

\* onRestoreInstanceState.
RestoreInstanceState == ifDispatch' = saved.ifDispatch /\ photoPath' = saved.photoPath

Recreate ==
  /\ delegate = "destroyed" /\ inFront = "delegate"
  /\ RestoreInstanceState
  /\ delegate' = "paused"
  /\ UNCHANGED <<sdk23, inFront, saved, request, answer, camera, files, opened, result>>

\* A rotation behind the dialog, through which the delegate is visible.
Rotate ==
  /\ delegate = "paused" /\ inFront = "permission" /\ request = "this"
  /\ SaveInstanceState
  /\ ifDispatch' = saved'.ifDispatch /\ photoPath' = saved'.photoPath
  /\ request' = "old"
  /\ UNCHANGED <<sdk23, delegate, inFront, answer, camera, files, opened, result>>

\* Back, while nothing is in front of the delegate.
Back ==
  /\ delegate = "resumed" /\ delegate' = "finished"
  /\ UNCHANGED <<sdk23, inFront, ifDispatch, photoPath, saved, request, answer,
                 camera, files, opened, result>>

-----------------------------------------------------------------------------
(* What was in front comes back with an answer or a result.                *)

AnswerDialog ==
  /\ inFront = "permission"
  /\ inFront' = "delegate" /\ answer' \in {"granted", "denied"}
  /\ UNCHANGED <<sdk23, delegate, ifDispatch, photoPath, saved, request, camera,
                 files, opened, result>>

\* onNext of the request's observer, in the instance that subscribed it; both
\* instances finish the same activity.
DeliverAnswer ==
  /\ delegate = "paused" /\ inFront = "delegate" /\ answer # None
  /\ answer' = None /\ request' = None
  /\ CASE request = "lost" ->
            UNCHANGED <<delegate, inFront, photoPath, camera, files, opened>>
       [] request # "lost" /\ answer = "denied" ->
            /\ delegate' = "finishing"
            /\ UNCHANGED <<inFront, photoPath, camera, files, opened>>
       [] OTHER -> DispatchTakePhotoIntent(request) /\ UNCHANGED delegate
  /\ UNCHANGED <<sdk23, ifDispatch, saved, result>>

\* The camera writes the photo, or puts it elsewhere and leaves the empty file or
\* removes it, or is left.
CameraCloses ==
  /\ inFront = "camera" /\ inFront' = "delegate"
  /\ \/ /\ camera' = [camera EXCEPT !.state = "ok"]
        /\ \E written \in {"photo", "empty", "absent"} :
             files' = [files EXCEPT ![camera.file] = written]
     \/ camera' = [camera EXCEPT !.state = "canceled"] /\ UNCHANGED files
  /\ UNCHANGED <<sdk23, delegate, ifDispatch, photoPath, saved, request, answer,
                 opened, result>>

\* onActivityResult: onTakePhoto and finish.
DeliverResult ==
  /\ delegate = "paused" /\ inFront = "delegate" /\ camera.state \in {"ok", "canceled"}
  /\ delegate' = "finishing"
  /\ camera' = [camera EXCEPT !.state = IF @ = "ok" THEN "taken" ELSE "left"]
  /\ IF camera.state = "ok" /\ photoPath # 0 /\ files[photoPath] # "absent"
       THEN result' = [code |-> "ok", photo |-> photoPath] /\ UNCHANGED photoPath
       ELSE /\ photoPath' = IF camera.state = "ok" THEN 0 ELSE photoPath
            /\ UNCHANGED result
  /\ UNCHANGED <<sdk23, inFront, ifDispatch, saved, request, answer, files, opened>>

Next == \/ Resume \/ Destroy \/ Recreate \/ Rotate \/ Back
        \/ AnswerDialog \/ DeliverAnswer \/ CameraCloses \/ DeliverResult

Spec == Init /\ [][Next]_photoVars

-----------------------------------------------------------------------------
\* However often the delegate is destroyed and created anew, it opens the camera
\* once: mIfDispatchIntent "is for avoiding duplicated intent dispatching".
CameraOpensOnce == opened <= 1

\* The photo the camera has written comes back to the caller.  The exception is
\* a camera started by an instance that a rotation had replaced: the instance
\* that gets the result does not know the path.
PhotoComesBack ==
  /\ delegate = "finished" /\ camera.state = "taken"
  /\ files[camera.file] = "photo" /\ camera.by = "this"
  => result = [code |-> "ok", photo |-> camera.file]
=============================================================================
