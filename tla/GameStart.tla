------------------------------ MODULE GameStart ------------------------------
(***************************************************************************)
(* GameActivity's start-up stream: permission, download, load, game.  Each *)
(* onResume subscribes a new stream and each onPause disposes it, but the  *)
(* io worker that loads the detector cannot be stopped in native code and  *)
(* the detector itself is a global of the native library.  So loads of     *)
(* one stream (the file may arrive twice, see ModelDownload) and of        *)
(* successive streams run side by side on one detector.                    *)
(*                                                                         *)
(* The scan turns results into UI models; the main looper shows or hides   *)
(* the progress dialog for the models whose bundle is a message.           *)
(***************************************************************************)
EXTENDS Naturals, Sequences

CONSTANTS
  MaxSessions,   \* bound: how many times the activity is resumed
  MaxFiles,      \* how often a stream receives its file: ModelDownload allows two
  MaxQueue       \* bound: models of ticks waiting for the main looper

ASSUME GameAssumption ==
  MaxSessions \in Nat \ {0} /\ MaxFiles \in Nat \ {0} /\ MaxQueue \in Nat

Sessions == 1..MaxSessions
FileIds  == 1..MaxFiles
Models   == {"idle", "in", "ok", "failed"}
Messages == {"in", "ok"}   \* the models whose bundle is a String
LoadSteps == {"none", "scheduled", "landmarks", "open", "reading", "emit", "done"}

VARIABLES
  session,    \* the latest stream
  resumed,    \* is it subscribed?
  granted,    \* what the system remembers of the permissions
  asking,     \* the system's dialog about them is open
  download,   \* session -> "none", "running" or "ended"
  files,      \* session -> how many times the file arrived
  content,    \* what DownloadManager stored: the model, another model, garbage
  present,    \* does the file still exist?
  load,       \* session -> file -> progress of the callable that loads it
  faceReady,  \* native sFaceDetector.num_detectors() > 0
  landmarks,  \* native sFaceLandmarksDetector
  model,      \* the scan's accumulated UI model
  queue,      \* models posted to the main looper
  dialog,     \* is the progress dialog shown?
  games,      \* session -> games started
  failed,     \* history: session -> a failure went through its stream
  overlapped, \* history: two loads were inside the native loader at once
  crashed     \* the process was killed by an error

streamVars == <<session, resumed, granted, asking, download, files>>
fileVars   == <<content, present>>
nativeVars == <<faceReady, landmarks, overlapped>>
uiVars     == <<model, queue, dialog>>
vars == <<streamVars, fileVars, load, nativeVars, uiVars, games, failed, crashed>>

Init ==
  /\ session = 0 /\ resumed = FALSE /\ asking = FALSE /\ crashed = FALSE
  /\ granted \in BOOLEAN
  /\ download = [s \in Sessions |-> "none"]
  /\ files = [s \in Sessions |-> 0]
  /\ content \in {"model68", "otherModel", "garbage"}
  /\ present = TRUE
  /\ load = [s \in Sessions |-> [i \in FileIds |-> "none"]]
  /\ faceReady = FALSE /\ landmarks = "empty" /\ overlapped = FALSE
  /\ model = "idle" /\ queue = <<>> /\ dialog = FALSE
  /\ games = [s \in Sessions |-> 0]
  /\ failed = [s \in Sessions |-> FALSE]

Subscribed(s) == resumed /\ s = session

\* The scan's result, and the model posted for it: one without a message changes
\* nothing on the screen.
Scan(result) ==
  /\ model' = result
  /\ queue' = IF result \in Messages THEN Append(queue, result) ELSE queue

-----------------------------------------------------------------------------
(* The main thread.                                                        *)

\* The granted permission reaches downloadFaceDetectorIfOk.
BeginDownload(s) ==
  /\ download' = [download EXCEPT ![s] = "running"]
  /\ model' = "in" /\ queue' = <<"in">>

\* onResume: a new stream; permissions already granted pass at once.
Resume ==
  /\ ~crashed /\ ~resumed /\ session < MaxSessions
  /\ session' = session + 1 /\ resumed' = TRUE
  /\ IF granted
       THEN BeginDownload(session + 1) /\ UNCHANGED asking
       ELSE asking' = TRUE /\ model' = "idle" /\ UNCHANGED <<download, queue>>
  /\ UNCHANGED <<granted, files, fileVars, load, nativeVars, dialog, games, failed, crashed>>

\* The user answers; a stream that is still subscribed goes on.
AnswerPermission ==
  /\ ~crashed /\ asking
  /\ asking' = FALSE
  /\ granted' \in BOOLEAN
  /\ IF resumed /\ granted'
       THEN BeginDownload(session)
       ELSE UNCHANGED <<download, model, queue>>
  /\ UNCHANGED <<session, resumed, files, fileVars, load, nativeVars, dialog, games,
                 failed, crashed>>

\* Mutant of Pause: the models already posted are still delivered.
PauseKeepsQueue ==
  /\ ~crashed /\ resumed
  /\ resumed' = FALSE /\ dialog' = FALSE
  /\ download' = [download EXCEPT ![session] = IF @ = "running" THEN "ended" ELSE @]
  /\ UNCHANGED <<session, granted, asking, files, fileVars, load, nativeVars, model, queue,
                 games, failed, crashed>>

\* onPause: hides the dialog and disposes the stream with all it has posted.
\* A load that has not begun is cancelled, the others go on in native code.
Pause ==
  /\ ~crashed /\ resumed
  /\ resumed' = FALSE /\ dialog' = FALSE /\ queue' = <<>>
  /\ download' = [download EXCEPT ![session] = IF @ = "running" THEN "ended" ELSE @]
  /\ load' = [load EXCEPT ![session] = [i \in FileIds |->
                IF @[i] = "scheduled" THEN "done" ELSE @[i]]]
  /\ UNCHANGED <<session, granted, asking, files, fileVars, nativeVars, model, games,
                 failed, crashed>>

\* The subscriber's accept: a message in progress shows the dialog, a
\* successful one hides it.
Deliver ==
  /\ ~crashed /\ queue # <<>>
  /\ dialog' = (Head(queue) = "in")
  /\ queue' = Tail(queue)
  /\ UNCHANGED <<streamVars, fileVars, load, nativeVars, model, games, failed, crashed>>

\* The life timer and the intro animation of a started game: the scan emits
\* its model again for a result that carries no message.
Tick ==
  /\ ~crashed /\ resumed /\ games[session] > 0 /\ Len(queue) < MaxQueue
  /\ Scan(model)
  /\ UNCHANGED <<streamVars, fileVars, load, nativeVars, dialog, games, failed, crashed>>

-----------------------------------------------------------------------------
(* The download, as ModelDownload shows it to its subscriber.              *)

\* A File: the message that the download is done, the file, and the load's
\* first message, with the load scheduled on another worker.
FileArrives(s) ==
  /\ ~crashed /\ Subscribed(s) /\ download[s] = "running" /\ files[s] < MaxFiles
  /\ files' = [files EXCEPT ![s] = @ + 1]
  /\ load' = [load EXCEPT ![s][files[s] + 1] = "scheduled"]
  /\ model' = "in" /\ queue' = queue \o <<"ok", "in">>
  /\ UNCHANGED <<session, resumed, granted, asking, download, fileVars, nativeVars, dialog,
                 games, failed, crashed>>

\* It completes, or fails with a FileResult that the scan does not look at.
DownloadEnds(s) ==
  /\ ~crashed /\ Subscribed(s) /\ download[s] = "running"
  /\ download' = [download EXCEPT ![s] = "ended"]
  /\ \/ UNCHANGED <<model, queue, failed>>
     \/ Scan(model) /\ failed' = [failed EXCEPT ![s] = TRUE]
  /\ UNCHANGED <<session, resumed, granted, asking, files, fileVars, load, nativeVars,
                 dialog, games, crashed>>

\* Somebody deletes the file.
FileDeleted ==
  /\ present /\ present' = FALSE
  /\ UNCHANGED <<streamVars, content, load, nativeVars, uiVars, games, failed, crashed>>

-----------------------------------------------------------------------------
(* The io worker that loads file i of stream s.                            *)

LoadMoves(s, i, from, to) ==
  /\ ~crashed /\ load[s][i] = from
  /\ load' = [load EXCEPT ![s][i] = to]
  /\ UNCHANGED <<streamVars, fileVars>>

\* The callable throws: a message without a bundle; once disposed nobody
\* takes the error, and RxJavaPlugins.onError kills the application.
LoadFails(s, i, from) ==
  /\ LoadMoves(s, i, from, "done")
  /\ IF Subscribed(s)
       THEN /\ Scan("failed")
            /\ failed' = [failed EXCEPT ![s] = TRUE]
            /\ UNCHANGED crashed
       ELSE crashed' = TRUE /\ UNCHANGED <<model, queue, failed>>
  /\ UNCHANGED <<dialog, games>>

quiet == <<uiVars, games, failed, crashed>>

\* The callable looks for the file and prepares the face detector unless it is
\* ready, which needs no file and cannot fail.
PrepareFaceDetector(s, i) ==
  \/ /\ present /\ LoadMoves(s, i, "scheduled", "landmarks")
     /\ faceReady' = TRUE
     /\ UNCHANGED <<landmarks, overlapped, quiet>>
  \/ ~present /\ LoadFails(s, i, "scheduled") /\ UNCHANGED nativeVars

InLoader(s, i) == load[s][i] \in {"open", "reading"}
Others(s, i) == {p \in Sessions \X FileIds : p # <<s, i>> /\ InLoader(p[1], p[2])}

\* Mutant of IsLandmarksReady: the loader does not ask whether it is ready.
NeverReady(ready) == ~ready

\* isFaceLandmarksDetectorReady: num_parts() > 0.  It depends on the first
\* thing that deserialize fills, so a detector being read may look ready.
IsLandmarksReady(ready) ==
  \/ landmarks \in {"model68", "otherModel"} /\ ready
  \/ landmarks = "empty" /\ ~ready
  \/ landmarks = "partial"

\* Mutant of CheckLandmarks: the landmarks detector is not prepared at all.
AnyLandmarks(s, i) ==
  /\ LoadMoves(s, i, "landmarks", "emit")
  /\ UNCHANGED <<nativeVars, quiet>>

CheckLandmarks(s, i) ==
  /\ \E ready \in BOOLEAN :
       /\ IsLandmarksReady(ready)
       /\ LoadMoves(s, i, "landmarks", IF ready THEN "emit" ELSE "open")
       /\ overlapped' = (overlapped \/ (~ready /\ Others(s, i) # {}))
  /\ UNCHANGED <<faceReady, landmarks, quiet>>

\* dlib::deserialize(path): an exception of its own crosses JNI and aborts.
OpenModel(s, i) ==
  /\ IF present /\ content # "garbage"
       THEN LoadMoves(s, i, "open", "reading") /\ landmarks' = "partial" /\ UNCHANGED crashed
       ELSE LoadMoves(s, i, "open", "done") /\ crashed' = TRUE /\ UNCHANGED landmarks
  /\ UNCHANGED <<faceReady, overlapped, uiVars, games, failed>>

\* ... >> sFaceLandmarksDetector, then the check of num_parts().  What two
\* loads that overlap leave behind is undefined.
ReadModel(s, i) ==
  /\ landmarks' \in IF overlapped THEN {"model68", "otherModel", "partial"} ELSE {content}
  /\ IF landmarks' = "model68"
       THEN LoadMoves(s, i, "reading", "emit") /\ UNCHANGED quiet
       ELSE LoadFails(s, i, "reading")
  /\ UNCHANGED <<faceReady, overlapped>>

\* Mutant of EmitLoaded: the detector is announced, its last message is not.
EmitLoadedSilently(s, i) ==
  /\ LoadMoves(s, i, "emit", "done")
  /\ IF Subscribed(s)
       THEN Scan(model) /\ games' = [games EXCEPT ![s] = @ + 1]
       ELSE UNCHANGED <<model, queue, games>>
  /\ UNCHANGED <<nativeVars, dialog, failed, crashed>>

\* Mutant of EmitLoaded: the message is posted, the detector is not announced.
EmitWithoutGame(s, i) ==
  /\ LoadMoves(s, i, "emit", "done")
  /\ IF Subscribed(s) THEN Scan("ok") ELSE UNCHANGED <<model, queue>>
  /\ UNCHANGED <<games, nativeVars, dialog, failed, crashed>>

\* The last message and LoadDetectorResult, which starts a game.  A disposed
\* stream drops both.
EmitLoaded(s, i) ==
  /\ LoadMoves(s, i, "emit", "done")
  /\ IF Subscribed(s)
       THEN Scan("ok") /\ games' = [games EXCEPT ![s] = @ + 1]
       ELSE UNCHANGED <<model, queue, games>>
  /\ UNCHANGED <<nativeVars, dialog, failed, crashed>>

LoadDetector(s, i) ==
  \/ PrepareFaceDetector(s, i) \/ CheckLandmarks(s, i) \/ OpenModel(s, i)
  \/ ReadModel(s, i) \/ EmitLoaded(s, i)

-----------------------------------------------------------------------------
Next ==
  \/ Resume \/ AnswerPermission \/ Pause \/ Deliver \/ Tick
  \/ \E s \in Sessions : FileArrives(s) \/ DownloadEnds(s)
  \/ FileDeleted
  \/ \E s \in Sessions, i \in FileIds : LoadDetector(s, i)

Spec == Init /\ [][Next]_vars

-----------------------------------------------------------------------------
\* Every variable holds a value the code can give it.
TypeOK ==
  /\ session \in 0..MaxSessions
  /\ resumed \in BOOLEAN /\ granted \in BOOLEAN /\ asking \in BOOLEAN
  /\ present \in BOOLEAN /\ faceReady \in BOOLEAN /\ overlapped \in BOOLEAN
  /\ dialog \in BOOLEAN /\ crashed \in BOOLEAN
  /\ download \in [Sessions -> {"none", "running", "ended"}]
  /\ files \in [Sessions -> 0..MaxFiles]
  /\ content \in {"model68", "otherModel", "garbage"}
  /\ load \in [Sessions -> [FileIds -> LoadSteps]]
  /\ landmarks \in {"empty", "partial", "model68", "otherModel"}
  /\ model \in Models
  /\ queue \in Seq(Messages)
  /\ games \in [Sessions -> 0..MaxFiles]
  /\ failed \in [Sessions -> BOOLEAN]

\* No message posted before a pause brings the dialog back over a paused activity.
PausedShowsNoDialog == ~resumed => ~dialog

Busy(s) == \/ download[s] = "running" \/ queue # <<>>
           \/ \E i \in FileIds : load[s][i] \notin {"none", "done"}

\* The dialog, which cannot be cancelled, stays over a stream with nothing left
\* to do only when something failed or the download ended without its file:
\* two loads that interleave their messages never leave it there.
DialogStaysOnlyAfterFailure ==
  ~crashed /\ resumed /\ dialog /\ ~Busy(session) => failed[session] \/ files[session] = 0

\* Whatever loads of this and of earlier streams are doing, a game never starts
\* before the native library has both detectors.
GameNeedsDetectors ==
  \A s \in Sessions : games[s] > 0 => faceReady /\ landmarks # "empty"

\* A detector that is loaded is not loaded again under a running game, unless
\* two loads had both found it missing.
LoadedDetectorStays ==
  [][landmarks = "model68" /\ ~overlapped' => landmarks' = "model68"]_vars

\* Once its loads have come to an end, a stream that received a file and is still
\* subscribed has started a game or has failed: no combination of loads that
\* share the detector leaves it with neither.
FileLeadsToGame ==
  ~crashed /\ resumed /\ files[session] > 0
    /\ (\A i \in FileIds : load[session][i] \in {"none", "done"})
    => games[session] > 0 \/ failed[session]

Starts == \E s \in Sessions : games'[s] > games[s]

\* dlib-face-landmarks-detector-jni.cpp:149 "It's not a 68 landmarks detector!":
\* the loader refuses other models, so no game runs with one.
GameHas68Landmarks == [][Starts => landmarks # "otherModel"]_vars

=============================================================================
