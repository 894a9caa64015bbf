------------------------------- MODULE Unpack -------------------------------
(***************************************************************************)
(* The model of demo-dlib: a resumed screen downloads an archive, unpacks  *)
(* it on an io worker into a file beside it, unless that file exists, and  *)
(* loads the file.  A pause disposes the stream but does not stop a worker *)
(* that copies; a process death does.  The next screen asks only whether   *)
(* the file exists.                                                        *)
(***************************************************************************)
EXTENDS Naturals

CONSTANT MaxSessions   \* bound: resumes in a run

UnpackAssumption == MaxSessions \in Nat \ {0}

Sessions == 1..MaxSessions

VARIABLES
  current,     \* the last session that began
  live,        \* is its stream subscribed?
  worker,      \* session -> how far its stream is
  unpackFile,  \* "absent", "partial" or "whole"
  writer,      \* the session that created it last
  cut,         \* history: a copy ended early
  ready,       \* isFaceLandmarksDetectorReady
  bar          \* is the progress bar shown?

unpackVars == <<current, live, worker, unpackFile, writer, cut, ready, bar>>
fileVars == <<unpackFile, writer, cut>>

Init ==
  /\ current = 0 /\ live = FALSE
  /\ worker = [s \in Sessions |-> "idle"]
  /\ unpackFile = "absent" /\ writer = 0 /\ cut = FALSE
  /\ ready = FALSE /\ bar = FALSE

Goes(s, from, to) == worker[s] = from /\ worker' = [worker EXCEPT ![s] = to]
Live(s) == live /\ s = current

\* The stream fails or completes: the bar goes if anybody is subscribed.
Ends(s, from) == Goes(s, from, "idle") /\ bar' = (bar /\ ~Live(s))

-----------------------------------------------------------------------------
(* The screen.                                                             *)

Resume ==
  /\ ~live /\ current < MaxSessions
  /\ current' = current + 1 /\ live' = TRUE /\ bar' = TRUE
  /\ worker' = [worker EXCEPT ![current + 1] = "downloading"]
  /\ UNCHANGED <<fileVars, ready>>

\* A mutant of Pause: the worker stops copying.
PauseStopsCopy ==
  /\ live /\ live' = FALSE /\ bar' = FALSE
  /\ worker' = [worker EXCEPT ![current] = "idle"]
  /\ UNCHANGED <<current, fileVars, ready>>

\* onPause: nothing that is queued for the stream runs, what runs goes on; a load may
\* be either.
Pause ==
  /\ live /\ live' = FALSE /\ bar' = FALSE
  /\ \/ worker' = [worker EXCEPT ![current] =
                     IF @ \in {"unpacking", "copying"} THEN @ ELSE "idle"]
     \/ worker[current] = "loading" /\ UNCHANGED worker
  /\ UNCHANGED <<current, fileVars, ready>>

\* The process dies.
Kill ==
  /\ current > 0
  /\ live' = FALSE /\ bar' = FALSE /\ ready' = FALSE
  /\ cut' = (cut \/ \E s \in Sessions : worker[s] = "copying")
  /\ worker' = [s \in Sessions |-> "idle"]
  /\ UNCHANGED <<current, unpackFile, writer>>

-----------------------------------------------------------------------------
(* The stream: the download, on an io worker the unpacking, the bar on the *)
(* main thread, on an io worker the load.                                  *)

Downloaded(s) ==
  /\ Goes(s, "downloading", IF unpackFile = "absent" THEN "unpacking" ELSE "unpacked")
  /\ UNCHANGED <<current, live, fileVars, ready, bar>>

DownloadFails(s) ==
  Ends(s, "downloading") /\ UNCHANGED <<current, live, fileVars, ready>>

\* The archive is opened first; then the output, which empties the file.
CreateFile(s) ==
  /\ Goes(s, "unpacking", "copying")
  /\ unpackFile' = "partial" /\ writer' = s
  /\ UNCHANGED <<current, live, cut, ready, bar>>

ArchiveFails(s) ==
  Ends(s, "unpacking") /\ UNCHANGED <<current, live, fileVars, ready>>

\* The file is whole when the one who emptied it last has written all of it.
CopyEnds(s) ==
  /\ Goes(s, "copying", IF Live(s) THEN "unpacked" ELSE "idle")
  /\ unpackFile' = IF s = writer THEN "whole" ELSE unpackFile
  /\ UNCHANGED <<current, live, writer, cut, ready, bar>>

CopyFails(s) ==
  /\ Ends(s, "copying")
  /\ cut' = (cut \/ s = writer)
  /\ UNCHANGED <<current, live, unpackFile, writer, ready>>

\* showProgressBar("Initializing face detectors...").
ShowInitializing(s) ==
  /\ Goes(s, "unpacked", "loading") /\ bar' = TRUE
  /\ UNCHANGED <<current, live, fileVars, ready>>

\* prepareFaceLandmarksDetector, unless it is ready; a partial file is refused.
LoadDetector(s) ==
  /\ Ends(s, "loading")
  /\ ready' = (ready \/ unpackFile = "whole")
  /\ UNCHANGED <<current, live, fileVars>>

Next ==
  \/ Resume \/ Pause \/ Kill
  \/ \E s \in Sessions :
       \/ Downloaded(s) \/ DownloadFails(s) \/ CreateFile(s) \/ ArchiveFails(s)
       \/ CopyEnds(s) \/ CopyFails(s) \/ ShowInitializing(s) \/ LoadDetector(s)

Spec == Init /\ [][Next]_unpackVars

-----------------------------------------------------------------------------
\* A model that is about to be loaded is whole, unless an earlier copy was cut
\* short, by a death of the process or by an error, or another session's copy is
\* still under way: for these the file exists, which is all that is asked.
LoadSeesWholeModel ==
  \A s \in Sessions :
    worker[s] = "loading" =>
      unpackFile = "whole" \/ cut \/ \E t \in Sessions \ {s} : worker[t] = "copying"
=============================================================================
