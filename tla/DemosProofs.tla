---------------------------- MODULE DemosProofs ----------------------------
(***************************************************************************)
(* What the stand-alone screens promise, for any sizes, distances and      *)
(* numbers of resumes, clicks and files.  Each demo has an inductive       *)
(* invariant of its own, which its own steps keep and which the steps of   *)
(* the others leave alone.                                                 *)
(***************************************************************************)
EXTENDS Demos, Sequences, TLAPS

-----------------------------------------------------------------------------
(* The inductive invariants.                                               *)

Events == {"progress", "failure", "success"}

\* The last event of a load, after which the workers are silent, is not progress;
\* the news are shown once, by the very last event, and until then no click of the
\* list is subscribed to.
NewsInv ==
  /\ screen \in {"resumed", "paused"}
  /\ stream \in {"disposed", "subscribed", "requested", "translating", "sent"}
  /\ uiQueue \in Seq(Events)
  /\ uiError \in BOOLEAN /\ dialog \in BOOLEAN
  /\ subscriptions \in 0..1 /\ debounced \in Nat /\ clicks \in Nat /\ details \in Nat
  /\ stream = "sent" /\ ~uiError =>
       /\ uiQueue = <<>> => dialog = FALSE
       /\ uiQueue # <<>> => uiQueue[Len(uiQueue)] # "progress"
  /\ \A i \in 1..Len(uiQueue) :
       uiQueue[i] = "success" => i = Len(uiQueue) /\ subscriptions = 0 /\ stream = "sent"
  /\ subscriptions # 0 => stream = "sent"
  /\ screen = "paused" => stream = "disposed"
  /\ details + debounced <= clicks

\* An unpacked file is there, and while it is partial the session that emptied it
\* last still copies, or a copy was cut short.
UnpackInv ==
  /\ current \in 0..MaxSessions
  /\ worker \in [U!Sessions -> {"idle", "downloading", "unpacking", "copying",
                                "unpacked", "loading"}]
  /\ cut \in BOOLEAN
  /\ \A s \in U!Sessions : s > current => worker[s] = "idle"
  /\ unpackFile \in {"absent", "partial", "whole"}
  /\ \A s \in U!Sessions : worker[s] \in {"unpacked", "loading"} => unpackFile # "absent"
  /\ unpackFile = "partial" /\ ~cut => writer \in U!Sessions /\ worker[writer] = "copying"
  /\ \A s \in U!Sessions : worker[s] = "copying" => unpackFile # "absent"

Elastics == [total : Int, start : BOOLEAN, end : BOOLEAN, translation : Int,
             opened : BOOLEAN, alpha : Int, animating : BOOLEAN]

\* Something is dragged only in a scroll, and the drag is counted from nothing.
ElasticInv ==
  /\ menu \in BOOLEAN
  /\ elastic \in Elastics
  /\ scrolling \in BOOLEAN /\ offset \in 0..MaxOffset /\ cancelled \in BOOLEAN
  /\ ~elastic.start /\ ~elastic.end => elastic.total = 0
  /\ ~scrolling => ~elastic.start /\ ~elastic.end
  /\ E!DraggedOnlyAtItsEnd
  /\ E!DragSettlesUnlessCancelled

Cameras == [state : {"none", "open", "ok", "canceled", "taken", "left"},
            file : Nat, by : {"this", "old"}]

\* The delegate dispatches once: a request for permissions, its answer and the
\* camera each follow the one before, after the flag was cleared and saved.  Of a
\* camera that this instance started the path is known to it, or saved.
PhotoInv ==
  /\ ifDispatch \in BOOLEAN /\ opened \in 0..1
  /\ delegate \in {"paused", "resumed", "destroyed", "finishing", "finished"}
  /\ inFront \in {"delegate", "permission", "camera"}
  /\ request \in {"none", "this", "old", "lost"}
  /\ answer \in {"none", "granted", "denied"}
  /\ camera \in Cameras
  /\ files \in [P!Files -> {"absent", "empty", "photo"}]
  /\ ifDispatch => /\ delegate = "paused" /\ inFront = "delegate"
                   /\ request = "none" /\ opened = 0
  /\ delegate = "destroyed" => saved.ifDispatch = FALSE
  /\ inFront = "permission" \/ answer # "none" => request # "none"
  /\ request # "none" => opened = 0
  /\ camera.state # "none" => opened = 1 /\ camera.file \in P!Files
  /\ (inFront = "camera") <=> (camera.state = "open")
  /\ camera.by = "this" /\ camera.state \in {"open", "ok"} =>
       photoPath = camera.file /\ (delegate = "destroyed" => saved.photoPath = camera.file)
  /\ camera.by = "this" /\ camera.state = "taken" /\ files[camera.file] = "photo" =>
       result = [code |-> "ok", photo |-> camera.file]

USE DemosAssumption DEF DemosAssumption, U!UnpackAssumption, N!NewsAssumption, P!TakePhotoAssumption,
  E!ElasticAssumption, D!DrawerAssumption

-----------------------------------------------------------------------------
(* The news.                                                               *)

\* A screen that was never resumed satisfies the invariant.
LEMMA NewsStarts == N!Init => NewsInv
  <1> SUFFICES ASSUME N!Init PROVE NewsInv
    OBVIOUS
  <1>1. uiQueue \in Seq(Events) /\ Len(uiQueue) = 0
    BY DEF N!Init
  <1>2. uiError \in BOOLEAN /\ dialog \in BOOLEAN
    BY DEF N!Init
  <1> QED BY <1>1, <1>2 DEF N!Init, NewsInv

\* What the main thread leaves of the events when it takes the first.
LEMMA EventTaken ==
  ASSUME NEW q \in Seq(Events), q # <<>>
  PROVE  /\ Tail(q) \in Seq(Events) /\ Len(q) \in Nat \ {0}
         /\ Len(Tail(q)) = Len(q) - 1 /\ Head(q) = q[1]
         /\ \A i \in 1..Len(Tail(q)) : Tail(q)[i] = q[i + 1]
  OBVIOUS

\* Every step of the news screen keeps its invariant; the delivery of an event is the
\* one that moves the dialog.
LEMMA NewsKept == NewsInv /\ N!Next => NewsInv'
  <1> SUFFICES ASSUME NewsInv, N!Next PROVE NewsInv'
    OBVIOUS
  <1> USE DEF NewsInv, Events, N!viewVars, N!clickVars
  <1>1. CASE N!Resume
    <2>1. uiQueue' \in Seq(Events) /\ Len(uiQueue') = 0
      BY <1>1 DEF N!Resume
    <2>2. uiError' \in BOOLEAN
      BY <1>1 DEF N!Resume
    <2> QED BY <1>1, <2>1, <2>2 DEF N!Resume
  <1>2. CASE N!Pause
    BY <1>2 DEF N!Pause
  <1>3. CASE N!StartsWithProgress
    BY <1>3 DEF N!StartsWithProgress, N!Emits
  <1>4. CASE N!RequestFails
    BY <1>4 DEF N!RequestFails, N!Emits
  <1>5. CASE N!RequestAnswered
    BY <1>5 DEF N!RequestAnswered, N!Emits
  <1>6. CASE N!Translated
    BY <1>6 DEF N!Translated, N!Emits
  <1>7. CASE N!TranslationFails
    BY <1>7 DEF N!TranslationFails
  <1>8. CASE N!Deliver
    <2>0. uiQueue # <<>> /\ uiQueue' = Tail(uiQueue)
      BY <1>8 DEF N!Deliver
    <2>1. /\ uiQueue' \in Seq(Events) /\ Len(uiQueue) \in Nat \ {0}
          /\ Len(uiQueue') = Len(uiQueue) - 1 /\ Head(uiQueue) = uiQueue[1]
          /\ \A i \in 1..Len(uiQueue') : uiQueue'[i] = uiQueue[i + 1]
      BY <2>0, EventTaken, SMTT(30)
    <2>2. /\ UNCHANGED <<screen, stream, uiError, debounced, clicks, details>>
          /\ dialog' \in BOOLEAN /\ (dialog' = TRUE => uiQueue[1] = "progress")
          /\ subscriptions' = subscriptions + (IF uiQueue[1] = "success" THEN 1 ELSE 0)
      BY <1>8, <2>1 DEF N!Deliver, N!ShowEvent
    <2>3. uiQueue[1] = "success" =>
            Len(uiQueue) = 1 /\ subscriptions = 0 /\ stream = "sent"
      <3>1. 1 \in 1..Len(uiQueue)
        BY <2>1
      <3> QED BY <3>1
    <2>4. subscriptions' \in 0..1 /\ (subscriptions' # 0 => stream' = "sent")
      BY <2>2, <2>3
    <2>5. ASSUME NEW i \in 1..Len(uiQueue'), uiQueue'[i] = "success"
          PROVE  i = Len(uiQueue') /\ subscriptions' = 0 /\ stream' = "sent"
      <3>1. i + 1 \in 1..Len(uiQueue) /\ uiQueue[i + 1] = "success"
        BY <2>1, <2>5
      <3>2. i + 1 = Len(uiQueue) /\ subscriptions = 0 /\ stream = "sent"
        BY <3>1
      <3> QED BY <2>1, <2>2, <2>3, <3>2
    <2>6. stream' = "sent" /\ ~uiError' =>
            /\ uiQueue' = <<>> => dialog' = FALSE
            /\ uiQueue' # <<>> => uiQueue'[Len(uiQueue')] # "progress"
      <3>1. stream' = "sent" /\ ~uiError' => uiQueue[Len(uiQueue)] # "progress"
        BY <2>0, <2>2
      <3>2. uiQueue' = <<>> => Len(uiQueue) = 1
        BY <2>1
      <3>3. uiQueue' # <<>> => uiQueue'[Len(uiQueue')] = uiQueue[Len(uiQueue)]
        <4>1. uiQueue' # <<>> => Len(uiQueue') \in 1..Len(uiQueue')
          BY <2>1
        <4> QED BY <2>1, <4>1
      <3> QED BY <2>2, <3>1, <3>2, <3>3
    <2> QED BY <2>1, <2>2, <2>4, <2>5, <2>6
  <1>9. CASE N!Click
    BY <1>9 DEF N!Click
  <1>10. CASE N!OpenNewsDetails
    BY <1>10 DEF N!OpenNewsDetails
  <1> QED BY <1>1, <1>2, <1>3, <1>4, <1>5, <1>6, <1>7, <1>8, <1>9, <1>10 DEF N!Next

-----------------------------------------------------------------------------
(* The unpacked model.                                                     *)

\* Before the first session there is no file and no worker.
LEMMA UnpackStarts == U!Init => UnpackInv
  <1> SUFFICES ASSUME U!Init PROVE UnpackInv
    OBVIOUS
  <1> USE DEF U!Init, U!Sessions
  <1>1. cut \in BOOLEAN
    OBVIOUS
  <1>2. current \in 0..MaxSessions
    OBVIOUS
  <1>3. worker \in [U!Sessions -> {"idle", "downloading", "unpacking", "copying",
                                "unpacked", "loading"}]
    OBVIOUS
  <1>4. \A s \in U!Sessions : worker[s] = "idle"
    OBVIOUS
  <1> QED BY <1>1, <1>2, <1>3, <1>4 DEF UnpackInv

\* Sessions, pauses and deaths of the process keep what is known of the file.
LEMMA UnpackKept == UnpackInv /\ U!Next => UnpackInv'
  <1> SUFFICES ASSUME UnpackInv, U!Next PROVE UnpackInv'
    OBVIOUS
  <1> USE DEF UnpackInv, U!Sessions, U!fileVars, U!Goes, U!Ends
  <1>1. CASE U!Resume
    BY <1>1 DEF U!Resume
  <1>2. CASE U!Pause
    BY <1>2 DEF U!Pause
  <1>3. CASE U!Kill
    BY <1>3 DEF U!Kill
  <1>4. ASSUME NEW s \in U!Sessions, U!Downloaded(s) PROVE UnpackInv'
    BY <1>4 DEF U!Downloaded
  <1>5. ASSUME NEW s \in U!Sessions, U!DownloadFails(s) PROVE UnpackInv'
    BY <1>5 DEF U!DownloadFails
  <1>6. ASSUME NEW s \in U!Sessions, U!CreateFile(s) PROVE UnpackInv'
    BY <1>6 DEF U!CreateFile
  <1>7. ASSUME NEW s \in U!Sessions, U!ArchiveFails(s) PROVE UnpackInv'
    BY <1>7 DEF U!ArchiveFails
  <1>8. ASSUME NEW s \in U!Sessions, U!CopyEnds(s) PROVE UnpackInv'
    BY <1>8 DEF U!CopyEnds
  <1>9. ASSUME NEW s \in U!Sessions, U!CopyFails(s) PROVE UnpackInv'
    BY <1>9 DEF U!CopyFails
  <1>10. ASSUME NEW s \in U!Sessions, U!ShowInitializing(s) PROVE UnpackInv'
    BY <1>10 DEF U!ShowInitializing
  <1>11. ASSUME NEW s \in U!Sessions, U!LoadDetector(s) PROVE UnpackInv'
    BY <1>11 DEF U!LoadDetector
  <1> QED
    BY <1>1, <1>2, <1>3, <1>4, <1>5, <1>6, <1>7, <1>8, <1>9, <1>10, <1>11 DEF U!Next

-----------------------------------------------------------------------------
(* The elastic layouts.                                                    *)

\* What a scroll that drags by some distance makes of the layout: the drag grows on
\* its own side, or is turned back, to nothing at most.
LEMMA DragScales ==
  ASSUME NEW d \in Elastics, NEW scroll \in Int, scroll # 0,
         d.start => d.total > 0, d.end => d.total < 0, ~d.start /\ ~d.end => d.total = 0
  PROVE  LET e == E!DragScale(d, scroll) IN
         /\ e \in Elastics
         /\ e.end   => e.total < 0 /\ (d.end \/ scroll < 0)
         /\ e.start => e.total > 0 /\ (d.start \/ scroll > 0)
         /\ ~e.start /\ ~e.end => e.total = 0
         /\ d.end => ~e.start
         /\ d.start => ~e.end
  <1> DEFINE fresh == ~d.start /\ ~d.end
             total == d.total + scroll
             end   == d.end \/ (fresh /\ scroll < 0)
             start == d.start \/ (fresh /\ scroll > 0)
             past  == (end /\ total >= 0) \/ (start /\ total <= 0)
             e     == E!DragScale(d, scroll)
  <1>1. e = [d EXCEPT !.total = IF past THEN 0 ELSE total,
                      !.end = end /\ ~past, !.start = start /\ ~past,
                      !.translation = IF past THEN 0 ELSE IF start THEN -1 ELSE 1,
                      !.animating = FALSE]
    BY DEF E!DragScale
  <1>2. /\ d.total \in Int /\ total \in Int
        /\ d.start \in BOOLEAN /\ d.end \in BOOLEAN
    BY DEF Elastics
  <1>3. /\ end \in BOOLEAN /\ start \in BOOLEAN /\ past \in BOOLEAN
    OBVIOUS
  <1>4. /\ end /\ ~past => total < 0
        /\ start /\ ~past => total > 0
        /\ ~past => start \/ end
        /\ ~(start /\ end)
    BY <1>2
  <1>5. /\ e \in Elastics
        /\ e.total = IF past THEN 0 ELSE total
        /\ (e.end <=> end /\ ~past) /\ (e.start <=> start /\ ~past)
    <2>1. /\ (IF past THEN 0 ELSE total) \in Int
          /\ (IF past THEN 0 ELSE IF start THEN -1 ELSE 1) \in Int
      BY <1>2
    <2>2. (end /\ ~past) \in BOOLEAN /\ (start /\ ~past) \in BOOLEAN
      OBVIOUS
    <2> DEFINE to == IF past THEN 0 ELSE total
               en == end /\ ~past
               st == start /\ ~past
               side == IF past THEN 0 ELSE IF start THEN -1 ELSE 1
    <2>3. to \in Int /\ side \in Int /\ en \in BOOLEAN /\ st \in BOOLEAN
      BY <2>1, <2>2
    <2>4. e = [d EXCEPT !.total = to, !.end = en, !.start = st,
                        !.translation = side, !.animating = FALSE]
      BY <1>1
    <2>5. e \in Elastics /\ e.total = to /\ (e.end <=> en) /\ (e.start <=> st)
      <3> HIDE DEF to, en, st, side, e
      <3>1. e \in Elastics
        BY <2>3, <2>4, ZenonT(30) DEF Elastics
      <3>2. e.total = to
        BY <2>4 DEF Elastics
      <3>3. e.end = en /\ e.start = st
        BY <2>4, ZenonT(30) DEF Elastics
      <3> QED BY <3>1, <3>2, <3>3
    <2> QED BY <2>5
  <1> HIDE DEF e, past
  <1>6. /\ e.end => total < 0 /\ ~past /\ (d.end \/ scroll < 0)
        /\ e.start => total > 0 /\ ~past /\ (d.start \/ scroll > 0)
        /\ ~e.start /\ ~e.end => past
    BY <1>4, <1>5
  <1> QED BY <1>2, <1>4, <1>5, <1>6 DEF e

\* A layout that was never touched satisfies the invariant.
LEMMA ElasticStarts == E!Init => ElasticInv
  <1> SUFFICES ASSUME E!Init PROVE ElasticInv
    OBVIOUS
  <1>1. elastic \in Elastics
    BY DEF E!Init, Elastics
  <1>2. offset \in 0..MaxOffset
    BY DEF E!Init
  <1>3. scrolling \in BOOLEAN /\ cancelled \in BOOLEAN
    BY Zenon DEF E!Init
  <1>4. E!DragSettlesUnlessCancelled
    BY DEF E!Init, E!DragSettlesUnlessCancelled, E!InPlace, E!Goal
  <1> QED BY <1>1, <1>2, <1>3, <1>4 DEF E!Init, ElasticInv, Elastics, E!DraggedOnlyAtItsEnd

\* Changing the flag of the animation changes nothing else.
LEMMA OnlyAnimates ==
  ASSUME NEW d \in Elastics, NEW running \in BOOLEAN
  PROVE  LET e == [d EXCEPT !.animating = running] IN
         /\ e \in Elastics /\ e.animating = running
         /\ e.total = d.total /\ e.start = d.start /\ e.end = d.end
         /\ E!InPlace(e) = E!InPlace(d)
  BY ZenonT(30) DEF Elastics, E!InPlace, E!Goal

\* Nothing but the animation is cancelled, and the history notes it unless a scroll
\* begins.
LEMMA CancelKeepsInv ==
  ASSUME ElasticInv, E!Cancel, scrolling' \in BOOLEAN, ~scrolling' => ~scrolling
  PROVE  ElasticInv'
  <1> USE DEF ElasticInv
  <1>1. elastic \in Elastics
    BY Zenon DEF Elastics
  <1>2. elastic' = [elastic EXCEPT !.animating = FALSE]
    BY DEF E!Cancel
  <1>3. /\ elastic' \in Elastics /\ elastic'.animating = FALSE
        /\ elastic'.total = elastic.total /\ elastic'.start = elastic.start
        /\ elastic'.end = elastic.end
        /\ E!InPlace(elastic)' = E!InPlace(elastic)
    BY <1>1, <1>2, OnlyAnimates
  <1>4. E!DraggedOnlyAtItsEnd'
    BY <1>3 DEF E!DraggedOnlyAtItsEnd, E!Cancel
  <1>5. E!DragSettlesUnlessCancelled'
    BY <1>3, Zenon DEF E!DragSettlesUnlessCancelled, E!Cancel
  <1>6. cancelled' \in BOOLEAN /\ menu' \in BOOLEAN /\ offset' \in 0..MaxOffset
    BY Zenon DEF E!Cancel
  <1> QED BY <1>3, <1>4, <1>5, <1>6, Zenon DEF Elastics

\* The toolbar starts an animation; so does the end of a scroll, which drops the drag.
LEMMA AnimateTypes ==
  ASSUME NEW d \in Elastics, NEW open \in BOOLEAN, menu \in BOOLEAN
  PROVE  LET e == E!Animate(d, open) IN
         /\ e \in Elastics /\ e.animating = TRUE
         /\ e.total = d.total /\ e.start = d.start /\ e.end = d.end
  <1> DEFINE goal == menu /\ open
             e == [d EXCEPT !.opened = goal, !.animating = TRUE]
  <1>1. goal \in BOOLEAN
    OBVIOUS
  <1>2. e \in Elastics /\ e.animating = TRUE
        /\ e.total = d.total /\ e.start = d.start /\ e.end = d.end
    <2> HIDE DEF goal
    <2> QED BY <1>1, ZenonT(30) DEF Elastics
  <1>3. E!Animate(d, open) = e
    BY DEF E!Animate
  <1> HIDE DEF e
  <1> QED BY <1>2, <1>3

\* onStopNestedScroll leaves an animation and no drag.
LEMMA StoppedTypes ==
  ASSUME NEW d \in Elastics, menu \in BOOLEAN
  PROVE  LET e == E!Stopped(d) IN
         e \in Elastics /\ e.animating = TRUE /\ e.total = 0 /\ e.start = FALSE /\ e.end = FALSE
  <1> DEFINE open == E!Abs(d.total) >= OverDistance
             e == E!Animate(d, open)
             f == [e EXCEPT !.total = 0, !.start = FALSE, !.end = FALSE]
  <1>1. open \in BOOLEAN
    OBVIOUS
  <1>2. e \in Elastics /\ e.animating = TRUE
    <2> HIDE DEF open
    <2> QED BY <1>1, AnimateTypes
  <1>3. 0 \in Int /\ FALSE \in BOOLEAN
    OBVIOUS
  <1>4. f \in Elastics /\ f.animating = TRUE /\ f.total = 0 /\ f.start = FALSE /\ f.end = FALSE
    <2> HIDE DEF e
    <2> QED BY <1>2, <1>3, ZenonT(30) DEF Elastics
  <1>5. E!Stopped(d) = f
    BY DEF E!Stopped
  <1> HIDE DEF f
  <1> QED BY <1>4, <1>5

\* A move of the finger drags only with what the child's content leaves of it.
LEMMA ScrollKeepsInv ==
  ASSUME ElasticInv, NEW delta \in -2..2 \ {0}, E!ScrollBy(delta)
  PROVE  ElasticInv'
  <1> DEFINE scroll == delta - (offset' - offset)
  <1>1. /\ elastic \in Elastics /\ offset \in 0..MaxOffset
        /\ scrolling = TRUE /\ scrolling' = TRUE /\ menu' = menu
        /\ menu \in BOOLEAN /\ cancelled \in BOOLEAN
    BY Zenon DEF ElasticInv, Elastics, E!ScrollBy, E!Become
  <1>2. /\ elastic.start => offset = MaxOffset /\ elastic.total > 0
        /\ elastic.end => offset = 0 /\ elastic.total < 0
        /\ ~elastic.start /\ ~elastic.end => elastic.total = 0
    BY Zenon DEF ElasticInv, E!DraggedOnlyAtItsEnd
  <1>3. /\ offset' = IF E!Reverses(elastic, delta) THEN offset ELSE E!Clamp(offset + delta)
        /\ elastic' = E!DragScale(elastic, scroll)
        /\ cancelled' = (cancelled /\ ~elastic'.animating /\ ~E!InPlace(elastic'))
    BY DEF E!ScrollBy, E!Become
  <1>4. offset' \in 0..MaxOffset /\ scroll \in Int
    BY <1>1, <1>3 DEF E!Clamp
  <1>5. scroll # 0 =>
          /\ elastic' \in Elastics
          /\ elastic'.end   => elastic'.total < 0 /\ (elastic.end \/ scroll < 0)
          /\ elastic'.start => elastic'.total > 0 /\ (elastic.start \/ scroll > 0)
          /\ ~elastic'.start /\ ~elastic'.end => elastic'.total = 0
          /\ elastic.end => ~elastic'.start
          /\ elastic.start => ~elastic'.end
    <2> HIDE DEF scroll
    <2> QED BY <1>1, <1>2, <1>3, <1>4, DragScales
  <1>6. scroll = 0 => elastic' = elastic
    BY <1>3 DEF E!DragScale
  <1>7. elastic' \in Elastics
    BY <1>1, <1>5, <1>6
  <1>8. /\ scroll < 0 => IF E!Reverses(elastic, delta) THEN elastic.start ELSE offset' = 0
        /\ scroll > 0 => IF E!Reverses(elastic, delta) THEN elastic.end ELSE offset' = MaxOffset
    BY <1>1, <1>2, <1>3 DEF E!Clamp, E!Reverses
  <1>9. /\ elastic.end => offset' = 0
        /\ elastic.start => offset' = MaxOffset
    BY <1>1, <1>2, <1>3 DEF E!Clamp, E!Reverses
  <1> HIDE DEF scroll
  <1>10. E!DraggedOnlyAtItsEnd'
    BY <1>2, <1>5, <1>6, <1>8, <1>9 DEF E!DraggedOnlyAtItsEnd
  <1>11. ~elastic'.start /\ ~elastic'.end => elastic'.total = 0
    BY <1>2, <1>5, <1>6
  <1>12. cancelled' \in BOOLEAN
    BY <1>1, <1>3
  <1>13. E!DragSettlesUnlessCancelled'
    BY <1>1 DEF E!DragSettlesUnlessCancelled
  <1> QED BY <1>1, <1>4, <1>7, <1>10, <1>11, <1>12, <1>13, ZenonT(30) DEF ElasticInv, Elastics

\* A step to a layout that is not dragged, or as before, and that is animated or in
\* its place.
LEMMA BecomeKeepsInv ==
  ASSUME ElasticInv, NEW d \in Elastics, E!Become(d), offset' = offset,
         scrolling' \in BOOLEAN, d.animating \/ E!InPlace(d),
         \/ d.total = 0 /\ ~d.start /\ ~d.end
         \/ /\ scrolling' = scrolling
            /\ d.total = elastic.total /\ d.start = elastic.start /\ d.end = elastic.end
  PROVE  ElasticInv'
  <1>1. /\ elastic' = d /\ menu' = menu /\ cancelled' = (cancelled /\ ~d.animating /\ ~E!InPlace(d))
        /\ menu \in BOOLEAN /\ cancelled \in BOOLEAN
    BY Zenon DEF E!Become, ElasticInv
  <1>2. cancelled' \in BOOLEAN
    BY <1>1
  <1>3. E!InPlace(elastic)' = E!InPlace(d)
    BY <1>1 DEF E!InPlace, E!Goal
  <1>4. E!DragSettlesUnlessCancelled'
    BY <1>1, <1>3, Zenon DEF E!DragSettlesUnlessCancelled
  <1>5. /\ d.start => offset = MaxOffset /\ d.total > 0
        /\ d.end => offset = 0 /\ d.total < 0
        /\ ~d.start /\ ~d.end => d.total = 0
        /\ ~scrolling' => ~d.start /\ ~d.end
    BY Zenon DEF ElasticInv, E!DraggedOnlyAtItsEnd
  <1>6. E!DraggedOnlyAtItsEnd'
    BY <1>1, <1>5, Zenon DEF E!DraggedOnlyAtItsEnd
  <1>7. offset' \in 0..MaxOffset
    BY DEF ElasticInv
  <1> QED BY <1>1, <1>2, <1>4, <1>5, <1>6, <1>7, Zenon DEF ElasticInv, Elastics

\* Every step of an elastic layout keeps its invariant.
LEMMA ElasticKept == ElasticInv /\ E!Next => ElasticInv'
  <1> SUFFICES ASSUME ElasticInv, E!Next PROVE ElasticInv'
    OBVIOUS
  <1>0. /\ elastic \in Elastics /\ scrolling \in BOOLEAN /\ offset \in 0..MaxOffset
        /\ menu \in BOOLEAN
    BY Zenon DEF ElasticInv, Elastics
  <1>1. CASE E!StartScroll
    BY <1>1, CancelKeepsInv, Zenon DEF E!StartScroll
  <1>2. CASE E!RefuseScroll
    BY <1>0, <1>2, CancelKeepsInv, Zenon DEF E!RefuseScroll
  <1>3. CASE E!ResizeLayout
    BY <1>0, <1>3, CancelKeepsInv, Zenon DEF E!ResizeLayout
  <1>4. CASE E!StopScroll
    <2>1. LET d == E!Stopped(elastic) IN
          d \in Elastics /\ d.animating = TRUE /\ d.total = 0 /\ d.start = FALSE /\ d.end = FALSE
      BY <1>0, StoppedTypes
    <2>2. E!Become(E!Stopped(elastic)) /\ offset' = offset /\ scrolling' = FALSE
      BY <1>4, Zenon DEF E!StopScroll
    <2> QED BY <2>1, <2>2, BecomeKeepsInv, Zenon
  <1>5. ASSUME NEW delta \in -2..2 \ {0}, E!ScrollBy(delta) PROVE ElasticInv'
    BY <1>5, ScrollKeepsInv
  <1>6. CASE E!ToggleMenu
    <2>1. (~elastic.opened) \in BOOLEAN
      OBVIOUS
    <2>2. LET d == E!Animate(elastic, ~elastic.opened) IN
          /\ d \in Elastics /\ d.animating = TRUE
          /\ d.total = elastic.total /\ d.start = elastic.start /\ d.end = elastic.end
      BY <1>0, <2>1, AnimateTypes
    <2>3. /\ E!Become(E!Animate(elastic, ~elastic.opened))
          /\ offset' = offset /\ scrolling' = scrolling
      BY <1>6, Zenon DEF E!ToggleMenu
    <2> QED BY <1>0, <2>2, <2>3, BecomeKeepsInv, Zenon
  <1>7. CASE E!Fling
    <2>1. /\ offset' \in 0..MaxOffset /\ ~scrolling /\ ~scrolling'
          /\ UNCHANGED <<menu, elastic, cancelled>>
      BY <1>7 DEF E!Fling
    <2>2. ~elastic.start /\ ~elastic.end
      BY <2>1, Zenon DEF ElasticInv
    <2>3. E!DraggedOnlyAtItsEnd'
      BY <2>1, <2>2, Zenon DEF E!DraggedOnlyAtItsEnd
    <2>4. E!DragSettlesUnlessCancelled'
      BY <2>1, Zenon DEF ElasticInv, E!DragSettlesUnlessCancelled, E!InPlace, E!Goal
    <2>5. ~elastic.start /\ ~elastic.end => elastic.total = 0
      BY Zenon DEF ElasticInv
    <2>6. scrolling' \in BOOLEAN /\ cancelled \in BOOLEAN
      BY <1>0, <1>7, Zenon DEF E!Fling, ElasticInv
    <2> QED BY <1>0, <2>1, <2>2, <2>3, <2>4, <2>5, <2>6, Zenon DEF ElasticInv, Elastics
  <1>8. CASE E!Frame
    <2>1. PICK translation \in {elastic.translation, 0},
               alpha \in {elastic.alpha, E!Goal(elastic)} \cup (IF menu THEN {1} ELSE {}) :
            LET d == [elastic EXCEPT !.translation = translation, !.alpha = alpha]
            IN  E!Become([d EXCEPT !.animating = ~E!InPlace(d)])
      BY <1>8 DEF E!Frame
    <2> DEFINE d == [elastic EXCEPT !.translation = translation, !.alpha = alpha]
               running == ~E!InPlace(d)
               e == [d EXCEPT !.animating = running]
    <2>2. translation \in Int /\ alpha \in Int
      BY <1>0, <2>1 DEF Elastics, E!Goal
    <2>3. /\ d \in Elastics
          /\ d.total = elastic.total /\ d.start = elastic.start /\ d.end = elastic.end
      BY <1>0, <2>2, ZenonT(30) DEF Elastics
    <2>4. running \in BOOLEAN
      OBVIOUS
    <2>5. /\ e \in Elastics /\ e.animating = running
          /\ e.total = d.total /\ e.start = d.start /\ e.end = d.end
          /\ E!InPlace(e) = E!InPlace(d)
      <3> HIDE DEF d, running
      <3> QED BY <2>3, <2>4, OnlyAnimates
    <2>6. e.animating \/ E!InPlace(e)
      <3> HIDE DEF d, e
      <3> QED BY <2>5, Zenon
    <2>7. offset' = offset /\ scrolling' = scrolling
      BY <1>8 DEF E!Frame
    <2>8. E!Become(e)
      BY <2>1
    <2> HIDE DEF d, e, running
    <2> QED BY <1>0, <2>3, <2>5, <2>6, <2>7, <2>8, BecomeKeepsInv, Zenon
  <1> QED BY <1>1, <1>2, <1>3, <1>4, <1>5, <1>6, <1>7, <1>8 DEF E!Next

-----------------------------------------------------------------------------
(* The delegate that takes a photo.                                        *)

\* A delegate that has not been resumed satisfies the invariant.
LEMMA PhotoStarts == P!Init => PhotoInv
  <1> SUFFICES ASSUME P!Init PROVE PhotoInv
    OBVIOUS
  <1>1. ifDispatch \in BOOLEAN
    BY DEF P!Init
  <1>2. camera \in Cameras
    BY DEF P!Init, P!None, Cameras
  <1>3. files \in [P!Files -> {"absent", "empty", "photo"}]
    BY DEF P!Init
  <1> QED BY <1>1, <1>2, <1>3 DEF P!Init, P!None, PhotoInv

\* A camera is only opened for the first time, by an instance that has no request
\* left and knows the path if it is the one that opens it.
LEMMA CameraKept ==
  ASSUME PhotoInv, NEW by \in {"this", "old"}, P!DispatchCamera(by),
         ifDispatch' = FALSE, request' = "none", answer' = "none", opened = 0,
         delegate' \in {"paused", "resumed", "finishing", "finished"}, UNCHANGED <<saved, result>>
  PROVE  PhotoInv'
  <1>1. PICK f \in P!Files :
          /\ files' = [files EXCEPT ![f] = "empty"]
          /\ photoPath' = IF by = "this" THEN f ELSE photoPath
          /\ camera' = [state |-> "open", file |-> f, by |-> by]
          /\ opened' = opened + 1 /\ inFront' = "camera"
    BY DEF P!DispatchCamera
  <1>2. camera' \in Cameras
    BY <1>1 DEF P!Files, Cameras
  <1>3. files' \in [P!Files -> {"absent", "empty", "photo"}]
    BY <1>1 DEF PhotoInv
  <1>4. ifDispatch' \in BOOLEAN
    OBVIOUS
  <1> QED BY <1>1, <1>2, <1>3, <1>4 DEF PhotoInv, Cameras

\* Every step of the delegate, of Android and of the camera keeps the invariant.
LEMMA PhotoKept == PhotoInv /\ P!Next => PhotoInv'
  <1> SUFFICES ASSUME PhotoInv, P!Next PROVE PhotoInv'
    OBVIOUS
  <1>0. ifDispatch \in BOOLEAN /\ camera \in Cameras
        /\ files \in [P!Files -> {"absent", "empty", "photo"}]
    BY DEF PhotoInv, Cameras
  <1> USE DEF P!None
  <1>1. CASE P!Resume
    <2>1. /\ delegate \in {"paused", "finishing"} /\ inFront = "delegate"
          /\ answer = "none" /\ camera.state \notin {"ok", "canceled"}
          /\ ifDispatch' = FALSE /\ UNCHANGED <<sdk23, saved, answer, result>>
          /\ delegate' \in {"paused", "resumed", "finished"}
      BY <1>1 DEF P!Resume, P!Pending
    <2>2. ifDispatch' \in BOOLEAN
      BY <2>1
    <2>3. CASE ifDispatch /\ P!DispatchCamera("this") /\ UNCHANGED request
      BY <2>1, <2>3, CameraKept DEF PhotoInv
    <2>4. CASE UNCHANGED <<request, inFront, photoPath, camera, files, opened>>
      BY <2>1, <2>2, <2>4 DEF PhotoInv
    <2>5. CASE /\ ifDispatch /\ sdk23 /\ request' = "this" /\ inFront' = "permission"
               /\ UNCHANGED <<photoPath, camera, files, opened>>
      BY <1>1, <2>1, <2>2, <2>5 DEF PhotoInv, P!Resume
    <2> QED BY <1>1, <2>3, <2>4, <2>5
      DEF P!Resume, P!GrantPermAndDispatch, P!DispatchTakePhotoIntent, P!DispatchNothing
  <1>2. CASE P!Destroy
    BY <1>2 DEF P!Destroy, P!SaveInstanceState, PhotoInv
  <1>3. CASE P!Recreate
    BY <1>3 DEF P!Recreate, P!RestoreInstanceState, PhotoInv
  <1>4. CASE P!Rotate
    BY <1>4 DEF P!Rotate, P!SaveInstanceState, PhotoInv
  <1>5. CASE P!Back
    BY <1>5 DEF P!Back, PhotoInv
  <1>6. CASE P!AnswerDialog
    BY <1>6 DEF P!AnswerDialog, PhotoInv
  <1>7. CASE P!DeliverAnswer
    <2>1. /\ delegate = "paused" /\ inFront = "delegate" /\ answer # "none"
          /\ answer' = "none" /\ request' = "none"
          /\ UNCHANGED <<sdk23, ifDispatch, saved, result>>
      BY <1>7 DEF P!DeliverAnswer
    <2>2. request # "none" /\ opened = 0 /\ ifDispatch = FALSE
      BY <2>1 DEF PhotoInv
    <2>3. CASE /\ UNCHANGED <<inFront, photoPath, camera, files, opened>>
               /\ delegate' \in {"paused", "finishing"}
      BY <2>1, <2>2, <2>3 DEF PhotoInv
    <2>4. CASE request # "lost" /\ P!DispatchCamera(request) /\ delegate' = delegate
      <3>1. request \in {"this", "old"}
        BY <2>2, <2>4 DEF PhotoInv
      <3> QED BY <2>1, <2>2, <2>4, <3>1, CameraKept
    <2> QED BY <1>7, <2>1, <2>3, <2>4
      DEF P!DeliverAnswer, P!DispatchTakePhotoIntent, P!DispatchNothing
  <1>8. CASE P!CameraCloses
    <2>1. /\ inFront = "camera" /\ inFront' = "delegate" /\ camera.state = "open"
          /\ UNCHANGED <<sdk23, delegate, ifDispatch, photoPath, saved, request, answer,
                         opened, result>>
          /\ camera.file \in P!Files /\ opened = 1
      BY <1>8 DEF P!CameraCloses, PhotoInv
    <2>2. /\ camera'.state \in {"ok", "canceled"}
          /\ camera' \in Cameras /\ camera'.file = camera.file /\ camera'.by = camera.by
      BY <1>0, <1>8 DEF P!CameraCloses, Cameras
    <2>3. files' \in [P!Files -> {"absent", "empty", "photo"}]
      BY <1>0, <1>8 DEF P!CameraCloses
    <2> QED BY <1>0, <2>1, <2>2, <2>3 DEF PhotoInv, Cameras
  <1>9. CASE P!DeliverResult
    <2>1. /\ delegate = "paused" /\ inFront = "delegate" /\ camera.state \in {"ok", "canceled"}
          /\ delegate' = "finishing" /\ camera.file \in P!Files /\ opened = 1
          /\ UNCHANGED <<sdk23, inFront, ifDispatch, saved, request, answer, files, opened>>
      BY <1>9 DEF P!DeliverResult, PhotoInv
    <2>2. /\ camera'.state = IF camera.state = "ok" THEN "taken" ELSE "left"
          /\ camera' \in Cameras /\ camera'.file = camera.file /\ camera'.by = camera.by
      BY <1>0, <1>9 DEF P!DeliverResult, Cameras
    <2>3. camera.by = "this" /\ camera.state = "ok" /\ files[camera.file] = "photo" =>
            result' = [code |-> "ok", photo |-> camera.file]
      <3>1. camera.file # 0
        BY <2>1 DEF P!Files
      <3> QED BY <1>9, <2>1, <3>1 DEF P!DeliverResult, PhotoInv
    <2> QED BY <1>0, <2>1, <2>2, <2>3 DEF PhotoInv, Cameras
  <1> QED BY <1>1, <1>2, <1>3, <1>4, <1>5, <1>6, <1>7, <1>8, <1>9 DEF P!Next

-----------------------------------------------------------------------------
(* The drawer.                                                             *)

Ends   == {"opened", "closed"}
Places == 0..DrawerHeight
Anims  == [to : Int, content : BOOLEAN, running : BOOLEAN]
Children == {"none", "drawer", "content"}
Layouts  == [state : {"opened", "closed", "opening", "closing"}, touching : Children,
             target : Children, initY : Int, currentY : Int,
             drawerTy : Places, contentTy : Places, anim : Anims]

EndOf(state) == IF state = "opened" THEN DrawerHeight ELSE 0

\* An animation leads where mDrawerState says.
Heads(d) ==
  /\ d.anim.content => d.anim.running
  /\ d.state \in Ends /\ d.anim.running => d.anim.to = EndOf(d.state)

\* ... and without one the drawer is there, or is dragged; while a finger is down it
\* can also hang where the finger has caught it, if the touch is the layout's own.
Rests(d) == Heads(d) /\ (d.state \in Ends /\ ~d.anim.running => d.drawerTy = EndOf(d.state))
Leads(d) == Heads(d) /\ (d.target # "none" => Rests(d))

\* The content moves with the drawer that a touch on it pulls down.
Drags(d) == d.state = "opening" /\ d.touching = "content"

DrawerInv ==
  /\ layout \in Layouts /\ finger \in Int /\ interrupted \in BOOLEAN
  /\ Leads(layout)
  /\ finger = D!Up => layout.state \in Ends /\ Rests(layout)
  /\ layout.contentTy # 0 /\ ~interrupted => layout.anim.content \/ Drags(layout)

\* The cancelled animation moves nothing.
LEMMA NoAnimation ==
  /\ D!NoAnim \in Anims /\ ~D!NoAnim.content /\ ~D!NoAnim.running
  <1>1. 0 \in Int /\ FALSE \in BOOLEAN
    OBVIOUS
  <1> QED BY <1>1, Zenon DEF D!NoAnim, Anims

\* openDrawer and closeDrawer set the state and an animation that leads there.
LEMMA Settles ==
  ASSUME NEW d \in Layouts, NEW open \in BOOLEAN
  PROVE  LET e == D!Settle(d, open) IN
         /\ e \in Layouts /\ e.state \in Ends
         /\ e.touching = d.touching /\ e.target = d.target
         /\ e.drawerTy = d.drawerTy /\ e.contentTy = d.contentTy
         /\ e.anim.running /\ (e.anim.content <=> d.touching = "content")
         /\ e.anim.to = EndOf(e.state)
  <1> DEFINE state == IF open THEN "opened" ELSE "closed"
             to    == IF open THEN DrawerHeight ELSE 0
             content == d.touching = "content"
             anim  == [to |-> to, content |-> content, running |-> TRUE]
             e     == [d EXCEPT !.state = state, !.anim = anim]
  <1>1. state \in Ends /\ to = EndOf(state) /\ to \in Int
    BY DEF Ends, EndOf
  <1>2. content \in BOOLEAN
    OBVIOUS
  <1>3. anim \in Anims /\ anim.to = to /\ anim.content = content /\ anim.running = TRUE
    <2> HIDE DEF to, content
    <2> QED BY <1>1, <1>2, Zenon DEF Anims
  <1>4. /\ e \in Layouts /\ e.state = state /\ e.anim = anim
        /\ e.touching = d.touching /\ e.target = d.target
        /\ e.drawerTy = d.drawerTy /\ e.contentTy = d.contentTy
    <2>1. state \in {"opened", "closed", "opening", "closing"}
      BY <1>1 DEF Ends
    <2> HIDE DEF state, anim
    <2> QED BY <1>3, <2>1 DEF Layouts
  <1>5. D!Settle(d, open) = e
    BY DEF D!Settle
  <1> HIDE DEF e, anim, state, to
  <1> QED BY <1>1, <1>3, <1>4, <1>5

\* The end of a touch of the layout's own leaves an animation to an end, of the
\* content too if that was touched.
LEMMA TouchEnds ==
  ASSUME NEW d \in Layouts, NEW action \in {"up", "cancel"}, NEW y \in Int
  PROVE  LET e == D!OnTouchEvent(d, action, y) IN
         /\ e \in Layouts /\ e.state \in Ends /\ Rests(e)
         /\ e.target = d.target /\ e.contentTy = d.contentTy
         /\ e.anim.content <=> d.touching = "content"
  <1> DEFINE s == D!Settle(d, D!IfOpenDrawer(d))
             e == [s EXCEPT !.touching = "none"]
  <1>1. D!IfOpenDrawer(d) \in BOOLEAN
    BY DEF D!IfOpenDrawer
  <1>2. /\ s \in Layouts /\ s.state \in Ends
        /\ s.target = d.target /\ s.contentTy = d.contentTy
        /\ s.anim.running /\ (s.anim.content <=> d.touching = "content")
        /\ s.anim.to = EndOf(s.state)
    BY <1>1, Settles, Zenon
  <1>3. D!OnTouchEvent(d, action, y) = e
    BY DEF D!OnTouchEvent, D!Release, D!None
  <1> HIDE DEF s
  <1>4. /\ e \in Layouts /\ e.state = s.state /\ e.anim = s.anim
        /\ e.target = s.target /\ e.contentTy = s.contentTy
    BY <1>2 DEF Layouts, Children
  <1> HIDE DEF e
  <1> QED BY <1>2, <1>3, <1>4, Zenon DEF Rests, Heads

\* A touch that begins is only noted.
LEMMA TouchBegins ==
  ASSUME NEW d \in Layouts, NEW y \in Int
  PROVE  LET e == D!OnTouchEvent(d, "down", y) IN
         /\ e \in Layouts /\ e.state = d.state /\ e.target = d.target /\ e.anim = d.anim
         /\ e.drawerTy = d.drawerTy /\ e.contentTy = d.contentTy
  <1>1. D!TopChildUnder(d, y) \in Children
    BY DEF D!TopChildUnder, D!None, Children
  <1>2. D!OnTouchEvent(d, "down", y) = [d EXCEPT !.initY = y, !.touching = D!TopChildUnder(d, y)]
    BY DEF D!OnTouchEvent
  <1> QED BY <1>1, <1>2 DEF Layouts

\* A move stops the animation; only while the drawer is dragged does it move the
\* drawer, and the content only while that is what is dragged.
LEMMA TouchMoves ==
  ASSUME NEW d \in Layouts, NEW y \in Int
  PROVE  LET e == D!OnTouchEvent(d, "move", y) IN
         /\ e \in Layouts /\ e.state = d.state /\ e.target = d.target /\ e.anim = D!NoAnim
         /\ e.contentTy = d.contentTy \/ Drags(e)
         /\ Drags(d) => Drags(e)
  <1> DEFINE f == [d EXCEPT !.anim = D!NoAnim]
  <1>1. /\ f \in Layouts /\ f.state = d.state /\ f.target = d.target /\ f.anim = D!NoAnim
        /\ f.touching = d.touching /\ f.contentTy = d.contentTy
    BY NoAnimation DEF Layouts
  <1> HIDE DEF f
  <1>2. \A n \in Int : D!Clamp(n) \in Places
    BY DEF D!Clamp, Places
  <1>3. CASE d.state = "opening"
    <2> DEFINE ty == D!Clamp(y - f.initY)
               e  == IF f.touching # "content" THEN f
                     ELSE [f EXCEPT !.drawerTy = ty, !.contentTy = ty]
    <2>1. D!OnTouchEvent(d, "move", y) = e
      BY <1>1, <1>3 DEF f, D!OnTouchEvent, D!DragOpen
    <2>2. ty \in Places
      BY <1>1, <1>2 DEF Layouts
    <2>3. /\ e \in Layouts /\ e.state = f.state /\ e.target = f.target /\ e.anim = f.anim
          /\ e.touching = f.touching
          /\ f.touching # "content" => e.contentTy = f.contentTy
      <3> HIDE DEF ty
      <3> QED BY <1>1, <2>2 DEF Layouts
    <2> HIDE DEF e
    <2> QED BY <1>1, <1>3, <2>1, <2>3 DEF Drags
  <1>4. CASE d.state = "closing"
    <2> DEFINE g == IF D!TopChildUnder(f, y) = "drawer" /\ f.touching # "drawer"
                      THEN [f EXCEPT !.initY = y, !.touching = "drawer"] ELSE f
               ty == D!Clamp(DrawerHeight + y - g.initY)
               e == IF g.touching # "drawer" THEN g ELSE [g EXCEPT !.drawerTy = ty]
    <2>1. D!OnTouchEvent(d, "move", y) = e
      BY <1>1, <1>4 DEF f, D!OnTouchEvent, D!DragClosed
    <2>2. /\ g \in Layouts /\ g.state = f.state /\ g.target = f.target /\ g.anim = f.anim
          /\ g.contentTy = f.contentTy
      BY <1>1 DEF Layouts, Children
    <2> HIDE DEF g
    <2>3. ty \in Places
      BY <1>2, <2>2 DEF Layouts
    <2>4. /\ e \in Layouts /\ e.state = g.state /\ e.target = g.target /\ e.anim = g.anim
          /\ e.contentTy = g.contentTy
      <3> HIDE DEF ty
      <3> QED BY <2>2, <2>3 DEF Layouts
    <2> HIDE DEF e
    <2> QED BY <1>1, <1>4, <2>1, <2>2, <2>4 DEF Drags
  <1>5. CASE d.state \notin {"opening", "closing"}
    <2>1. D!OnTouchEvent(d, "move", y) = f
      BY <1>1, <1>5 DEF f, D!OnTouchEvent
    <2> QED BY <1>1, <1>5, <2>1 DEF Drags
  <1> QED BY <1>3, <1>4, <1>5

\* The end of a touch, or the CANCEL before the layout takes it: a child's leaves the
\* drawer at rest, the layout's own settles it.
LEMMA ChildrenCancel ==
  ASSUME NEW d \in Layouts, NEW action \in {"up", "cancel"}, NEW y \in Int, Leads(d)
  PROVE  LET e == D!DispatchToChildren(d, action, y) IN
         /\ e \in Layouts /\ Rests(e) /\ e.contentTy = d.contentTy
         /\ d.state \in Ends => e.state \in Ends
  <1> DEFINE f == [d EXCEPT !.target = "none"]
  <1>1. /\ f \in Layouts /\ f.state = d.state /\ f.anim = d.anim
        /\ f.drawerTy = d.drawerTy /\ f.contentTy = d.contentTy
    BY DEF Layouts, Children
  <1>2. CASE d.target = "none"
    <2>1. D!DispatchToChildren(d, action, y) = D!OnTouchEvent(f, action, y)
      BY <1>2 DEF D!DispatchToChildren, D!None
    <2> HIDE DEF f
    <2> QED BY <1>1, <2>1, TouchEnds
  <1>3. CASE d.target # "none"
    <2>1. D!DispatchToChildren(d, action, y) = f
      BY <1>3 DEF D!DispatchToChildren, D!None
    <2> HIDE DEF f
    <2> QED BY <1>1, <1>3, <2>1, Zenon DEF Leads, Rests, Heads
  <1> QED BY <1>2, <1>3

\* A touch finds the drawer at rest and gives it to a child, or to the layout.
LEMMA ChildrenTouched ==
  ASSUME NEW d \in Layouts, NEW y \in Int, Rests(d)
  PROVE  LET e == D!DispatchToChildren(d, "down", y) IN
         /\ e \in Layouts /\ Leads(e) /\ e.state = d.state /\ e.anim = d.anim
         /\ e.contentTy = d.contentTy
  <1> DEFINE child == D!TopChildUnder(d, y)
             f == [d EXCEPT !.target = child]
  <1>1. child \in Children
    BY DEF D!TopChildUnder, D!None, Children
  <1>2. /\ f \in Layouts /\ f.state = d.state /\ f.anim = d.anim
        /\ f.drawerTy = d.drawerTy /\ f.contentTy = d.contentTy
    <2> HIDE DEF child
    <2> QED BY <1>1 DEF Layouts
  <1>3. \/ D!DispatchToChildren(d, "down", y) = f
        \/ D!DispatchToChildren(d, "down", y) = D!OnTouchEvent(f, "down", y)
    BY DEF D!DispatchToChildren
  <1> HIDE DEF f
  <1>4. LET e == D!DispatchToChildren(d, "down", y) IN
        /\ e \in Layouts /\ e.state = d.state /\ e.anim = d.anim
        /\ e.drawerTy = d.drawerTy /\ e.contentTy = d.contentTy
    BY <1>2, <1>3, TouchBegins
  <1> QED BY <1>4, Zenon DEF Leads, Rests, Heads

\* A move that is the layout's own may leave the drawer where it is caught.
LEMMA ChildrenMoved ==
  ASSUME NEW d \in Layouts, NEW y \in Int, Leads(d), d.state \in Ends
  PROVE  LET e == D!DispatchToChildren(d, "move", y) IN
         e \in Layouts /\ Leads(e) /\ e.state = d.state /\ e.contentTy = d.contentTy
  <1> DEFINE f == [d EXCEPT !.target = d.target]
  <1>1. f = d
    BY DEF Layouts
  <1>2. CASE d.target = "none"
    <2>1. D!DispatchToChildren(d, "move", y) = D!OnTouchEvent(f, "move", y)
      BY <1>2 DEF D!DispatchToChildren, D!None
    <2>2. LET e == D!OnTouchEvent(d, "move", y) IN
          /\ e \in Layouts /\ e.state = d.state /\ e.target = d.target /\ e.anim = D!NoAnim
          /\ e.contentTy = d.contentTy \/ Drags(e)
      BY TouchMoves
    <2>3. D!OnTouchEvent(d, "move", y).contentTy = d.contentTy
      BY <2>2 DEF Drags, Ends
    <2> HIDE DEF f
    <2> QED BY <1>1, <1>2, <2>1, <2>2, <2>3, NoAnimation, Zenon DEF Leads, Heads
  <1>3. CASE d.target # "none"
    <2>1. D!DispatchToChildren(d, "move", y) = f
      BY <1>3 DEF D!DispatchToChildren, D!None
    <2> HIDE DEF f
    <2> QED BY <1>1, <1>3, <2>1
  <1> QED BY <1>2, <1>3

\* The end of dispatchTouchEvent, for a DOWN ...
LEMMA RouteBegins ==
  ASSUME NEW d \in Layouts, NEW y \in Int, Rests(d)
  PROVE  LET e == D!Route(d, "down", y) IN
         /\ e \in Layouts /\ Leads(e) /\ e.state = d.state /\ e.anim = d.anim
         /\ e.contentTy = d.contentTy
  <1>1. CASE d.state \in {"opening", "closing"}
    <2>1. D!Route(d, "down", y) = D!OnTouchEvent(d, "down", y)
      BY <1>1 DEF D!Route
    <2>2. d.state \notin Ends
      BY <1>1 DEF Ends
    <2>3. LET e == D!Route(d, "down", y) IN
          e \in Layouts /\ e.state = d.state /\ e.anim = d.anim /\ e.contentTy = d.contentTy
      BY <2>1, TouchBegins
    <2> QED BY <2>2, <2>3, Zenon DEF Leads, Rests, Heads
  <1>2. CASE d.state \notin {"opening", "closing"}
    BY <1>2, ChildrenTouched DEF D!Route
  <1> QED BY <1>1, <1>2

\* ... for a MOVE ...
LEMMA RouteMoves ==
  ASSUME NEW d \in Layouts, NEW y \in Int, Leads(d)
  PROVE  LET e == D!Route(d, "move", y) IN
         /\ e \in Layouts /\ Leads(e)
         /\ e.contentTy = d.contentTy \/ Drags(e)
         /\ Drags(d) => Drags(e)
  <1>1. CASE d.state \in {"opening", "closing"}
    <2>1. D!Route(d, "move", y) = D!OnTouchEvent(d, "move", y)
      BY <1>1 DEF D!Route
    <2>2. d.state \notin Ends
      BY <1>1 DEF Ends
    <2> QED BY <2>1, <2>2, TouchMoves, NoAnimation, ZenonT(30) DEF Leads, Rests, Heads
  <1>2. CASE d.state \notin {"opening", "closing"}
    <2>1. d.state \in Ends
      BY <1>2 DEF Layouts, Ends
    <2>2. ~Drags(d)
      BY <1>2 DEF Drags
    <2> QED BY <1>2, <2>1, <2>2, ChildrenMoved DEF D!Route
  <1> QED BY <1>1, <1>2

\* ... and for the end of the touch.
LEMMA RouteEnds ==
  ASSUME NEW d \in Layouts, NEW y \in Int, NEW action \in {"up", "cancel"}, Leads(d)
  PROVE  LET e == D!Route(d, action, y) IN
         /\ e \in Layouts /\ Rests(e) /\ e.state \in Ends
         /\ e.contentTy = d.contentTy
         /\ Drags(d) => e.anim.content
  <1>1. CASE d.state \in {"opening", "closing"}
    <2>1. D!Route(d, action, y) = D!OnTouchEvent(d, action, y)
      BY <1>1 DEF D!Route
    <2> QED BY <2>1, TouchEnds DEF Drags
  <1>2. CASE d.state \notin {"opening", "closing"}
    <2>1. d.state \in Ends
      BY <1>2 DEF Layouts, Ends
    <2>2. ~Drags(d)
      BY <1>2 DEF Drags
    <2> QED BY <1>2, <2>1, <2>2, ChildrenCancel DEF D!Route
  <1> QED BY <1>1, <1>2

\* dispatchTouchEvent(ACTION_DOWN).
LEMMA TouchDowns ==
  ASSUME NEW d \in Layouts, NEW y \in Int, Rests(d)
  PROVE  LET e == D!TouchDown(d, y) IN
         e \in Layouts /\ Leads(e) /\ e.anim = d.anim /\ e.contentTy = d.contentTy
  <1> DEFINE state == IF d.state = "opened" /\ D!TopChildUnder(d, y) # "drawer"
                        THEN "closing" ELSE d.state
             f == [d EXCEPT !.initY = y, !.currentY = y, !.state = state]
  <1>1. D!TouchDown(d, y) = D!Route(f, "down", y)
    BY DEF D!TouchDown, Layouts
  <1>2. state \in {"opened", "closed", "opening", "closing"} /\ (state \in Ends => state = d.state)
    BY DEF Layouts, Ends
  <1> HIDE DEF state
  <1>3. /\ f \in Layouts /\ f.state = state /\ f.anim = d.anim
        /\ f.drawerTy = d.drawerTy /\ f.contentTy = d.contentTy
    BY <1>2 DEF Layouts
  <1> HIDE DEF f
  <1>4. Rests(f)
    BY <1>2, <1>3, Zenon DEF Rests, Heads
  <1> QED BY <1>1, <1>3, <1>4, RouteBegins

\* dispatchTouchEvent(ACTION_UP, ACTION_CANCEL).
LEMMA TouchUps ==
  ASSUME NEW d \in Layouts, NEW action \in {"up", "cancel"}, NEW y \in Int, Leads(d)
  PROVE  LET e == D!TouchEnd(d, action, y) IN
         /\ e \in Layouts /\ Rests(e) /\ e.state \in Ends
         /\ e.contentTy = d.contentTy
         /\ Drags(d) => e.anim.content
  <1> DEFINE f == [d EXCEPT !.initY = 0, !.currentY = 0]
  <1>0. 0 \in Int
    OBVIOUS
  <1>1. /\ f \in Layouts /\ f.state = d.state /\ f.anim = d.anim /\ f.target = d.target
        /\ f.touching = d.touching /\ f.drawerTy = d.drawerTy /\ f.contentTy = d.contentTy
    BY <1>0, ZenonT(60) DEF Layouts
  <1>2. D!TouchEnd(d, action, y) = D!Route(f, action, y)
    BY DEF D!TouchEnd
  <1> HIDE DEF f
  <1>3. Leads(f) /\ (Drags(d) => Drags(f))
    BY <1>1, Zenon DEF Leads, Rests, Heads, Drags
  <1> QED BY <1>1, <1>2, <1>3, RouteEnds

\* A layout that takes the touch, or gives it back, has ended what it was doing.
LEMMA MoveTakes ==
  ASSUME NEW d \in Layouts, NEW y \in Int, NEW f \in Layouts, Rests(f),
         NEW e, e = D!Route([f EXCEPT !.currentY = y], "down", y)
  PROVE  e \in Layouts /\ Leads(e) /\ e.anim = f.anim /\ e.contentTy = f.contentTy
  <1> DEFINE g == [f EXCEPT !.currentY = y]
  <1>1. /\ g \in Layouts /\ g.state = f.state /\ g.anim = f.anim
        /\ g.drawerTy = f.drawerTy /\ g.contentTy = f.contentTy
    BY DEF Layouts
  <1>2. e = D!Route(g, "down", y)
    OBVIOUS
  <1> HIDE DEF g
  <1>3. Rests(g)
    BY <1>1, Zenon DEF Rests, Heads
  <1> QED BY <1>1, <1>2, <1>3, RouteBegins

\* dispatchTouchEvent(ACTION_MOVE): whichever case it is, the layout is dragged, or
\* given an animation, or left alone.
LEMMA MovesOn ==
  ASSUME NEW d \in Layouts, NEW y \in Int, NEW over \in BOOLEAN, Leads(d)
  PROVE  LET e == D!TouchMove(d, y, over) IN
         /\ e \in Layouts /\ Leads(e)
         /\ e.contentTy # 0 =>
              \/ Drags(e) \/ e.anim.content
              \/ d.contentTy # 0 /\ ~Drags(d)
  <1> DEFINE dy == y - d.currentY
             child == D!TopChildUnder(d, y)
             ov == child = "drawer" \/ (child = "content" /\ over)
             Take(state) == D!DispatchToChildren([d EXCEPT !.state = state], "cancel", y)
             GiveBack == D!OnTouchEvent([d EXCEPT !.state = "closed"], "cancel", y)
             At(f) == [f EXCEPT !.currentY = y]
             e == D!TouchMove(d, y, over)
  <1>1. \/ e = D!Route(d, "move", y)
        \/ d.state = "opened" /\ e = D!Route(At(Take("closing")), "down", y)
        \/ d.state = "closed" /\ e = D!Route(At(Take("opening")), "down", y)
        \/ d.state = "opening" /\ e = D!Route(At(GiveBack), "down", y)
        \/ e = D!Route(At(d), "move", y)
    BY Zenon DEF D!TouchMove
  <1> HIDE DEF e
  <1>2. CASE e = D!Route(d, "move", y)
    BY <1>2, RouteMoves DEF e
  <1>3. CASE e = D!Route(At(d), "move", y)
    <2> DEFINE f == At(d)
    <2>1. /\ f \in Layouts /\ f.state = d.state /\ f.anim = d.anim /\ f.target = d.target
          /\ f.touching = d.touching /\ f.drawerTy = d.drawerTy /\ f.contentTy = d.contentTy
      BY DEF Layouts
    <2>2. e = D!Route(f, "move", y)
      BY <1>3
    <2> HIDE DEF f
    <2>3. Leads(f) /\ (Drags(d) <=> Drags(f))
      BY <2>1, Zenon DEF Leads, Rests, Heads, Drags
    <2> QED BY <2>1, <2>2, <2>3, RouteMoves DEF e
  <1>4. ASSUME NEW state \in {"opening", "closing"}, d.state \in Ends,
               e = D!Route(At(Take(state)), "down", y)
        PROVE  e \in Layouts /\ Leads(e) /\ e.contentTy = d.contentTy
    <2> DEFINE f == [d EXCEPT !.state = state]
               t == Take(state)
    <2>1. /\ f \in Layouts /\ f.state = state /\ f.anim = d.anim
          /\ f.drawerTy = d.drawerTy /\ f.contentTy = d.contentTy
      BY DEF Layouts
    <2>2. state \notin Ends
      BY DEF Ends
    <2>3. t = D!DispatchToChildren(f, "cancel", y)
      OBVIOUS
    <2> HIDE DEF f
    <2>4. Leads(f)
      BY <2>1, <2>2, Zenon DEF Leads, Rests, Heads
    <2>5. t \in Layouts /\ Rests(t) /\ t.contentTy = f.contentTy
      BY <2>1, <2>3, <2>4, ChildrenCancel
    <2>6. e = D!Route([t EXCEPT !.currentY = y], "down", y)
      BY <1>4
    <2> HIDE DEF t
    <2> QED BY <2>1, <2>5, <2>6, MoveTakes
  <1>5. CASE d.state = "opening" /\ e = D!Route(At(GiveBack), "down", y)
    <2> DEFINE f == [d EXCEPT !.state = "closed"]
               t == GiveBack
    <2>1. f \in Layouts /\ f.contentTy = d.contentTy /\ f.touching = d.touching
      BY DEF Layouts
    <2>2. t = D!OnTouchEvent(f, "cancel", y)
      OBVIOUS
    <2> HIDE DEF f
    <2>3. /\ t \in Layouts /\ Rests(t) /\ t.contentTy = f.contentTy
          /\ t.anim.content <=> f.touching = "content"
      BY <2>1, <2>2, TouchEnds, ZenonT(30)
    <2>4. e = D!Route([t EXCEPT !.currentY = y], "down", y)
      BY <1>5
    <2> HIDE DEF t
    <2>5. e \in Layouts /\ Leads(e) /\ e.anim = t.anim /\ e.contentTy = t.contentTy
      BY <2>3, <2>4, MoveTakes
    <2> QED BY <1>5, <2>1, <2>3, <2>5 DEF e, Drags
  <1>6. CASE \/ d.state = "opened" /\ e = D!Route(At(Take("closing")), "down", y)
             \/ d.state = "closed" /\ e = D!Route(At(Take("opening")), "down", y)
    <2>1. d.state \in Ends /\ ~Drags(d)
      BY <1>6 DEF Ends, Drags
    <2>2. e \in Layouts /\ Leads(e) /\ e.contentTy = d.contentTy
      BY <1>4, <1>6, <2>1, Zenon
    <2> QED BY <2>1, <2>2 DEF e
  <1> QED BY <1>1, <1>2, <1>3, <1>5, <1>6

\* A closed drawer satisfies the invariant.
LEMMA DrawerStarts == D!Init => DrawerInv
  <1> SUFFICES ASSUME D!Init PROVE DrawerInv
    OBVIOUS
  <1>1. /\ layout.state = "closed" /\ layout.drawerTy = 0 /\ layout.contentTy = 0
        /\ layout.anim = D!NoAnim
    BY DEF D!Init
  <1>2. layout \in Layouts
    <2>1. 0 \in Int /\ 0 \in Places /\ "none" \in Children
          /\ "closed" \in {"opened", "closed", "opening", "closing"}
      BY DEF Places, Children
    <2> DEFINE e == [state |-> "closed", touching |-> "none", target |-> "none",
                     initY |-> 0, currentY |-> 0,
                     drawerTy |-> 0, contentTy |-> 0, anim |-> D!NoAnim]
    <2>2. e \in Layouts
      BY <2>1, NoAnimation DEF Layouts
    <2> QED BY <2>2 DEF D!Init, D!None
  <1>3. finger \in Int
    BY DEF D!Init, D!Up
  <1>4. interrupted \in BOOLEAN
    BY Zenon DEF D!Init
  <1>5. Rests(layout) /\ layout.state \in Ends
    BY <1>1, NoAnimation DEF Rests, Heads, Ends, EndOf
  <1> QED BY <1>1, <1>2, <1>3, <1>4, <1>5, Zenon DEF DrawerInv, Leads, Rests

\* What a touch or the toolbar makes of the layout: a content that is away from its
\* place is dragged, or animated, or had an animation that is cancelled by this.
LEMMA BecomeKeepsDrawer ==
  ASSUME DrawerInv, NEW d \in Layouts, D!Become(d), finger' \in Int, Leads(d),
         finger' = D!Up => d.state \in Ends /\ Rests(d),
         d.contentTy # 0 => \/ Drags(d) \/ d.anim.content
                            \/ layout.contentTy # 0 /\ ~Drags(layout)
  PROVE  DrawerInv'
  <1>1. /\ layout' = d
        /\ interrupted' = \/ interrupted /\ d.contentTy # 0
                          \/ /\ layout.anim.content /\ layout.contentTy # 0
                             /\ d.anim # layout.anim
    BY DEF D!Become
  <1>2. interrupted' \in BOOLEAN
    BY <1>1
  <1>3. layout.contentTy # 0 /\ ~interrupted => layout.anim.content \/ Drags(layout)
    BY DEF DrawerInv
  <1>4. d.contentTy # 0 /\ ~interrupted' => d.anim.content \/ Drags(d)
    BY <1>1, <1>3, Zenon
  <1>5. Leads(layout') /\ (finger' = D!Up => layout'.state \in Ends /\ Rests(layout'))
    BY <1>1
  <1> QED BY <1>1, <1>2, <1>4, <1>5, Zenon DEF DrawerInv, Leads, Rests, Heads, Drags, D!Up

\* Touches, toggles and frames keep the invariant.
LEMMA DrawerKept == DrawerInv /\ D!Next => DrawerInv'
  <1> SUFFICES ASSUME DrawerInv, D!Next PROVE DrawerInv'
    OBVIOUS
  <1>0. /\ layout \in Layouts /\ finger \in Int /\ Leads(layout)
        /\ finger = D!Up => layout.state \in Ends /\ Rests(layout)
        /\ layout.contentTy # 0 /\ ~interrupted => layout.anim.content \/ Drags(layout)
        /\ interrupted \in BOOLEAN
    BY DEF DrawerInv
  <1>1. CASE D!Press
    <2>1. PICK y \in D!Ys : finger' = y /\ D!Become(D!TouchDown(layout, y))
      BY <1>1 DEF D!Press
    <2> DEFINE e == D!TouchDown(layout, y)
    <2>2. finger = D!Up /\ y \in Int /\ y # D!Up
      BY <1>1 DEF D!Press, D!Ys, D!Up
    <2>3. e \in Layouts /\ Leads(e) /\ e.contentTy = layout.contentTy
      BY <1>0, <2>2, TouchDowns
    <2>4. ~Drags(layout)
      BY <1>0, <2>2 DEF Drags, Ends
    <2> HIDE DEF e
    <2> QED BY <2>1, <2>2, <2>3, <2>4, BecomeKeepsDrawer DEF e
  <1>2. CASE D!Move
    <2>1. PICK y \in D!Ys \ {finger}, over \in BOOLEAN :
            finger' = y /\ D!Become(D!TouchMove(layout, y, over))
      BY <1>2 DEF D!Move
    <2> DEFINE e == D!TouchMove(layout, y, over)
    <2>2. y \in Int /\ y # D!Up
      BY DEF D!Ys, D!Up
    <2>3. /\ e \in Layouts /\ Leads(e)
          /\ e.contentTy # 0 =>
               Drags(e) \/ e.anim.content \/ (layout.contentTy # 0 /\ ~Drags(layout))
      BY <1>0, <2>2, MovesOn
    <2> HIDE DEF e
    <2> QED BY <2>1, <2>2, <2>3, BecomeKeepsDrawer DEF e
  <1>3. CASE D!Lift
    <2>1. PICK action \in {"up", "cancel"} :
            finger' = D!Up /\ D!Become(D!TouchEnd(layout, action, finger))
      BY <1>3 DEF D!Lift
    <2> DEFINE e == D!TouchEnd(layout, action, finger)
    <2>2. /\ e \in Layouts /\ Rests(e) /\ e.state \in Ends /\ e.contentTy = layout.contentTy
          /\ Drags(layout) => e.anim.content
      BY <1>0, TouchUps
    <2>3. Leads(e) /\ finger' \in Int
      BY <2>1, <2>2 DEF Leads, Rests, D!Up
    <2> HIDE DEF e
    <2> QED BY <2>1, <2>2, <2>3, BecomeKeepsDrawer DEF e
  <1>4. CASE D!Toggle
    <2> DEFINE open == layout.state # "opened"
               e == D!Settle(layout, open)
    <2>1. D!Become(e) /\ finger' = finger
      BY <1>4 DEF D!Toggle
    <2>2. open \in BOOLEAN
      OBVIOUS
    <2>3. /\ e \in Layouts /\ e.state \in Ends /\ e.contentTy = layout.contentTy
          /\ e.anim.running /\ (e.anim.content <=> layout.touching = "content")
          /\ e.anim.to = EndOf(e.state)
      <3> HIDE DEF open
      <3> QED BY <1>0, <2>2, Settles
    <2> HIDE DEF e
    <2>4. Rests(e) /\ Leads(e)
      BY <2>3, Zenon DEF Rests, Heads, Leads
    <2>5. Drags(layout) => e.anim.content
      BY <2>3 DEF Drags
    <2> QED BY <1>0, <2>1, <2>3, <2>4, <2>5, BecomeKeepsDrawer
  <1>5. CASE D!Frame
    <2> DEFINE a == layout.anim
    <2>1. PICK ty \in Places,
               cy \in IF a.content THEN {layout.contentTy, D!Clamp(layout.contentTy - 1), 0}
                                   ELSE {layout.contentTy} :
            layout' = [layout EXCEPT !.drawerTy = ty, !.contentTy = cy,
                       !.anim = IF ty = a.to /\ (a.content => cy = 0) THEN D!NoAnim ELSE a]
      BY <1>0, <1>5 DEF D!Frame, Places, Layouts
    <2>2. /\ a.running /\ finger' = finger
          /\ interrupted' = (interrupted /\ layout'.contentTy # 0)
      BY <1>5, Zenon DEF D!Frame
    <2>3. cy \in Places /\ (~a.content => cy = layout.contentTy) /\ a \in Anims
      BY <1>0 DEF D!Clamp, Places, Layouts
    <2> DEFINE over == ty = a.to /\ (a.content => cy = 0)
               b == IF over THEN D!NoAnim ELSE a
    <2>4. b \in Anims
      BY <2>3, NoAnimation
    <2>5. layout' = [layout EXCEPT !.drawerTy = ty, !.contentTy = cy, !.anim = b]
      BY <2>1
    <2>6. /\ layout' \in Layouts /\ layout'.state = layout.state
          /\ layout'.touching = layout.touching /\ layout'.target = layout.target
          /\ layout'.drawerTy = ty /\ layout'.contentTy = cy /\ layout'.anim = b
      <3> HIDE DEF b
      <3> QED BY <1>0, <2>3, <2>4, <2>5 DEF Layouts
    <2>7. Heads(layout)
      BY <1>0 DEF Leads
    <2>8. Rests(layout')
      <3>1. CASE over
        BY <2>2, <2>6, <2>7, <3>1, NoAnimation, Zenon DEF Rests, Heads
      <3>2. CASE ~over
        BY <2>2, <2>6, <2>7, <3>2, Zenon DEF Rests, Heads
      <3> QED BY <3>1, <3>2
    <2>9. Leads(layout') /\ (finger' = D!Up => layout'.state \in Ends /\ Rests(layout'))
      BY <1>0, <2>2, <2>6, <2>8, Zenon DEF Leads, Rests
    <2>10. interrupted' \in BOOLEAN
      BY <2>2
    <2>11. layout'.contentTy # 0 /\ ~interrupted' => layout'.anim.content \/ Drags(layout')
      <3>1. CASE a.content /\ over
        BY <2>6, <3>1
      <3>2. CASE a.content /\ ~over
        BY <2>6, <3>2
      <3>3. CASE ~a.content
        BY <1>0, <2>2, <2>3, <2>6, <3>3, Zenon DEF Drags
      <3> QED BY <3>1, <3>2, <3>3
    <2> QED BY <1>0, <2>2, <2>6, <2>9, <2>10, <2>11, Zenon
      DEF DrawerInv, Leads, Rests, Heads, Drags, D!Up
  <1> QED BY <1>1, <1>2, <1>3, <1>4, <1>5 DEF D!Next

-----------------------------------------------------------------------------
(* The demos side by side.                                                 *)

\* Each demo's invariant holds at the start, is kept by its own steps and is left
\* alone by everybody else's.
LEMMA DrawerAlways == Spec => []DrawerInv
  <1>1. Init => DrawerInv
    BY DrawerStarts DEF Init
  <1>2. UNCHANGED drawerVars /\ DrawerInv => DrawerInv'
    BY DEF drawerVars, DrawerInv, Leads, Rests, Heads, Drags, D!Up
  <1>3. [Next]_vars => D!Next \/ UNCHANGED drawerVars
    BY DEF Next, DrawerStep, TakePhotoStep, NewsStep, UnpackStep, ElasticStep, vars
  <1> QED BY <1>1, <1>2, <1>3, DrawerKept, PTL DEF Spec

\* The same for the invariant of the delegate.
LEMMA PhotoAlways == Spec => []PhotoInv
  <1>1. Init => PhotoInv
    BY PhotoStarts DEF Init
  <1>2. UNCHANGED photoVars /\ PhotoInv => PhotoInv'
    BY DEF photoVars, PhotoInv
  <1>3. [Next]_vars => P!Next \/ UNCHANGED photoVars
    BY DEF Next, DrawerStep, TakePhotoStep, NewsStep, UnpackStep, ElasticStep, vars
  <1> QED BY <1>1, <1>2, <1>3, PhotoKept, PTL DEF Spec

\* The same for the invariant of the news screen.
LEMMA NewsAlways == Spec => []NewsInv
  <1>1. Init => NewsInv
    BY NewsStarts DEF Init
  <1>2. UNCHANGED newsVars /\ NewsInv => NewsInv'
    BY DEF newsVars, NewsInv
  <1>3. [Next]_vars => N!Next \/ UNCHANGED newsVars
    BY DEF Next, DrawerStep, TakePhotoStep, NewsStep, UnpackStep, ElasticStep, vars
  <1> QED BY <1>1, <1>2, <1>3, NewsKept, PTL DEF Spec

\* The same for the invariant of the unpacked model.
LEMMA UnpackAlways == Spec => []UnpackInv
  <1>1. Init => UnpackInv
    BY UnpackStarts DEF Init
  <1>2. UNCHANGED unpackVars /\ UnpackInv => UnpackInv'
    BY DEF unpackVars, UnpackInv
  <1>3. [Next]_vars => U!Next \/ UNCHANGED unpackVars
    BY DEF Next, DrawerStep, TakePhotoStep, NewsStep, UnpackStep, ElasticStep, vars
  <1> QED BY <1>1, <1>2, <1>3, UnpackKept, PTL DEF Spec

\* The same for the invariant of the elastic layouts.
LEMMA ElasticAlways == Spec => []ElasticInv
  <1>1. Init => ElasticInv
    BY ElasticStarts DEF Init
  <1>2. UNCHANGED elasticVars /\ ElasticInv => ElasticInv'
    <2> SUFFICES ASSUME UNCHANGED elasticVars, ElasticInv PROVE ElasticInv'
      OBVIOUS
    <2>1. /\ menu' = menu /\ elastic' = elastic /\ scrolling' = scrolling
          /\ offset' = offset /\ cancelled' = cancelled
      BY DEF elasticVars
    <2>2. E!DraggedOnlyAtItsEnd'
      BY <2>1, Zenon DEF ElasticInv, E!DraggedOnlyAtItsEnd
    <2>3. E!DragSettlesUnlessCancelled'
      BY <2>1, Zenon DEF ElasticInv, E!DragSettlesUnlessCancelled, E!InPlace, E!Goal
    <2> QED BY <2>1, <2>2, <2>3, Zenon DEF ElasticInv
  <1>3. [Next]_vars => E!Next \/ UNCHANGED elasticVars
    BY DEF Next, DrawerStep, TakePhotoStep, NewsStep, UnpackStep, ElasticStep, vars
  <1> QED BY <1>1, <1>2, <1>3, ElasticKept, PTL DEF Spec

-----------------------------------------------------------------------------
(* The theorems.                                                           *)

\* mDrawerState and the drawer's translation agree whenever no finger and no
\* animation holds it, for every height, slop and sequence of touches.
THEOREM DrawerComesToRest == Spec => []DrawerSettles
  <1>1. DrawerInv => DrawerSettles
    BY DEF DrawerInv, Rests, Ends, EndOf, DrawerSettles, D!DrawerSettles, D!AtRest
  <1> QED BY <1>1, DrawerAlways, PTL

\* ... and the content comes back, unless its way back was interrupted.
THEOREM ContentComesToRest == Spec => []ContentSettlesUnlessInterrupted
  <1>1. DrawerInv => ContentSettlesUnlessInterrupted
    BY Zenon DEF DrawerInv, Rests, Heads, Drags, Ends, ContentSettlesUnlessInterrupted,
      D!ContentSettlesUnlessInterrupted, D!AtRest
  <1> QED BY <1>1, DrawerAlways, PTL

\* mIfDispatchIntent, saved and restored, does what its comment says.
THEOREM OneCameraPerDelegate == Spec => []CameraOpensOnce
  <1>1. PhotoInv => CameraOpensOnce
    BY DEF PhotoInv, CameraOpensOnce, P!CameraOpensOnce
  <1> QED BY <1>1, PhotoAlways, PTL

\* The path of the photo survives the death of the delegate behind the camera.
THEOREM PhotoReachesCaller == Spec => []PhotoComesBack
  <1>1. PhotoInv => PhotoComesBack
    BY DEF PhotoInv, PhotoComesBack, P!PhotoComesBack
  <1> QED BY <1>1, PhotoAlways, PTL

\* The last event of every load of the news dismisses the dialog.
THEOREM NewsDialogGoes == Spec => []DialogGoesUnlessBroken
  <1>1. NewsInv => DialogGoesUnlessBroken
    BY DEF NewsInv, DialogGoesUnlessBroken, N!DialogGoesUnlessBroken
  <1> QED BY <1>1, NewsAlways, PTL

\* The list's clicks have one subscription, made by the one success of a load, and
\* none after a pause.
THEOREM ClickOpensOnce == Spec => []OneDetailPerClick
  <1>1. NewsInv => OneDetailPerClick
    BY DEF NewsInv, OneDetailPerClick, N!OneDetailPerClick
  <1> QED BY <1>1, NewsAlways, PTL

\* The existence of the model's file stands for its being whole, but for the copies
\* the property names.
THEOREM LoadedModelIsWhole == Spec => []LoadSeesWholeModel
  <1>1. UnpackInv => LoadSeesWholeModel
    BY DEF UnpackInv, LoadSeesWholeModel, U!LoadSeesWholeModel
  <1> QED BY <1>1, UnpackAlways, PTL

\* Both elastic layouts settle by themselves after every scroll that they accepted.
THEOREM DragComesToRest == Spec => []DragSettlesUnlessCancelled
  <1>1. ElasticInv => DragSettlesUnlessCancelled
    BY Zenon DEF ElasticInv, DragSettlesUnlessCancelled
  <1> QED BY <1>1, ElasticAlways, PTL

\* A drag, of whatever distances, is at the end of the child's content it started at.
THEOREM DragIsAtAnEnd == Spec => []DraggedOnlyAtItsEnd
  <1>1. ElasticInv => DraggedOnlyAtItsEnd
    BY Zenon DEF ElasticInv, DraggedOnlyAtItsEnd
  <1> QED BY <1>1, ElasticAlways, PTL

=============================================================================
