----------------------------- MODULE GameProofs -----------------------------
(***************************************************************************)
(* The game's camera preview, and the bite detector its frames end in.     *)
(*                                                                         *)
(* The preview, for any number of resumes and games: as long as nothing of *)
(* a stream goes on across a pause, the camera that runs is the one the    *)
(* view holds or one that a second game's took the place of, and a paused  *)
(* activity has at most one of the latter, in whatever order the threads   *)
(* step.                                                                   *)
(*                                                                         *)
(* The detector, for every MAX_RECORDS from 4 up and any number of frames: *)
(* the list of records stays well typed and bounded, the weighted sum      *)
(* recognises exactly OPENED, OPENED, CLOSED, CLOSED, and two bites share  *)
(* no record.                                                              *)
(***************************************************************************)
EXTENDS CameraPreview, BiteDetector, FiniteSetTheorems, TLAPS

-----------------------------------------------------------------------------
(* The preview: the inductive invariant.                                   *)

\* A game has a stream from its begin on, and a stream that fails or begins games
\* has been opened.
NotBegun ==
  /\ \A g \in Games : streamOf[g] <= session /\ (streamOf[g] = 0 <=> pc[g] = "none")
  /\ failed <= session /\ (resumed => session > 0)

\* Of the games of a stream, one io thread at a time is at work.
OneAtATime ==
  \A g, h \in Games :
    pc[g] \notin Resting /\ pc[h] \notin Resting /\ streamOf[g] = streamOf[h] => g = h

\* A release runs on behalf of a stream that has ended, or in onPause, which empties
\* the view before the stream does end.
ReleaseGoesOn ==
  /\ posted > 0 \/ pc[Main] = "null" => ~resumed \/ failed = session
  /\ pc[Main] = "clear" => source = None
  /\ source # None => resumed

\* What startIfReady has read is still what the view holds; on the main thread it
\* may be replaced meanwhile.
TargetIsSource ==
  /\ pc[Main] = "start" => target[Main] \in ({source} \ {None}) \cup replaced
  /\ \A g \in Games : Subscribed(g) /\ pc[Main] \notin Releasing /\ pc[g] = "start"
       => target[g] = source

\* The running camera is the view's, or a replaced one; a release stops the view's.
RunningIsHeld ==
  IF pc[Main] \in Releasing THEN Running \subseteq replaced
                            ELSE Running \subseteq {source} \cup replaced

Unraced == ReleaseGoesOn /\ TargetIsSource /\ RunningIsHeld

Inv ==
  /\ TypeOK /\ NotBegun /\ OneAtATime
  /\ ~raced => Unraced

USE DEF Sessions, Games, None, Main, Threads

-----------------------------------------------------------------------------
(* Lemmas about one step of a thread.                                      *)


\* A thread's step moves its own pc, never forgets a race, and is one of the
\* subscribed stream unless it is the main thread's or a race.
LEMMA ThreadGoes ==
  ASSUME TypeOK, NEW t \in Threads, NEW from, NEW to \in MainSteps \cup IoSteps,
         Goes(t, from, to)
  PROVE  /\ ~crashed /\ pc[t] = from /\ pc'[t] = to
         /\ \A u \in Threads : u # t => pc'[u] = pc[u]
         /\ pc' \in [Threads -> MainSteps \cup IoSteps]
         /\ raced' \in BOOLEAN /\ (raced => raced') /\ (t = Main => raced' = raced)
         /\ ~raced' /\ t # Main => Subscribed(t) /\ pc[Main] \notin Releasing
  <1>1. pc[t] = from /\ pc' = [pc EXCEPT ![t] = to] /\ ~crashed
    BY DEF Goes
  <1>2. raced' = (raced \/ (t # Main /\ ~(Subscribed(t) /\ pc[Main] \notin Releasing)))
    BY DEF Goes
  <1>3. /\ raced' \in BOOLEAN /\ (raced => raced') /\ (t = Main => raced' = raced)
        /\ ~raced' /\ t # Main => Subscribed(t) /\ pc[Main] \notin Releasing
    BY <1>2 DEF TypeOK
  <1>4. pc \in [Threads -> MainSteps \cup IoSteps]
    BY DEF TypeOK
  <1> QED BY <1>1, <1>3, <1>4


\* The two ways release() goes: the source it finds is released, or there is none.
LEMMA ReleaseGoes ==
  ASSUME TypeOK, NEW then \in MainSteps, NEW orElse \in MainSteps, Release(then, orElse)
  PROVE  /\ camera' \in [Games -> {"none", "built", "running", "released"}]
         /\ Goes(Main, pc[Main], IF source # None THEN then ELSE orElse)
         /\ Running' = Running \ {source}
  <1>1. CASE source # None
    <2>1. /\ source \in Games /\ camera' = [camera EXCEPT ![source] = "released"]
          /\ camera \in [Games -> {"none", "built", "running", "released"}]
          /\ Goes(Main, pc[Main], then)
      BY <1>1 DEF Release, TypeOK
    <2>2. camera'[source] = "released" /\ \A g \in Games : g # source => camera'[g] = camera[g]
      BY <2>1
    <2>3. camera' \in [Games -> {"none", "built", "running", "released"}]
      BY <2>1
    <2>4. Running' = Running \ {source}
      BY <2>2 DEF Running
    <2> QED BY <1>1, <2>1, <2>3, <2>4
  <1>2. CASE source = None
    <2>1. camera' = camera /\ Goes(Main, pc[Main], orElse)
      BY <1>2 DEF Release
    <2>2. None \notin Running /\ Running' = Running
      BY <2>1 DEF Running
    <2> QED BY <1>2, <2>1, <2>2 DEF TypeOK
  <1> QED BY <1>1, <1>2

\* startIfReady on either thread: the four steps, without the thread's own guard.
LEMMA StartGoes ==
  ASSUME TypeOK, NEW t \in Threads, StartIfReady(t)
  PROVE  /\ \E from \in {"check", "read", "start", "finish"},
               to \in {"read", "start", "finish", End(t), IF t = Main THEN "free" ELSE "fail"} :
              /\ Goes(t, from, to)
              /\ to = "start" => /\ source # None /\ target' = [target EXCEPT ![t] = source]
              /\ to # "start" => target' = target
              /\ from = "start" /\ camera' # camera =>
                   /\ Running \ {target[t]} = {}
                   /\ camera' = [camera EXCEPT ![target[t]] = "running"]
              /\ from # "start" => camera' = camera
         /\ UNCHANGED <<streamVars, available, source, replaced, posted>>
         /\ requested' \in BOOLEAN /\ crashed' \in BOOLEAN
  <1> DEFINE Failed == IF t = Main THEN "free" ELSE "fail"
             Ends == {"read", "start", "finish", End(t), Failed}
  <1>e. End(t) \in {"free", "done"} /\ Failed \in {"free", "fail"}
    BY DEF End
  <1>f. ASSUME NEW from, Fails(t, from)
        PROVE  \E to \in {End(t), Failed} : Goes(t, from, to) /\ crashed' \in BOOLEAN
    <2>1. CASE t = Main
      BY <1>f, <2>1 DEF Fails
    <2>2. CASE t # Main
      <3>1. End(t) = "done" /\ Failed = "fail"
        BY <2>2 DEF End
      <3>2. Goes(t, from, IF sub[t] = "active" THEN "fail" ELSE "done") /\ crashed' \in BOOLEAN
        BY <1>f, <2>2 DEF Fails, TypeOK
      <3> QED BY <3>1, <3>2
    <2> QED BY <2>1, <2>2
  <1> HIDE DEF Failed
  <1>1. CASE CheckReady(t)
    <2>1. PICK to \in {"read", End(t)} : Goes(t, "check", to)
      BY <1>1 DEF CheckReady
    <2> QED BY <1>1, <1>e, <2>1 DEF CheckReady, TypeOK, viewVars, Failed
  <1>2. CASE ReadSource(t)
    <2>0. /\ UNCHANGED <<streamVars, available, source, replaced, posted, camera>>
          /\ requested' \in BOOLEAN
      BY <1>2 DEF ReadSource, TypeOK, viewVars
    <2>1. CASE source = None
      <3>1. target' = target /\ \E to \in {End(t), Failed} : Goes(t, "read", to) /\ crashed' \in BOOLEAN
        BY <1>2, <1>f, <2>1 DEF ReadSource
      <3> QED BY <1>e, <2>0, <3>1 DEF Failed
    <2>2. CASE source # None
      <3>1. /\ Goes(t, "read", "start") /\ target' = [target EXCEPT ![t] = source]
            /\ crashed' \in BOOLEAN
        BY <1>2, <2>2 DEF ReadSource, TypeOK
      <3> QED BY <2>0, <2>2, <3>1
    <2> QED BY <2>1, <2>2
  <1>3. CASE StartSource(t)
    <2>0. /\ UNCHANGED <<streamVars, available, source, replaced, posted, target>>
          /\ requested' \in BOOLEAN
      BY <1>3 DEF StartSource, TypeOK, viewVars
    <2>1. CASE Running \ {target[t]} # {}
      <3>1. camera' = camera /\ \E to \in {End(t), Failed} : Goes(t, "start", to) /\ crashed' \in BOOLEAN
        BY <1>3, <1>f, <2>1 DEF StartSource
      <3> QED BY <1>e, <2>0, <3>1 DEF Failed
    <2>2. CASE Running \ {target[t]} = {}
      <3>1. /\ Goes(t, "start", "finish") /\ camera' = [camera EXCEPT ![target[t]] = "running"]
            /\ crashed' \in BOOLEAN
        BY <1>3, <2>2 DEF StartSource, TypeOK
      <3> QED BY <2>0, <2>2, <3>1
    <2> QED BY <2>1, <2>2
  <1>4. CASE Finish(t)
    BY <1>4, <1>e DEF Finish, TypeOK, Failed
  <1> QED BY <1>1, <1>2, <1>3, <1>4 DEF StartIfReady

\* The steps before startIfReady, on the io thread of game g.
LEMMA IoGoes ==
  ASSUME TypeOK, NEW g \in Games, OnSubscribe(g) \/ SetSource(g) \/ RequestStart(g)
  PROVE  /\ \/ Goes(g, "subscribe", "source")
               /\ UNCHANGED <<viewVars, camera>>
               /\ sub' = [sub EXCEPT ![g] = IF Subscribed(g) THEN "active" ELSE "disposed"]
               /\ posted' = IF Subscribed(g) THEN posted ELSE posted + 1
            \/ Goes(g, "source", "request") /\ source' = g
               /\ replaced' = replaced \cup ({source} \ {None})
               /\ camera' = [camera EXCEPT ![g] = "built"]
               /\ UNCHANGED <<sub, requested, available, posted>>
            \/ Goes(g, "request", "check") /\ requested' = TRUE
               /\ UNCHANGED <<sub, available, source, replaced, camera, posted>>
         /\ UNCHANGED <<session, resumed, failed, streamOf, target, crashed>>
  BY DEF OnSubscribe, SetSource, RequestStart, streamVars

\* The games to dispose with a stream are finitely many.
LEMMA ActiveFinite == ASSUME TypeOK PROVE Cardinality(Active) \in Nat
  <1>1. IsFiniteSet(Games)
    BY PreviewAssumption, FS_Interval
  <1>2. Active \subseteq Games
    BY DEF Active, GamesOf
  <1>3. IsFiniteSet(Active)
    BY <1>1, <1>2, FS_Subset
  <1> QED BY <1>3, FS_CardinalityType

-----------------------------------------------------------------------------
\* Every step keeps the types, and one game of a stream at work at a time.
LEMMA TypeStep ==
  ASSUME TypeOK, NotBegun, OneAtATime, [Next]_vars
  PROVE  TypeOK' /\ NotBegun' /\ OneAtATime'
  <1>0. session \in Nat /\ failed \in Nat /\ MaxSessions \in Nat /\ posted \in Nat
    BY PreviewAssumption DEF TypeOK
  <1>s. \A g \in Games : streamOf[g] \in Nat
    BY <1>0 DEF TypeOK
  <1>a. ASSUME /\ session' \in 0..MaxSessions /\ resumed' \in BOOLEAN /\ requested' \in BOOLEAN
               /\ available' \in BOOLEAN /\ crashed' \in BOOLEAN /\ source' \in Threads
               /\ failed' \in 0..MaxSessions /\ streamOf' \in [Games -> 0..MaxSessions]
               /\ sub' \in [Games -> {"none", "active", "disposed"}]
               /\ posted' \in Nat /\ replaced' \subseteq Games
               /\ camera' \in [Games -> {"none", "built", "running", "released"}]
               /\ target' \in [Threads -> Threads]
               /\ raced' \in BOOLEAN /\ pc' \in [Threads -> MainSteps \cup IoSteps]
               /\ pc'[Main] \in MainSteps /\ \A g \in Games : pc'[g] \in IoSteps
        PROVE  TypeOK'
    BY <1>a DEF TypeOK
  <1>m. ASSUME NEW from, NEW to \in MainSteps, Goes(Main, from, to)
        PROVE  /\ raced' \in BOOLEAN /\ pc' \in [Threads -> MainSteps \cup IoSteps]
               /\ pc'[Main] \in MainSteps
               /\ \A g \in Games : pc'[g] = pc[g] /\ pc'[g] \in IoSteps
    <2>1. /\ raced' \in BOOLEAN /\ pc' \in [Threads -> MainSteps \cup IoSteps]
          /\ pc'[Main] = to /\ \A u \in Threads : u # Main => pc'[u] = pc[u]
      BY <1>m, ThreadGoes
    <2>2. \A g \in Games : g # Main
      OBVIOUS
    <2> QED BY <2>1, <2>2 DEF TypeOK
  <1>i. ASSUME NEW g \in Games, NEW from, NEW to \in IoSteps, Goes(g, from, to)
        PROVE  /\ raced' \in BOOLEAN /\ pc' \in [Threads -> MainSteps \cup IoSteps]
               /\ pc'[Main] \in MainSteps /\ \A h \in Games : pc'[h] \in IoSteps
               /\ pc[g] = from /\ pc'[g] = to /\ \A h \in Games : h # g => pc'[h] = pc[h]
    <2>1. /\ raced' \in BOOLEAN /\ pc' \in [Threads -> MainSteps \cup IoSteps]
          /\ pc[g] = from /\ pc'[g] = to /\ \A u \in Threads : u # g => pc'[u] = pc[u]
      BY <1>i, ThreadGoes
    <2>2. Main # g
      OBVIOUS
    <2> QED BY <2>1, <2>2 DEF TypeOK
  <1>n. ASSUME session' = session, streamOf' = streamOf, failed' \in {failed, session},
               resumed' => resumed,
               \A g \in Games : \/ pc'[g] = pc[g]
                                \/ /\ pc[g] # "none" /\ pc'[g] # "none"
                                   /\ pc[g] \in Resting => pc'[g] \in Resting
        PROVE  NotBegun' /\ OneAtATime'
    <2>1. NotBegun'
      BY <1>0, <1>n DEF NotBegun
    <2>2. OneAtATime'
      BY <1>n DEF OneAtATime
    <2> QED BY <2>1, <2>2
  <1> USE DEF MainSteps, Releasing
  <1>1. CASE Resume
    <2>1. /\ session' = session + 1 /\ session' \in 0..MaxSessions
          /\ UNCHANGED <<pc, failed, streamOf>> /\ resumed' = TRUE
      BY <1>0, <1>1 DEF Resume
    <2>2. NotBegun'
      <3>1. \A g \in Games : streamOf[g] <= session /\ (streamOf[g] = 0 <=> pc[g] = "none")
        BY DEF NotBegun
      <3>2. \A g \in Games : streamOf'[g] <= session' /\ (streamOf'[g] = 0 <=> pc'[g] = "none")
        BY <1>0, <1>s, <2>1, <3>1
      <3>3. failed' <= session' /\ session' > 0
        BY <1>0, <2>1 DEF NotBegun
      <3> QED BY <3>2, <3>3 DEF NotBegun
    <2>3. UNCHANGED <<sub, posted, camera, target, crashed, source, replaced, available, requested>>
          /\ raced' \in BOOLEAN
      BY <1>1 DEF Resume, viewVars, TypeOK
    <2>4. TypeOK'
      BY <1>a, <2>1, <2>3, ZenonT(30) DEF TypeOK
    <2>5. OneAtATime'
      BY <2>1 DEF OneAtATime
    <2> QED BY <2>2, <2>4, <2>5
  <1>2. CASE Pause \/ RunPosted
    <2>1. PICK to \in MainSteps : Goes(Main, pc[Main], to)
      BY <1>2, ReleaseGoes DEF Pause, RunPosted
    <2>2. camera' \in [Games -> {"none", "built", "running", "released"}]
      BY <1>2, ReleaseGoes DEF Pause, RunPosted
    <2>3. UNCHANGED <<session, resumed, failed, streamOf, sub, requested, available, source,
                      replaced, target, crashed>>
      BY <1>2 DEF Pause, RunPosted, streamVars, viewVars
    <2>4. posted' \in Nat
      <3>1. posted' = posted \/ (posted > 0 /\ posted' = posted - 1)
        BY <1>2 DEF Pause, RunPosted
      <3>2. \A n \in Nat : n > 0 => n - 1 \in Nat
        OBVIOUS
      <3>3. posted \in Nat
        BY <1>0
      <3> QED BY <3>1, <3>2, <3>3
    <2> QED BY <1>a, <1>m, <1>n, <2>1, <2>2, <2>3, <2>4, ZenonT(30) DEF TypeOK
  <1>3. CASE NullSource
    <2>1. PICK from, to \in MainSteps : Goes(Main, from, to)
      BY <1>3 DEF NullSource
    <2>2. UNCHANGED <<session, resumed, failed, streamOf, sub, posted, requested, available,
                      replaced, camera, target, crashed>>
          /\ source' \in Threads
      BY <1>3 DEF NullSource, streamVars
    <2> QED BY <1>a, <1>m, <1>n, <2>1, <2>2, ZenonT(30) DEF TypeOK
  <1>4. CASE ClearDisposables
    <2>1. /\ camera' \in [Games -> {"none", "built", "running", "released"}]
          /\ sub' \in [Games -> {"none", "active", "disposed"}]
          /\ \E from, to \in MainSteps : Goes(Main, from, to)
      <3>1. ASSUME NEW g \in Active, sub' = [sub EXCEPT ![g] = "disposed"],
                   Release("nullThenClear", "clear")
            PROVE  /\ camera' \in [Games -> {"none", "built", "running", "released"}]
                   /\ sub' \in [Games -> {"none", "active", "disposed"}]
                   /\ \E from, to \in MainSteps : Goes(Main, from, to)
        BY <3>1, ReleaseGoes DEF TypeOK
      <3>2. CASE Goes(Main, "clear", "free") /\ camera' = camera /\ sub' = sub
        BY <3>2 DEF TypeOK
      <3> QED BY <1>4, <3>1, <3>2 DEF ClearDisposables
    <2>2. UNCHANGED <<session, failed, streamOf, posted, requested, available, source, replaced,
                      target, crashed>>
          /\ resumed' = FALSE
      BY <1>4 DEF ClearDisposables, viewVars
    <2> QED BY <1>a, <1>m, <1>n, <2>1, <2>2, ZenonT(30) DEF TypeOK
  <1>5. CASE SurfaceCreated \/ SurfaceDestroyed \/ Layout
    <2>1. PICK from, to \in MainSteps : Goes(Main, from, to)
      BY <1>5 DEF SurfaceCreated, SurfaceDestroyed, Layout
    <2>2. UNCHANGED <<session, resumed, failed, streamOf, sub, posted, requested, source, replaced,
                      camera, target, crashed>>
      BY <1>5 DEF SurfaceCreated, SurfaceDestroyed, Layout, streamVars, viewVars
    <2>3. available' \in BOOLEAN
      BY <1>5 DEF SurfaceCreated, SurfaceDestroyed, Layout, viewVars, TypeOK
    <2> QED BY <1>a, <1>m, <1>n, <2>1, <2>2, <2>3, ZenonT(30) DEF TypeOK
  <1>6. ASSUME NEW t \in Threads, StartIfReady(t) PROVE TypeOK' /\ NotBegun' /\ OneAtATime'
    <2>1. PICK from \in {"check", "read", "start", "finish"},
               to \in {"read", "start", "finish", End(t), IF t = Main THEN "free" ELSE "fail"} :
            /\ Goes(t, from, to)
            /\ to = "start" => target' = [target EXCEPT ![t] = source]
            /\ to # "start" => target' = target
            /\ from = "start" /\ camera' # camera =>
                 camera' = [camera EXCEPT ![target[t]] = "running"]
            /\ from # "start" => camera' = camera
      BY <1>6, StartGoes
    <2>2. /\ UNCHANGED <<session, resumed, failed, streamOf, sub, available, source, replaced, posted>>
          /\ requested' \in BOOLEAN /\ crashed' \in BOOLEAN
      BY <1>6, StartGoes DEF streamVars
    <2>3. target' \in [Threads -> Threads]
      <3>1. target \in [Threads -> Threads] /\ source \in Threads
        BY DEF TypeOK
      <3> QED BY <2>1, <3>1
    <2>4. camera' \in [Games -> {"none", "built", "running", "released"}]
      <3>1. camera \in [Games -> {"none", "built", "running", "released"}]
        BY DEF TypeOK
      <3> QED BY <2>1, <3>1
    <2>5. t = Main => to \in MainSteps
      BY DEF End
    <2>6. t # Main => t \in Games /\ to \in IoSteps /\ to # "none" /\ from \notin Resting
      BY DEF End, IoSteps, Resting
    <2>7. /\ raced' \in BOOLEAN /\ pc' \in [Threads -> MainSteps \cup IoSteps]
          /\ pc'[Main] \in MainSteps /\ \A g \in Games : pc'[g] \in IoSteps
          /\ \A g \in Games : pc'[g] = pc[g] \/ (pc[g] \notin Resting /\ pc'[g] # "none")
      <3>1. CASE t = Main
        BY <1>m, <2>1, <2>5, <3>1
      <3>2. CASE t # Main
        BY <1>i, <2>1, <2>6, <3>2
      <3> QED BY <3>1, <3>2
    <2>8. NotBegun' /\ OneAtATime'
      BY <1>n, <2>2, <2>7 DEF Resting
    <2> QED BY <1>a, <2>2, <2>3, <2>4, <2>7, <2>8, ZenonT(30) DEF TypeOK
  <1>7. ASSUME NEW g \in Games, OnSubscribe(g) \/ SetSource(g) \/ RequestStart(g)
        PROVE  TypeOK' /\ NotBegun' /\ OneAtATime'
    <2>1. PICK from, next \in IoSteps \ Resting : Goes(g, from, next)
      <3>1. \/ Goes(g, "subscribe", "source") \/ Goes(g, "source", "request")
            \/ Goes(g, "request", "check")
        BY <1>7, IoGoes
      <3>2. {"subscribe", "source", "request", "check"} \subseteq IoSteps \ Resting
        BY DEF IoSteps, Resting
      <3> QED BY <3>1, <3>2
    <2>2. /\ raced' \in BOOLEAN /\ pc' \in [Threads -> MainSteps \cup IoSteps]
          /\ pc'[Main] \in MainSteps /\ \A h \in Games : pc'[h] \in IoSteps
          /\ \A h \in Games : pc'[h] = pc[h] \/ (pc[h] \notin Resting /\ pc'[h] \notin Resting)
      BY <1>i, <2>1
    <2>3. /\ UNCHANGED <<session, resumed, failed, streamOf, available, target, crashed>>
          /\ source' \in Threads /\ requested' \in BOOLEAN
      BY <1>7, IoGoes DEF viewVars, TypeOK
    <2>4. camera' \in [Games -> {"none", "built", "running", "released"}]
      <3>1. camera' = camera \/ camera' = [camera EXCEPT ![g] = "built"]
        BY <1>7, IoGoes
      <3> QED BY <3>1 DEF TypeOK
    <2>5. sub' \in [Games -> {"none", "active", "disposed"}]
      <3>1. sub' = sub \/ \E new \in {"active", "disposed"} : sub' = [sub EXCEPT ![g] = new]
        BY <1>7, IoGoes
      <3> QED BY <3>1 DEF TypeOK
    <2>6. posted' \in Nat /\ replaced' \subseteq Games
      <3>1. posted' \in {posted, posted + 1}
        BY <1>7, IoGoes
      <3>2. replaced' \in {replaced, replaced \cup ({source} \ {None})}
        BY <1>7, IoGoes DEF viewVars
      <3>3. source \in Threads /\ replaced \subseteq Games
        BY DEF TypeOK
      <3>4. replaced' \subseteq Games
        BY <3>2, <3>3
      <3> QED BY <1>0, <3>1, <3>4
    <2>7. NotBegun' /\ OneAtATime'
      BY <1>n, <2>2, <2>3 DEF Resting
    <2> QED BY <1>a, <2>2, <2>3, <2>4, <2>5, <2>6, <2>7, ZenonT(30) DEF TypeOK
  <1>8. ASSUME NEW g \in Games, BeginGame(g) PROVE TypeOK' /\ NotBegun' /\ OneAtATime'
    <2>1. /\ streamOf' = [streamOf EXCEPT ![g] = session] /\ resumed
          /\ \A h \in GamesOf(session) : pc[h] \in {"done", "fail"}
          /\ pc[g] = "none" /\ pc' = [pc EXCEPT ![g] = "subscribe"]
          /\ UNCHANGED <<session, resumed, failed, sub, requested, available, source, replaced,
                         camera, target, posted, raced, crashed>>
      BY <1>8 DEF BeginGame, viewVars
    <2>2. /\ pc'[g] = "subscribe" /\ \A u \in Threads : u # g => pc'[u] = pc[u]
          /\ pc' \in [Threads -> MainSteps \cup IoSteps] /\ g # Main
      BY <2>1 DEF TypeOK, IoSteps
    <2>3. /\ streamOf'[g] = session /\ \A h \in Games : h # g => streamOf'[h] = streamOf[h]
          /\ streamOf' \in [Games -> 0..MaxSessions]
      BY <2>1 DEF TypeOK
    <2>4. pc'[Main] \in MainSteps /\ \A h \in Games : pc'[h] \in IoSteps
      <3>1. pc[Main] \in MainSteps /\ \A h \in Games : pc[h] \in IoSteps
        BY DEF TypeOK
      <3>2. "subscribe" \in IoSteps
        BY DEF IoSteps
      <3> QED BY <2>2, <3>1, <3>2
    <2>5. TypeOK'
      BY <1>a, <2>1, <2>2, <2>3, <2>4, ZenonT(30) DEF TypeOK
    <2>6. NotBegun'
      <3>1. session > 0 /\ failed <= session
            /\ \A h \in Games : streamOf[h] <= session /\ (streamOf[h] = 0 <=> pc[h] = "none")
        BY <2>1 DEF NotBegun
      <3>2. \A h \in Games : streamOf'[h] <= session /\ (streamOf'[h] = 0 <=> pc'[h] = "none")
        <4> SUFFICES ASSUME NEW h \in Games
                     PROVE  streamOf'[h] <= session /\ (streamOf'[h] = 0 <=> pc'[h] = "none")
          OBVIOUS
        <4>1. CASE h = g
          BY <1>0, <2>2, <2>3, <3>1, <4>1
        <4>2. CASE h # g
          <5>1. streamOf'[h] = streamOf[h] /\ pc'[h] = pc[h]
            BY <2>2, <2>3, <4>2
          <5> QED BY <3>1, <5>1
        <4> QED BY <4>1, <4>2
      <3> QED BY <2>1, <3>1, <3>2 DEF NotBegun
    <2>7. OneAtATime'
      <3>1. SUFFICES ASSUME NEW h \in Games, h # g, pc'[h] \notin Resting, streamOf'[h] = session
                     PROVE  FALSE
        BY <2>2, <2>3 DEF OneAtATime
      <3>2. h \in GamesOf(session) /\ pc[h] \notin Resting
        BY <2>2, <2>3, <3>1 DEF GamesOf
      <3> QED BY <2>1, <3>2 DEF Resting
    <2> QED BY <2>5, <2>6, <2>7
  <1>9. ASSUME NEW g \in Games, Collapse(g) PROVE TypeOK' /\ NotBegun' /\ OneAtATime'
    <2>1. /\ pc[g] = "fail" /\ pc' = [pc EXCEPT ![g] = "done"]
          /\ UNCHANGED <<session, resumed, streamOf, requested, available, source, replaced,
                         camera, target, raced, crashed>>
      BY <1>9 DEF Collapse, viewVars
    <2>2. /\ failed' \in {failed, session} /\ posted' \in Nat
          /\ sub' \in [Games -> {"none", "active", "disposed"}]
      <3>1. CASE Subscribed(g)
        <4>1. /\ failed' = session /\ posted' = posted + Cardinality(Active)
              /\ sub' = [h \in Games |-> IF h \in Active THEN "disposed" ELSE sub[h]]
          BY <1>9, <3>1 DEF Collapse
        <4>2. \A h \in Games : sub[h] \in {"none", "active", "disposed"}
          BY DEF TypeOK
        <4> QED BY <1>0, <4>1, <4>2, ActiveFinite
      <3>2. CASE ~Subscribed(g)
        BY <1>0, <1>9, <3>2 DEF Collapse, TypeOK
      <3> QED BY <3>1, <3>2
    <2>3. /\ pc'[g] = "done" /\ \A u \in Threads : u # g => pc'[u] = pc[u]
          /\ pc' \in [Threads -> MainSteps \cup IoSteps] /\ g # Main
      BY <2>1 DEF TypeOK, IoSteps, Resting
    <2>4. pc'[Main] \in MainSteps /\ \A h \in Games : pc'[h] \in IoSteps
      <3>1. pc[Main] \in MainSteps /\ \A h \in Games : pc[h] \in IoSteps
        BY DEF TypeOK
      <3>2. "done" \in IoSteps
        BY DEF IoSteps, Resting
      <3> QED BY <2>3, <3>1, <3>2
    <2>5. failed' \in 0..MaxSessions
      BY <2>2 DEF TypeOK
    <2>6. NotBegun' /\ OneAtATime'
      BY <1>n, <2>1, <2>2, <2>3 DEF Resting
    <2> QED BY <1>a, <2>1, <2>2, <2>3, <2>4, <2>5, <2>6, ZenonT(30) DEF TypeOK
  <1>10. CASE ReportError
    <2>1. /\ crashed' = TRUE
          /\ UNCHANGED <<session, resumed, failed, streamOf, sub, requested, available, source,
                         replaced, camera, pc, target, posted, raced>>
      BY <1>10 DEF ReportError, streamVars, viewVars
    <2> QED BY <1>a, <1>n, <2>1, ZenonT(30) DEF TypeOK
  <1>11. CASE UNCHANGED vars
    <2>1. UNCHANGED <<session, resumed, failed, streamOf, sub, requested, available, source,
                      replaced, camera, pc, target, posted, raced, crashed>>
      BY <1>11 DEF vars, streamVars, viewVars
    <2> QED BY <1>a, <1>n, <2>1, ZenonT(30) DEF TypeOK
  <1> QED BY <1>1, <1>2, <1>3, <1>4, <1>5, <1>6, <1>7, <1>8, <1>9, <1>10, <1>11
          DEF Next, MainSequel, IoSequel

-----------------------------------------------------------------------------
(* The part of the invariant that holds until a thread or a posted release *)
(* has gone on across a pause.                                             *)

\* An unraced step of startIfReady reads and starts what the view holds; on the main
\* thread it may start what the view held before the second game.
LEMMA UnracedStart ==
  ASSUME Inv, ~raced, Unraced, ~raced', NEW t \in Threads, StartIfReady(t)
  PROVE  Unraced'
  <1>0. TypeOK
    BY DEF Inv
  <1>1. PICK from \in {"check", "read", "start", "finish"},
             to \in {"read", "start", "finish", End(t), IF t = Main THEN "free" ELSE "fail"} :
          /\ Goes(t, from, to)
          /\ to = "start" => source # None /\ target' = [target EXCEPT ![t] = source]
          /\ to # "start" => target' = target
          /\ from = "start" /\ camera' # camera =>
               /\ Running \ {target[t]} = {}
               /\ camera' = [camera EXCEPT ![target[t]] = "running"]
          /\ from # "start" => camera' = camera
    BY <1>0, StartGoes
  <1>2. UNCHANGED <<session, resumed, failed, streamOf, source, replaced, posted>>
    BY <1>0, StartGoes DEF streamVars
  <1>3. /\ pc[t] = from /\ pc'[t] = to /\ \A u \in Threads : u # t => pc'[u] = pc[u]
        /\ t # Main => Subscribed(t) /\ pc[Main] \notin Releasing
    <2>1. to \in MainSteps \cup IoSteps
      BY DEF End, MainSteps, IoSteps, Resting
    <2> QED BY <1>0, <1>1, <2>1, ThreadGoes
  <1>4. pc[Main] \notin Releasing /\ pc'[Main] \notin Releasing
    BY <1>1, <1>3 DEF End, Releasing
  <1>5. ReleaseGoesOn'
    BY <1>2, <1>4 DEF Unraced, ReleaseGoesOn, Releasing
  <1>6. TargetIsSource'
    <2>1. CASE to = "start"
      <3>1. source # None /\ target'[t] = source /\ \A u \in Threads : u # t => target'[u] = target[u]
        BY <1>0, <1>1, <2>1 DEF TypeOK
      <3> QED BY <1>2, <1>3, <1>4, <3>1 DEF Unraced, TargetIsSource, Subscribed
    <2>2. CASE to # "start"
      BY <1>1, <1>2, <1>3, <1>4, <2>2 DEF Unraced, TargetIsSource, Subscribed
    <2> QED BY <2>1, <2>2
  <1>7. RunningIsHeld'
    <2>1. Running \subseteq {source} \cup replaced
      BY <1>4 DEF Unraced, RunningIsHeld
    <2>2. CASE camera' = camera
      BY <1>2, <1>4, <2>1, <2>2 DEF RunningIsHeld, Running
    <2>3. CASE camera' # camera
      <3>1. pc[t] = "start" /\ camera' = [camera EXCEPT ![target[t]] = "running"]
        BY <1>1, <1>3, <2>3
      <3>2. target[t] \in {source} \cup replaced
        <4>1. CASE t = Main
          BY <3>1, <4>1 DEF Unraced, TargetIsSource
        <4>2. CASE t # Main
          BY <1>3, <3>1, <4>2 DEF Unraced, TargetIsSource
        <4> QED BY <4>1, <4>2
      <3>3. \A g \in Games : g # target[t] => camera'[g] = camera[g]
        BY <1>0, <3>1 DEF TypeOK
      <3>4. Running' \subseteq Running \cup {target[t]}
        BY <3>3 DEF Running
      <3> QED BY <1>2, <1>4, <2>1, <3>2, <3>4 DEF RunningIsHeld
    <2> QED BY <2>2, <2>3
  <1> QED BY <1>5, <1>6, <1>7 DEF Unraced

\* An unraced step of an io thread before that is one of the subscribed stream: it
\* replaces the view's source only when no other of its games is about to start it.
LEMMA UnracedIo ==
  ASSUME Inv, ~raced, Unraced, ~raced', NEW g \in Games,
         OnSubscribe(g) \/ SetSource(g) \/ RequestStart(g)
  PROVE  Unraced'
  <1>0. TypeOK /\ g \in Threads /\ g # Main
    BY DEF Inv
  <1>1. \/ /\ Goes(g, "subscribe", "source")
           /\ UNCHANGED <<source, replaced, camera>>
           /\ posted' = IF Subscribed(g) THEN posted ELSE posted + 1
        \/ /\ Goes(g, "source", "request") /\ source' = g
           /\ replaced' = replaced \cup ({source} \ {None})
           /\ camera' = [camera EXCEPT ![g] = "built"] /\ posted' = posted
        \/ /\ Goes(g, "request", "check")
           /\ UNCHANGED <<source, replaced, camera>> /\ posted' = posted
    BY <1>0, IoGoes DEF viewVars
  <1>2. PICK from \in {"subscribe", "source", "request"}, to \in {"source", "request", "check"} :
          /\ Goes(g, from, to)
          /\ IF from = "source"
               THEN /\ source' = g /\ replaced' = replaced \cup ({source} \ {None})
                    /\ camera' = [camera EXCEPT ![g] = "built"]
               ELSE UNCHANGED <<source, replaced, camera>>
    BY <1>1
  <1>3. /\ pc[g] = from /\ pc'[g] = to /\ \A u \in Threads : u # g => pc'[u] = pc[u]
        /\ Subscribed(g) /\ pc[Main] \notin Releasing
    <2>1. to \in MainSteps \cup IoSteps
      BY DEF IoSteps
    <2> QED BY <1>0, <1>2, <2>1, ThreadGoes
  <1>4. UNCHANGED <<session, resumed, failed, streamOf, target>> /\ posted' = posted
    BY <1>0, <1>1, <1>3, IoGoes
  <1>5. pc'[Main] = pc[Main] /\ streamOf[g] = session /\ resumed
    BY <1>0, <1>3 DEF Subscribed
  <1>6. ReleaseGoesOn'
    BY <1>2, <1>3, <1>4, <1>5 DEF Unraced, ReleaseGoesOn, Releasing
  <1>7. CASE from = "source"
    <2>1. \A h \in Games : Subscribed(h) => pc'[h] # "start"
      <3>1. SUFFICES ASSUME NEW h \in Games, Subscribed(h), pc'[h] = "start" PROVE FALSE
        OBVIOUS
      <3>2. h # g /\ pc[h] = "start"
        BY <1>2, <1>3, <3>1
      <3>3. streamOf[h] = streamOf[g] /\ pc[h] \notin Resting /\ pc[g] \notin Resting
        BY <1>3, <1>5, <1>7, <3>1, <3>2 DEF Subscribed, Resting
      <3> QED BY <3>2, <3>3 DEF Inv, OneAtATime
    <2>2. TargetIsSource'
      <3>1. pc'[Main] = "start" => target'[Main] \in replaced'
        BY <1>2, <1>4, <1>5, <1>7 DEF Unraced, TargetIsSource
      <3> QED BY <1>4, <2>1, <3>1 DEF TargetIsSource, Subscribed
    <2>3. RunningIsHeld'
      <3>1. \A u \in Games : camera'[u] = "running" => camera[u] = "running"
        BY <1>0, <1>2, <1>7 DEF TypeOK
      <3>2. Running' \subseteq Running /\ None \notin Running
        BY <3>1 DEF Running
      <3>3. Running \subseteq {source} \cup replaced
        BY <1>3 DEF Unraced, RunningIsHeld
      <3>4. Running' \subseteq replaced'
        BY <1>2, <1>7, <3>2, <3>3
      <3> QED BY <3>4 DEF RunningIsHeld
    <2> QED BY <1>6, <2>2, <2>3 DEF Unraced
  <1>8. CASE from # "source"
    <2>1. UNCHANGED <<source, replaced, camera>> /\ pc'[g] # "start"
      BY <1>2, <1>3, <1>8
    <2>2. TargetIsSource'
      BY <1>3, <1>4, <1>5, <2>1 DEF Unraced, TargetIsSource, Subscribed
    <2>3. RunningIsHeld'
      BY <1>5, <2>1 DEF Unraced, RunningIsHeld, Running
    <2> QED BY <1>6, <2>2, <2>3 DEF Unraced
  <1> QED BY <1>7, <1>8

\* A game that begins, and one whose error ends its stream, touch neither view nor
\* camera; the releases that the error posts find the stream ended.
LEMMA UnracedGame ==
  ASSUME Inv, Unraced, NEW g \in Games, BeginGame(g) \/ Collapse(g)
  PROVE  Unraced'
  <1>0. TypeOK /\ NotBegun /\ g # Main
    BY DEF Inv
  <1>1. PICK to \in {"subscribe", "done"} :
          /\ pc' = [pc EXCEPT ![g] = to]
          /\ UNCHANGED <<session, resumed, source, replaced, camera, target>>
    BY DEF BeginGame, Collapse, viewVars
  <1>2. /\ pc'[g] = to /\ \A u \in Threads : u # g => pc'[u] = pc[u]
        /\ pc'[Main] = pc[Main]
    BY <1>0, <1>1 DEF TypeOK
  <1>3. RunningIsHeld'
    BY <1>1, <1>2 DEF Unraced, RunningIsHeld, Running
  <1>4. (posted' = posted /\ failed' = failed) \/ failed' = session
    BY DEF BeginGame, Collapse
  <1>5. ReleaseGoesOn'
    BY <1>1, <1>2, <1>4 DEF Unraced, ReleaseGoesOn
  <1>6. TargetIsSource'
    <2>1. \A h \in Games : pc'[h] = "start" => h # g /\ pc[h] = "start"
      BY <1>2
    <2>2. \A h \in Games : h # g => streamOf'[h] = streamOf[h]
      BY <1>0 DEF BeginGame, Collapse, TypeOK
    <2>3. failed' # session => failed' = failed
      BY <1>4
    <2>4. \A h \in Games : Subscribed(h)' /\ h # g => Subscribed(h)
      BY <1>1, <2>2, <2>3 DEF Subscribed
    <2> QED BY <1>1, <1>2, <2>1, <2>4 DEF Unraced, TargetIsSource
  <1> QED BY <1>3, <1>5, <1>6 DEF Unraced

\* An unraced step of the main thread: onPause stops the camera before it
\* empties the view, and finds nothing left to stop when it clears.
LEMMA UnracedMain ==
  ASSUME Inv, ~raced, Unraced, ~raced',
         \/ Resume \/ Pause \/ NullSource \/ ClearDisposables \/ RunPosted \/ ReportError
         \/ SurfaceCreated \/ SurfaceDestroyed \/ Layout \/ UNCHANGED vars
  PROVE  Unraced'
  <1>0. TypeOK /\ NotBegun /\ session \in Nat /\ failed \in Nat /\ posted \in Nat
    BY DEF Inv, TypeOK
  <1>u. ReleaseGoesOn /\ TargetIsSource /\ RunningIsHeld
    BY DEF Unraced
  <1>g. ASSUME NEW from, NEW to \in MainSteps, Goes(Main, from, to)
        PROVE  pc[Main] = from /\ pc'[Main] = to /\ \A g \in Games : pc'[g] = pc[g]
    <2>1. \A g \in Games : g # Main
      OBVIOUS
    <2> QED BY <1>0, <1>g, <2>1, ThreadGoes
  <1>n. None \notin Running
    BY DEF Running
  <1>1. CASE Resume
    <2>1. /\ pc[Main] = "free" /\ ~resumed /\ session' = session + 1 /\ posted = 0
          /\ UNCHANGED <<pc, posted, failed, streamOf, source, replaced, camera, target>>
      <3>1. raced' = (raced \/ posted > 0)
        BY <1>1 DEF Resume
      <3>2. ~(posted > 0)
        BY <3>1, Zenon
      <3> QED BY <1>0, <1>1, <3>2 DEF Resume, viewVars
    <2>2. source = None /\ failed <= session
      BY <1>0, <1>u, <2>1 DEF ReleaseGoesOn, NotBegun
    <2>3. ReleaseGoesOn'
      BY <1>u, <2>1, <2>2 DEF ReleaseGoesOn
    <2>4. RunningIsHeld'
      BY <1>u, <2>1 DEF RunningIsHeld, Running
    <2>5. \A g \in Games : streamOf[g] # session + 1
      BY <1>0 DEF NotBegun, TypeOK
    <2>6. TargetIsSource'
      BY <2>1, <2>5 DEF TargetIsSource, Subscribed
    <2> QED BY <2>3, <2>4, <2>6 DEF Unraced
  <1>2. CASE Pause
    <2>1. /\ pc[Main] = "free" /\ resumed /\ Release("nullThenClear", "clear")
          /\ UNCHANGED <<session, resumed, failed, source, replaced, target, posted>>
      BY <1>2 DEF Pause, streamVars, viewVars
    <2>2. pc'[Main] = (IF source # None THEN "nullThenClear" ELSE "clear")
      BY <1>0, <1>g, <2>1, ReleaseGoes DEF MainSteps, Releasing
    <2>3. Running' \subseteq replaced
      <3>1. Running' = Running \ {source}
        BY <1>0, <2>1, ReleaseGoes DEF MainSteps, Releasing
      <3> QED BY <1>u, <2>1, <3>1 DEF RunningIsHeld, Releasing
    <2>4. ReleaseGoesOn'
      BY <1>u, <2>1, <2>2 DEF ReleaseGoesOn
    <2>5. TargetIsSource' /\ RunningIsHeld'
      BY <2>1, <2>2, <2>3 DEF TargetIsSource, RunningIsHeld, Releasing
    <2> QED BY <2>4, <2>5 DEF Unraced
  <1>3. CASE NullSource
    <2>1. source' = None
          /\ UNCHANGED <<session, resumed, failed, streamOf, replaced, camera, target, posted>>
      BY <1>3 DEF NullSource, streamVars
    <2>2. /\ pc[Main] \in {"nullThenClear", "null"}
          /\ pc'[Main] = (IF pc[Main] = "null" THEN "free" ELSE "clear")
      <3>1. CASE Goes(Main, "nullThenClear", "clear")
        BY <1>g, <3>1 DEF MainSteps, Releasing
      <3>2. CASE Goes(Main, "null", "free")
        BY <1>g, <3>2 DEF MainSteps
      <3> QED BY <1>3, <3>1, <3>2 DEF NullSource
    <2>3. ReleaseGoesOn'
      BY <1>u, <2>1, <2>2 DEF ReleaseGoesOn
    <2>4. RunningIsHeld'
      BY <1>u, <2>1, <2>2 DEF RunningIsHeld, Running, Releasing
    <2>5. TargetIsSource'
      <3>1. CASE pc[Main] = "null"
        BY <1>u, <2>1, <2>2, <3>1 DEF TargetIsSource, ReleaseGoesOn, Subscribed
      <3>2. CASE pc[Main] # "null"
        BY <2>2, <3>2 DEF TargetIsSource, Releasing
      <3> QED BY <3>1, <3>2
    <2> QED BY <2>3, <2>4, <2>5 DEF Unraced
  <1>4. CASE ClearDisposables
    <2>1. /\ pc[Main] = "clear" /\ source = None /\ ~resumed'
          /\ UNCHANGED <<session, source, replaced, target, posted>>
      BY <1>4, <1>u DEF ClearDisposables, ReleaseGoesOn, viewVars
    <2>2. Running' \subseteq Running /\ pc'[Main] \in {"clear", "free"}
      <3>1. CASE Release("nullThenClear", "clear")
        BY <1>0, <1>g, <2>1, <3>1, ReleaseGoes DEF MainSteps, Releasing
      <3>2. CASE Goes(Main, "clear", "free") /\ camera' = camera
        BY <1>g, <3>2 DEF MainSteps, Running
      <3> QED BY <1>4, <3>1, <3>2 DEF ClearDisposables
    <2>3. RunningIsHeld'
      BY <1>u, <2>1, <2>2 DEF RunningIsHeld, Releasing
    <2>4. ReleaseGoesOn' /\ TargetIsSource'
      BY <2>1, <2>2 DEF ReleaseGoesOn, TargetIsSource, Subscribed
    <2> QED BY <2>3, <2>4 DEF Unraced
  <1>5. CASE RunPosted
    <2>1. /\ pc[Main] = "free" /\ posted > 0 /\ Release("null", "free")
          /\ UNCHANGED <<session, resumed, failed, streamOf, source, replaced, target>>
      BY <1>5 DEF RunPosted, streamVars, viewVars
    <2>2. pc'[Main] = (IF source # None THEN "null" ELSE "free")
      BY <1>0, <1>g, <2>1, ReleaseGoes DEF MainSteps, Releasing
    <2>3. Running' = Running \ {source}
      BY <1>0, <2>1, ReleaseGoes DEF MainSteps, Releasing
    <2>4. RunningIsHeld'
      BY <1>u, <1>n, <2>1, <2>2, <2>3 DEF RunningIsHeld, Releasing
    <2>5. ~resumed \/ failed = session
      BY <1>u, <2>1 DEF ReleaseGoesOn
    <2>6. ReleaseGoesOn' /\ TargetIsSource'
      BY <1>u, <2>1, <2>2, <2>5 DEF ReleaseGoesOn, TargetIsSource, Subscribed
    <2> QED BY <2>4, <2>6 DEF Unraced
  <1>6. CASE SurfaceCreated \/ SurfaceDestroyed \/ Layout
    <2>1. PICK to \in {"free", "check"} : Goes(Main, "free", to)
      BY <1>6 DEF SurfaceCreated, SurfaceDestroyed, Layout
    <2>2. pc[Main] = "free" /\ pc'[Main] \in {"free", "check"} /\ \A g \in Games : pc'[g] = pc[g]
      BY <1>g, <2>1 DEF MainSteps
    <2>3. UNCHANGED <<session, resumed, failed, streamOf, source, replaced, camera, target, posted>>
      BY <1>6 DEF SurfaceCreated, SurfaceDestroyed, Layout, streamVars, viewVars
    <2>4. ReleaseGoesOn'
      BY <1>u, <2>2, <2>3 DEF ReleaseGoesOn
    <2>5. TargetIsSource' /\ RunningIsHeld'
      BY <1>u, <2>2, <2>3 DEF TargetIsSource, RunningIsHeld, Running, Releasing, Subscribed
    <2> QED BY <2>4, <2>5 DEF Unraced
  <1>7. CASE ReportError \/ UNCHANGED vars
    <2>1. UNCHANGED <<session, resumed, failed, streamOf, source, replaced, camera, target, posted, pc>>
      BY <1>7 DEF ReportError, vars, streamVars, viewVars
    <2>2. ReleaseGoesOn'
      BY <1>u, <2>1 DEF ReleaseGoesOn
    <2>3. TargetIsSource' /\ RunningIsHeld'
      BY <1>u, <2>1 DEF TargetIsSource, RunningIsHeld, Running, Subscribed
    <2> QED BY <2>2, <2>3 DEF Unraced
  <1> QED BY <1>1, <1>2, <1>3, <1>4, <1>5, <1>6, <1>7

\* A race is never forgotten.
LEMMA RacedStays == ASSUME TypeOK, [Next]_vars, raced PROVE raced'
  <1>1. ASSUME NEW t, NEW from, NEW to, Goes(t, from, to) PROVE raced'
    BY <1>1 DEF Goes
  <1>2. ASSUME NEW then \in MainSteps, NEW orElse \in MainSteps, Release(then, orElse) PROVE raced'
    BY <1>1, <1>2, ReleaseGoes
  <1>3. CASE Resume \/ ReportError \/ UNCHANGED vars
    BY <1>3 DEF Resume, ReportError, vars
  <1>4. CASE Pause \/ ClearDisposables \/ RunPosted
    BY <1>1, <1>2, <1>4 DEF Pause, ClearDisposables, RunPosted, MainSteps, Releasing
  <1>5. CASE NullSource \/ SurfaceCreated \/ SurfaceDestroyed \/ Layout
    BY <1>1, <1>5 DEF NullSource, SurfaceCreated, SurfaceDestroyed, Layout
  <1>6. ASSUME NEW t \in Threads, StartIfReady(t) PROVE raced'
    BY <1>1, <1>6, StartGoes
  <1>7. ASSUME NEW g \in Games, OnSubscribe(g) \/ SetSource(g) \/ RequestStart(g) PROVE raced'
    BY <1>1, <1>7, IoGoes
  <1>8. ASSUME NEW g \in Games, BeginGame(g) \/ Collapse(g) PROVE raced'
    BY <1>8 DEF BeginGame, Collapse
  <1> QED BY <1>3, <1>4, <1>5, <1>6, <1>7, <1>8 DEF Next, MainSequel, IoSequel

-----------------------------------------------------------------------------
\* The activity starts with no stream, an empty view and no thread at work.
LEMMA InitInv == Init => Inv
  <1> SUFFICES ASSUME Init PROVE Inv
    OBVIOUS
  <1>0. MaxSessions \in Nat /\ MaxSessions > 0
    BY PreviewAssumption
  <1>1. /\ pc \in [Threads -> MainSteps \cup IoSteps] /\ pc[Main] = "free"
        /\ \A g \in Games : pc[g] = "none"
    <2>1. pc = [t \in Threads |-> IF t = Main THEN "free" ELSE "none"]
      BY DEF Init
    <2>2. "free" \in MainSteps /\ "none" \in IoSteps
      BY DEF MainSteps, IoSteps, Resting
    <2>3. Main \in Threads /\ \A g \in Games : g \in Threads /\ g # Main
      OBVIOUS
    <2>4. pc[Main] = "free" /\ \A g \in Games : pc[g] = "none"
      BY <2>1, <2>3
    <2>5. pc \in [Threads -> MainSteps \cup IoSteps]
      BY <2>1, <2>2
    <2> QED BY <2>4, <2>5
  <1>2. TypeOK
    <2>1. /\ session \in 0..MaxSessions /\ failed \in 0..MaxSessions /\ posted \in Nat
          /\ streamOf \in [Games -> 0..MaxSessions]
          /\ target \in [Threads -> Threads] /\ source \in Threads
      BY <1>0 DEF Init
    <2>2. pc[Main] \in MainSteps /\ \A g \in Games : pc[g] \in IoSteps
      BY <1>1 DEF MainSteps, IoSteps, Resting
    <2>3. replaced \subseteq Games
      BY DEF Init
    <2> QED BY <1>1, <2>1, <2>2, <2>3, ZenonT(30) DEF Init, TypeOK
  <1>3. NotBegun
    BY <1>1 DEF Init, NotBegun
  <1>4. OneAtATime
    BY <1>1 DEF OneAtATime, Resting
  <1>5. ReleaseGoesOn /\ TargetIsSource
    BY <1>1 DEF Init, ReleaseGoesOn, TargetIsSource, Releasing, Subscribed
  <1>6. RunningIsHeld
    <2>1. Running = {}
      BY DEF Init, Running
    <2> QED BY <2>1 DEF RunningIsHeld
  <1> QED BY <1>2, <1>3, <1>4, <1>5, <1>6 DEF Inv, Unraced

\* The inductive invariant holds throughout.
LEMMA Invariant == Spec => []Inv
  <1>1. Inv /\ [Next]_vars => Inv'
    <2> SUFFICES ASSUME Inv, [Next]_vars PROVE Inv'
      OBVIOUS
    <2>1. TypeOK' /\ NotBegun' /\ OneAtATime'
      BY TypeStep DEF Inv
    <2>2. ASSUME ~raced' PROVE Unraced'
      <3>1. ~raced /\ Unraced
        BY <2>2, RacedStays DEF Inv
      <3>2. ASSUME NEW t \in Threads, StartIfReady(t) PROVE Unraced'
        BY <2>2, <3>1, <3>2, UnracedStart
      <3>3. ASSUME NEW g \in Games, OnSubscribe(g) \/ SetSource(g) \/ RequestStart(g)
            PROVE  Unraced'
        BY <2>2, <3>1, <3>3, UnracedIo
      <3>4. ASSUME NEW g \in Games, BeginGame(g) \/ Collapse(g) PROVE Unraced'
        BY <3>1, <3>4, UnracedGame
      <3>5. CASE \/ Resume \/ Pause \/ NullSource \/ ClearDisposables \/ RunPosted \/ ReportError
                 \/ SurfaceCreated \/ SurfaceDestroyed \/ Layout \/ UNCHANGED vars
        BY <2>2, <3>1, <3>5, UnracedMain
      <3> QED BY <3>2, <3>3, <3>4, <3>5 DEF Next, MainSequel, IoSequel
    <2> QED BY <2>1, <2>2 DEF Inv
  <1> QED BY InitInv, <1>1, PTL DEF Spec

\* Every variable keeps to the values the code can give it.
THEOREM TypeCorrect == Spec => []TypeOK
  <1>1. Inv => TypeOK
    BY DEF Inv
  <1> QED BY Invariant, <1>1, PTL

\* CameraSourcePreview: as long as nothing of a stream goes on across a pause, a
\* camera that runs is the one that release() would stop, unless a second game of
\* the stream has put its own in that one's place.
THEOREM ViewHoldsRunningCamera == Spec => []RunningCameraIsTheViews
  <1>1. Inv => RunningCameraIsTheViews
    BY DEF Inv, Unraced, RunningIsHeld, RunningCameraIsTheViews
  <1> QED BY Invariant, <1>1, PTL

\* With the same proviso onPause leaves no camera open behind a paused activity but
\* one that the second game's has taken the place of.
THEOREM PauseClosesCamera == Spec => []PausedClosesCameraUnlessRaced
  <1>1. Inv => PausedClosesCameraUnlessRaced
    <2> SUFFICES ASSUME Inv, ~raced, ~resumed, pc[Main] = "free" PROVE Running \subseteq replaced
      BY DEF PausedClosesCameraUnlessRaced
    <2>1. source = None /\ Running \subseteq {source} \cup replaced
      BY DEF Inv, Unraced, ReleaseGoesOn, RunningIsHeld, Releasing
    <2>2. None \notin Running
      BY DEF Running
    <2> QED BY <2>1, <2>2
  <1> QED BY Invariant, <1>1, PTL

-----------------------------------------------------------------------------
(* The bite detector.                                                      *)

USE DEF MouthStates, MOUTH_CLOSED, MOUTH_OPENED, Levels, Rates, CHECK_LATEST_N_RECORDS

\* Of the sixteen windows only one closes with CLOSED and weighs 4.
LEMMA OneWindowWeighsFour ==
  ASSUME NEW a \in {-1, 1}, NEW b \in {-1, 1}, NEW c \in {-1, 1}, NEW d \in {-1, 1}
  PROVE  (d = -1 /\ d + 2 * c + 3 * b + 4 * a = 4) <=> (a = 1 /\ b = 1 /\ c = -1 /\ d = -1)
  OBVIOUS

\* Matched, for the lengths the proofs use, without its quantifier.
LEMMA MatchedUpToFour ==
  ASSUME NEW rs \in Seq(Record)
  PROVE  LET n == Len(rs) IN
         /\ Matched(rs, 0)
         /\ Matched(rs, 1) <=> n >= 1 /\ rs[n].mouth = 1
         /\ Matched(rs, 2) <=> n >= 2 /\ rs[n-1].mouth = 1 /\ rs[n].mouth = 1
         /\ Matched(rs, 3) <=> n >= 3 /\ rs[n-2].mouth = 1 /\ rs[n-1].mouth = 1
                                      /\ rs[n].mouth = -1
         /\ Matched(rs, 4) <=> n >= 4 /\ rs[n-3].mouth = 1 /\ rs[n-2].mouth = 1
                                      /\ rs[n-1].mouth = -1 /\ rs[n].mouth = -1
  <1> DEFINE n == Len(rs)
  <1>0. n \in Nat
    OBVIOUS
  <1>1. BITE = <<1, 1, -1, -1>>
    BY DEF BITE
  <1>2. Matched(rs, 0)
    BY <1>0 DEF Matched
  <1>3. Matched(rs, 1) <=> n >= 1 /\ rs[n].mouth = 1
    BY <1>0, <1>1 DEF Matched
  <1>4. Matched(rs, 2) <=> n >= 2 /\ rs[n-1].mouth = 1 /\ rs[n].mouth = 1
    <2>1. 1..2 = {1, 2}
      OBVIOUS
    <2> QED BY <1>0, <1>1, <2>1 DEF Matched
  <1>5. Matched(rs, 3) <=> n >= 3 /\ rs[n-2].mouth = 1 /\ rs[n-1].mouth = 1 /\ rs[n].mouth = -1
    <2>1. 1..3 = {1, 2, 3}
      OBVIOUS
    <2> QED BY <1>0, <1>1, <2>1 DEF Matched
  <1>6. Matched(rs, 4) <=> n >= 4 /\ rs[n-3].mouth = 1 /\ rs[n-2].mouth = 1
                                  /\ rs[n-1].mouth = -1 /\ rs[n].mouth = -1
    <2>1. 1..4 = {1, 2, 3, 4}
      OBVIOUS
    <2> QED BY <1>0, <1>1, <2>1 DEF Matched
  <1> QED BY <1>2, <1>3, <1>4, <1>5, <1>6

\* detectBiteFromRecords answers true exactly on the pattern.
LEMMA IsABiteIsThePattern ==
  ASSUME NEW rs \in Seq(Record)
  PROVE  IsABite(rs) <=> Matched(rs, 4)
  <1> DEFINE n == Len(rs)
  <1>1. CASE n < 4
    BY <1>1 DEF IsABite, Matched
  <1>2. CASE n >= 4
    <2>1. \A i \in 0..3 : rs[n - i] \in Record
      BY <1>2
    <2>2. \A i \in 0..3 : rs[n - i].mouth \in {-1, 1}
      BY <2>1 DEF Record
    <2>4. /\ Latest(rs, 1) = rs[n - 0].mouth
          /\ Latest(rs, 2) = rs[n - 1].mouth
          /\ Latest(rs, 3) = rs[n - 2].mouth
          /\ Latest(rs, 4) = rs[n - 3].mouth
      BY <1>2 DEF Latest
    <2> QED BY <1>2, <2>2, <2>4, MatchedUpToFour, OneWindowWeighsFour, SMTT(30) DEF IsABite, WeightedSum
  <1> QED BY <1>1, <1>2

\* What record() does to the list: it ends with the new record, and its other
\* latest entries are those of the old list.
LEMMA RecordedList ==
  ASSUME BiteTypeOK, NEW level \in Levels, NEW rate \in Rates
  PROVE  LET rs == Recorded(level, rate) IN
         /\ rs \in Seq(Record)
         /\ Len(rs) >= 1 /\ Len(rs) <= MaxRecords /\ Len(rs) <= Len(records) + 1
         /\ \A i \in 1..3 : i < Len(rs) =>
              i <= Len(records) /\ rs[Len(rs) - i] = records[Len(records) + 1 - i]
  <1> DEFINE all == Append(records, NewRecord(level, rate))
             rs == Recorded(level, rate)
  <1>1. /\ records \in Seq(Record) /\ Len(records) <= MaxRecords
        /\ MaxRecords \in Nat /\ MaxRecords >= 4
    BY BiteAssumption DEF BiteTypeOK
  <1>2. NewRecord(level, rate) \in Record
    <2>1. CASE records = <<>>
      BY <2>1 DEF NewRecord, Record
    <2>2. CASE records # <<>>
      <3>1. records[Len(records)] \in Record
        BY <1>1, <2>2
      <3>2. MouthState(records[Len(records)], level) \in MouthStates
        BY <3>1 DEF MouthState, Record
      <3> QED BY <2>2, <3>2 DEF NewRecord, Record
    <2> QED BY <2>1, <2>2
  <1>3. all \in Seq(Record) /\ Len(all) = Len(records) + 1
        /\ \A j \in 1..Len(records) : all[j] = records[j]
    BY <1>1, <1>2
  <1>4. CASE Len(all) > MaxRecords
    <2>1. rs = Tail(all)
      BY <1>4 DEF Recorded
    <2>2. rs \in Seq(Record) /\ Len(rs) = Len(records)
          /\ \A j \in 1..Len(rs) : rs[j] = all[j + 1]
      BY <2>1, <1>3, <1>1, <1>4
    <2>3. ASSUME NEW i \in 1..3, i < Len(rs)
          PROVE  rs[Len(rs) - i] = records[Len(records) + 1 - i]
      <3>1. Len(rs) - i \in 1..Len(rs) /\ Len(records) + 1 - i \in 1..Len(records)
        BY <2>2, <2>3, <1>1
      <3>2. rs[Len(rs) - i] = all[Len(rs) - i + 1]
        BY <2>2, <3>1
      <3>3. Len(rs) - i + 1 = Len(records) + 1 - i
        BY <2>2, <1>1
      <3> QED BY <3>1, <3>2, <3>3, <1>3
    <2>4. Len(rs) >= 1 /\ Len(rs) <= MaxRecords /\ Len(rs) <= Len(records) + 1
      BY <2>2, <1>1, <1>3, <1>4
    <2>5. \A i \in 1..3 : i < Len(rs) => i <= Len(records)
      BY <2>2, <1>1
    <2> HIDE DEF rs, all
    <2> QED BY <2>2, <2>3, <2>4, <2>5 DEF rs
  <1>5. CASE ~(Len(all) > MaxRecords)
    <2>1. rs = all
      BY <1>5 DEF Recorded
    <2>2. Len(rs) >= 1 /\ Len(rs) <= MaxRecords /\ Len(rs) <= Len(records) + 1
      BY <2>1, <1>1, <1>3, <1>5
    <2>3. ASSUME NEW i \in 1..3, i < Len(rs)
          PROVE  i <= Len(records) /\ rs[Len(rs) - i] = records[Len(records) + 1 - i]
      <3>1. Len(rs) - i = Len(records) + 1 - i /\ Len(records) + 1 - i \in 1..Len(records)
        BY <2>1, <2>3, <1>1, <1>3
      <3> QED BY <2>1, <3>1, <1>1, <1>3
    <2>4. rs \in Seq(Record)
      BY <2>1, <1>3
    <2> HIDE DEF rs, all
    <2> QED BY <2>2, <2>3, <2>4 DEF rs
  <1> QED BY <1>4, <1>5

-----------------------------------------------------------------------------
\* The records are a list of well-formed records, never longer than MAX_RECORDS.
THEOREM BiteTypeCorrect == BiteSpec => []BiteTypeOK
  <1>1. BiteInit => BiteTypeOK
    BY BiteAssumption DEF BiteInit, BiteTypeOK
  <1>2. BiteTypeOK /\ [BiteNext]_biteVars => BiteTypeOK'
    <2> SUFFICES ASSUME BiteTypeOK, [BiteNext]_biteVars PROVE BiteTypeOK'
      OBVIOUS
    <2>1. ASSUME NEW level \in Levels, NEW rate \in Rates, DetectNewFrame(level, rate)
          PROVE  BiteTypeOK'
      <3>1. /\ records' \in Seq(Record) /\ Len(records') <= MaxRecords
            /\ Len(records') <= Len(records) + 1
        BY <2>1, RecordedList DEF DetectNewFrame
      <3>2. biteCount' \in Nat /\ recorded' = recorded + 1 /\ streaming' = streaming
            /\ recounts' = recounts
        BY <2>1 DEF DetectNewFrame, BiteTypeOK
      <3>3. recorded' \in Nat /\ recorded' >= Len(records')
        BY <3>1, <3>2 DEF BiteTypeOK
      <3> QED BY <3>1, <3>2, <3>3 DEF BiteTypeOK
    <2>2. CASE DetectSameTime
      BY <2>2 DEF DetectSameTime, BiteTypeOK
    <2>3. CASE InvalidFace
      BY <2>3 DEF InvalidFace, BiteTypeOK
    <2>4. CASE UNCHANGED biteVars
      BY <2>4 DEF biteVars, BiteTypeOK
    <2> QED BY <2>1, <2>2, <2>3, <2>4 DEF BiteNext
  <1> QED BY <1>1, <1>2, PTL DEF BiteSpec

\* A bite is counted when a new record completes the pattern, and only then or
\* when a frame of the same millisecond looks at the same records again.
THEOREM PatternIsCounted == BiteSpec => CountsExactlyThePattern
  <1>1. BiteTypeOK /\ BiteTypeOK' /\ [BiteNext]_biteVars =>
          [/\ recorded' > recorded => (biteCount' > biteCount <=> Matched(records', 4))
           /\ biteCount' > biteCount => Matched(records', 4)]_biteVars
    <2> SUFFICES ASSUME BiteTypeOK, BiteTypeOK', BiteNext
                 PROVE  /\ recorded' > recorded =>
                             (biteCount' > biteCount <=> Matched(records', 4))
                        /\ biteCount' > biteCount => Matched(records', 4)
      OBVIOUS
    <2>0. IsABite(records') <=> Matched(records', 4)
      BY IsABiteIsThePattern DEF BiteTypeOK
    <2>1. ASSUME NEW level \in Levels, NEW rate \in Rates, DetectNewFrame(level, rate)
          PROVE  biteCount' > biteCount <=> Matched(records', 4)
      BY <2>0, <2>1 DEF DetectNewFrame, BiteTypeOK
    <2>2. CASE DetectSameTime
      BY <2>0, <2>2 DEF DetectSameTime, BiteTypeOK, IsABite, WeightedSum, Latest
    <2>3. CASE InvalidFace
      BY <2>3 DEF InvalidFace, BiteTypeOK
    <2> QED BY <2>1, <2>2, <2>3 DEF BiteNext
  <1> QED BY <1>1, BiteTypeCorrect, PTL DEF BiteSpec, CountsExactlyThePattern

\* Two bites never share a record.
THEOREM DisjointBites == BiteSpec => []BitesAreDisjoint
  <1> DEFINE Bites == biteCount - recounts
  <1>1. BiteInit => PartialBites
    <2> SUFFICES ASSUME BiteInit PROVE PartialBites
      OBVIOUS
    <2>1. \A k \in 1..3 : ~Matched(records, k)
      BY DEF BiteInit, Matched
    <2> QED BY <2>1 DEF BiteInit, PartialBites
  <1>2. BiteTypeOK /\ BiteTypeOK' /\ PartialBites /\ [BiteNext]_biteVars => PartialBites'
    <2> SUFFICES ASSUME BiteTypeOK, BiteTypeOK', PartialBites, [BiteNext]_biteVars PROVE PartialBites'
      OBVIOUS
    <2>1. ASSUME NEW level \in Levels, NEW rate \in Rates, DetectNewFrame(level, rate)
          PROVE  PartialBites'
      <3> DEFINE n == Len(records)
                 m == Len(records')
      <3>1. records \in Seq(Record) /\ records' \in Seq(Record) /\ n \in Nat /\ m \in Nat
        BY DEF BiteTypeOK
      <3>2. \A i \in 1..3 : i < m => i <= n /\ records'[m - i] = records[n + 1 - i]
        BY <2>1, RecordedList DEF DetectNewFrame
      <3>3. /\ Matched(records', 2) => Matched(records, 1)
            /\ Matched(records', 3) => Matched(records, 2)
            /\ Matched(records', 4) => Matched(records, 3)
        <4>1. /\ m >= 2 => 1 <= n /\ records'[m-1] = records[n]
              /\ m >= 3 => 2 <= n /\ records'[m-2] = records[n-1]
              /\ m >= 4 => 3 <= n /\ records'[m-3] = records[n-2]
          BY <3>1, <3>2
        <4>2. /\ n >= 1 /\ records[n].mouth = 1 => Matched(records, 1)
              /\ n >= 2 /\ records[n-1].mouth = 1 /\ records[n].mouth = 1 => Matched(records, 2)
              /\ n >= 3 /\ records[n-2].mouth = 1 /\ records[n-1].mouth = 1
                 /\ records[n].mouth = -1 => Matched(records, 3)
          BY <3>1, MatchedUpToFour
        <4>3. /\ Matched(records', 2) => m >= 2 /\ records'[m-1].mouth = 1
              /\ Matched(records', 3) => m >= 3 /\ records'[m-2].mouth = 1
                                                /\ records'[m-1].mouth = 1
              /\ Matched(records', 4) => m >= 4 /\ records'[m-3].mouth = 1
                                         /\ records'[m-2].mouth = 1 /\ records'[m-1].mouth = -1
          BY <3>1, MatchedUpToFour
        <4> HIDE DEF n, m
        <4>4. Matched(records', 2) => Matched(records, 1)
          BY <3>1, <4>1, <4>2, <4>3
        <4>5. Matched(records', 3) => Matched(records, 2)
          BY <3>1, <4>1, <4>2, <4>3
        <4>6. Matched(records', 4) => Matched(records, 3)
          BY <3>1, <4>1, <4>2, <4>3, SMTT(30)
        <4> QED BY <4>4, <4>5, <4>6
      <3>4. /\ Matched(records', 4) => ~Matched(records', 1)
            /\ Matched(records', 4) => ~Matched(records', 2)
            /\ Matched(records', 4) => ~Matched(records', 3)
        BY <3>1, MatchedUpToFour
      <3>5. /\ Matched(records, 0) => 4 * Bites <= recorded
            /\ Matched(records, 1) => 4 * Bites + 1 <= recorded
            /\ Matched(records, 2) => 4 * Bites + 2 <= recorded
            /\ Matched(records, 3) => 4 * Bites + 3 <= recorded
        BY DEF PartialBites, BiteTypeOK
      <3>6. Matched(records, 0)
        BY <3>1, MatchedUpToFour
      <3>7. IsABite(records') <=> Matched(records', 4)
        BY <3>1, IsABiteIsThePattern
      <3>8. /\ recorded' = recorded + 1 /\ recounts' = recounts
            /\ biteCount' = biteCount + (IF Matched(records', 4) THEN 1 ELSE 0)
            /\ recorded \in Nat /\ biteCount \in Nat /\ recounts \in Nat /\ biteCount >= recounts
        BY <2>1, <3>7 DEF DetectNewFrame, BiteTypeOK, PartialBites
      <3>9. ASSUME NEW k \in 0..3, Matched(records', k)
            PROVE  4 * Bites' + k <= recorded'
        <4>1. k = 0 \/ k = 1 \/ k = 2 \/ k = 3
          OBVIOUS
        <4> QED BY <3>3, <3>4, <3>5, <3>6, <3>8, <3>9, <4>1
      <3> QED BY <3>8, <3>9 DEF PartialBites
    <2>2. CASE DetectSameTime
      BY <2>2 DEF DetectSameTime, BiteTypeOK, PartialBites, Matched
    <2>3. CASE InvalidFace
      BY <2>3 DEF InvalidFace, PartialBites, Matched
    <2>4. CASE UNCHANGED biteVars
      BY <2>4 DEF biteVars, PartialBites, Matched
    <2> QED BY <2>1, <2>2, <2>3, <2>4 DEF BiteNext
  <1>3. BiteTypeOK /\ PartialBites => BitesAreDisjoint
    BY MatchedUpToFour DEF BiteTypeOK, PartialBites, BitesAreDisjoint
  <1> QED BY <1>1, <1>2, <1>3, BiteTypeCorrect, PTL DEF BiteSpec
=============================================================================
