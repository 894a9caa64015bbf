--------------------------- MODULE GameStartProofs ---------------------------
(***************************************************************************)
(* For any number of streams, of files per stream and of waiting models:   *)
(* a game has its detectors, a file leads to a game or to a failure, a     *)
(* loaded detector stays, and the dialog neither comes back over a paused  *)
(* activity nor stays over a stream that has come to a good end.           *)
(***************************************************************************)
EXTENDS GameStart, FiniteSetTheorems, TLAPS

-----------------------------------------------------------------------------
(* The inductive invariant.                                                *)

\* A file that has not arrived is not loaded, and a stream has started no more
\* games than it has loads that are done.
Done(s) == {i \in FileIds : load[s][i] = "done"}

LoadsOfFiles ==
  \A s \in Sessions :
    /\ \A i \in FileIds : i > files[s] => load[s][i] = "none"
    /\ games[s] <= Cardinality(Done(s))

\* A stream that has not begun has done nothing, and only a begun one is subscribed.
NothingYet(s) == download[s] = "none" /\ files[s] = 0 /\ games[s] = 0 /\ ~failed[s]
NotBegun ==
  /\ \A s \in Sessions : s > session => NothingYet(s)
  /\ resumed => session \in Sessions

\* While the user is asked, nothing is granted and the stream has not got past
\* the permission.
AskedFirst ==
  asking => ~granted /\ (resumed => download[session] = "none" /\ files[session] = 0)

\* A paused activity has no model left that could show the dialog.
PausedIsQuiet == ~resumed => queue = <<>> /\ ~dialog

\* The dialog is what the scan's model says, once the models before it are shown.
DialogFollows ==
  resumed /\ model \in Messages =>
    IF queue = <<>> THEN dialog = (model = "in") ELSE queue[Len(queue)] = model

LoadsOver(s) == \A i \in FileIds : load[s][i] \in {"none", "done"}

\* A stream whose loads are over without a failure ends with the message "ok".
GoodEndIsOk ==
  ~crashed /\ resumed /\ ~failed[session] /\ files[session] > 0 /\ LoadsOver(session)
    => model = "ok"

\* How far the detectors are for a load that has come this far.
LoadHasDetectors ==
  \A s \in Sessions, i \in FileIds :
    /\ load[s][i] \in {"landmarks", "open", "reading", "emit"} => faceReady
    /\ load[s][i] \in {"reading", "emit"} => landmarks # "empty"
    /\ load[s][i] = "reading" => content # "garbage"

\* Unless two loads have overlapped, the landmarks detector is empty until the
\* one load in the loader reads it, and partial only while it does.
LoaderAlone ==
  ~overlapped =>
    /\ \A s, t \in Sessions, i, j \in FileIds :
         InLoader(s, i) /\ InLoader(t, j) => s = t /\ i = j
    /\ \A s \in Sessions, i \in FileIds :
         /\ load[s][i] = "open" => landmarks = "empty"
         /\ load[s][i] = "reading" => landmarks = "partial"
    /\ landmarks = "partial" =>
         \E s \in Sessions, i \in FileIds : load[s][i] = "reading"

Inv ==
  /\ TypeOK /\ LoadsOfFiles /\ NotBegun /\ AskedFirst /\ PausedIsQuiet /\ DialogFollows
  /\ GoodEndIsOk /\ LoadHasDetectors /\ GameNeedsDetectors /\ LoaderAlone /\ FileLeadsToGame

USE DEF Sessions, FileIds

-----------------------------------------------------------------------------
(* Lemmas about one step of a load and about what the scan posts.          *)

\* A load that moves changes its own entry and no other.
LEMMA LoadEntry ==
  ASSUME TypeOK, NEW s \in Sessions, NEW i \in FileIds, NEW to \in LoadSteps,
         load' = [load EXCEPT ![s][i] = to]
  PROVE  /\ load' \in [Sessions -> [FileIds -> LoadSteps]]
         /\ \A t \in Sessions, j \in FileIds :
              load'[t][j] = IF t = s /\ j = i THEN to ELSE load[t][j]
  BY DEF TypeOK

\* A pause ends the loads of the stream that have not begun, and touches no other.
LEMMA PauseEndsScheduled ==
  ASSUME TypeOK, Pause, NEW s \in Sessions, NEW i \in FileIds
  PROVE  load'[s][i] = load[s][i] \/ (load[s][i] = "scheduled" /\ load'[s][i] = "done")
  <1>1. load \in [Sessions -> [FileIds -> LoadSteps]] /\ s \in DOMAIN load
    BY DEF TypeOK
  <1>2. load' = [load EXCEPT ![session] = [j \in FileIds |->
                  IF @[j] = "scheduled" THEN "done" ELSE @[j]]]
    BY DEF Pause
  <1> DEFINE paused == [j \in FileIds |->
                          IF load[session][j] = "scheduled" THEN "done" ELSE load[session][j]]
  <1>3. CASE s = session
    <2>1. load' = [load EXCEPT ![session] = paused]
      BY <1>2
    <2>2. load'[s] = paused
      <3> HIDE DEF paused
      <3> QED BY <1>1, <1>3, <2>1
    <2> QED BY <1>3, <2>2
  <1>4. CASE s # session
    BY <1>1, <1>2, <1>4
  <1> QED BY <1>3, <1>4

\* What the io worker may do with one load: it goes one step on, by itself.
LEMMA WorkerMovesOneLoad ==
  ASSUME TypeOK, NEW s \in Sessions, NEW i \in FileIds, LoadDetector(s, i)
  PROVE  \E to \in LoadSteps :
           /\ load' = [load EXCEPT ![s][i] = to]
           /\ load[s][i] \notin {"none", "done"} /\ to \notin {"none", "scheduled"}
           /\ to = "done" => \/ load[s][i] \in {"scheduled", "reading"}
                             \/ load[s][i] = "open" /\ crashed'
                             \/ load[s][i] = "emit"
  <1> USE DEF LoadSteps, LoadMoves, LoadFails
  <1>1. CASE PrepareFaceDetector(s, i)
    BY <1>1 DEF PrepareFaceDetector
  <1>2. CASE CheckLandmarks(s, i)
    BY <1>2 DEF CheckLandmarks
  <1>3. CASE OpenModel(s, i)
    BY <1>3 DEF OpenModel
  <1>4. CASE ReadModel(s, i)
    BY <1>4 DEF ReadModel
  <1>5. CASE EmitLoaded(s, i)
    BY <1>5 DEF EmitLoaded
  <1> QED BY <1>1, <1>2, <1>3, <1>4, <1>5 DEF LoadDetector

\* The loads of a stream that are done can be counted, and one that is not done
\* leaves room for itself.
LEMMA DoneCount ==
  ASSUME TypeOK, NEW s \in Sessions
  PROVE  /\ IsFiniteSet(Done(s)) /\ Cardinality(Done(s)) \in 0..MaxFiles
         /\ \A i \in FileIds : load[s][i] # "done" =>
              /\ Cardinality(Done(s) \cup {i}) = Cardinality(Done(s)) + 1
              /\ Cardinality(Done(s)) < MaxFiles
  <1>1. IsFiniteSet(FileIds) /\ Cardinality(FileIds) = MaxFiles /\ MaxFiles \in Nat
    BY GameAssumption, FS_Interval
  <1>2. Done(s) \subseteq FileIds
    BY DEF Done
  <1>3. IsFiniteSet(Done(s)) /\ Cardinality(Done(s)) \in Nat /\ Cardinality(Done(s)) <= MaxFiles
    BY <1>1, <1>2, FS_Subset, FS_CardinalityType
  <1>4. ASSUME NEW i \in FileIds, load[s][i] # "done"
        PROVE  /\ Cardinality(Done(s) \cup {i}) = Cardinality(Done(s)) + 1
               /\ Cardinality(Done(s)) < MaxFiles
    <2>1. i \notin Done(s) /\ Done(s) \cup {i} \subseteq FileIds
      BY <1>2, <1>4 DEF Done
    <2>2. Cardinality(Done(s) \cup {i}) = Cardinality(Done(s)) + 1
      BY <1>3, <2>1, FS_AddElement
    <2>3. Cardinality(Done(s) \cup {i}) <= MaxFiles
      BY <1>1, <2>1, FS_Subset
    <2> QED BY <1>1, <1>3, <2>2, <2>3
  <1> QED BY <1>1, <1>3, <1>4

\* A model that is posted is the last of the queue; a model without a message
\* leaves the queue as it was.
LEMMA ScanPosts ==
  ASSUME TypeOK, NEW result \in Models, Scan(result)
  PROVE  /\ model' = result /\ queue' \in Seq(Messages)
         /\ result \in Messages => queue' # <<>> /\ queue'[Len(queue')] = result
  BY SMTT(30) DEF TypeOK, Scan, Messages, Models

\* What leaves the stream alone keeps its types,
LEMMA StreamTypes ==
  ASSUME TypeOK, UNCHANGED streamVars
  PROVE  /\ session' \in 0..MaxSessions /\ resumed' \in BOOLEAN /\ granted' \in BOOLEAN
         /\ asking' \in BOOLEAN /\ download' \in [Sessions -> {"none", "running", "ended"}]
         /\ files' \in [Sessions -> 0..MaxFiles]
  BY Zenon DEF TypeOK, streamVars

\* and so does what leaves the file alone,
LEMMA FileTypes ==
  ASSUME TypeOK, UNCHANGED fileVars
  PROVE  content' \in {"model68", "otherModel", "garbage"} /\ present' \in BOOLEAN
  BY Zenon DEF TypeOK, fileVars

\* and what leaves the screen and the games alone.
LEMMA QuietTypes ==
  ASSUME TypeOK, UNCHANGED quiet
  PROVE  /\ model' \in Models /\ queue' \in Seq(Messages) /\ dialog' \in BOOLEAN
         /\ games' \in [Sessions -> 0..MaxFiles] /\ failed' \in [Sessions -> BOOLEAN]
         /\ crashed' \in BOOLEAN
  BY Zenon DEF TypeOK, quiet, uiVars

-----------------------------------------------------------------------------
(* Each part of the invariant, at every step.                              *)

\* Every step keeps the types; a stream starts at most one game per file.
LEMMA TypeStep == ASSUME Inv, [Next]_vars PROVE TypeOK'
  <1>0. TypeOK /\ NotBegun
    BY DEF Inv
  <1>s. session \in Nat /\ MaxSessions \in Nat /\ queue \in Seq(Messages)
    BY <1>0, GameAssumption DEF TypeOK
  <1>m. <<"in">> \in Seq(Messages) /\ queue \o <<"ok", "in">> \in Seq(Messages)
    BY <1>s DEF Messages
  <1> USE DEF Models
  <1>1. CASE Resume
    <2>1. session' \in 0..MaxSessions
      BY <1>s, <1>1 DEF Resume
    <2>2. model' \in Models /\ queue' \in Seq(Messages)
          /\ download' \in [Sessions -> {"none", "running", "ended"}]
      BY <1>0, <1>m, <1>1 DEF Resume, BeginDownload, TypeOK
    <2>3. asking' \in BOOLEAN
      BY <1>0, <1>1 DEF Resume, BeginDownload, TypeOK
    <2> QED BY <1>0, <1>1, <2>1, <2>2, <2>3 DEF Resume, TypeOK, fileVars, nativeVars
  <1>2. CASE AnswerPermission
    <2>1. model' \in Models /\ queue' \in Seq(Messages)
          /\ download' \in [Sessions -> {"none", "running", "ended"}]
      BY <1>0, <1>m, <1>2 DEF AnswerPermission, BeginDownload, TypeOK
    <2> QED BY <1>0, <1>2, <2>1 DEF AnswerPermission, TypeOK, fileVars, nativeVars
  <1>3. CASE Pause
    <2>1. load' \in [Sessions -> [FileIds -> LoadSteps]]
      BY <1>0, <1>3 DEF Pause, TypeOK, LoadSteps
    <2>2. download' \in [Sessions -> {"none", "running", "ended"}]
      BY <1>0, <1>3 DEF Pause, TypeOK
    <2>3. queue' \in Seq(Messages)
      BY <1>3 DEF Pause
    <2> QED BY <1>0, <1>3, <2>1, <2>2, <2>3 DEF Pause, TypeOK, fileVars, nativeVars
  <1>4. CASE Deliver
    <2>1. queue' \in Seq(Messages)
      BY <1>s, <1>4 DEF Deliver
    <2>2. dialog' \in BOOLEAN
      BY <1>4 DEF Deliver
    <2> QED BY <1>0, <1>4, <2>1, <2>2 DEF Deliver, TypeOK, streamVars, fileVars, nativeVars
  <1>5. CASE Tick
    <2>1. model' \in Models /\ queue' \in Seq(Messages)
      BY <1>0, <1>5, ScanPosts DEF Tick, TypeOK
    <2> QED BY <1>0, <1>5, <2>1 DEF Tick, TypeOK, streamVars, fileVars, nativeVars
  <1>6. ASSUME NEW s \in Sessions, FileArrives(s) PROVE TypeOK'
    <2>1. files[s] \in 0..MaxFiles /\ MaxFiles \in Nat /\ files[s] < MaxFiles
      BY <1>0, <1>6, GameAssumption DEF FileArrives, TypeOK
    <2>2. files[s] + 1 \in FileIds /\ files' \in [Sessions -> 0..MaxFiles]
      BY <1>0, <1>6, <2>1 DEF FileArrives, TypeOK
    <2>3. load' \in [Sessions -> [FileIds -> LoadSteps]]
      BY <1>0, <1>6, <2>2, LoadEntry DEF FileArrives, LoadSteps
    <2>4. queue' \in Seq(Messages) /\ model' \in Models
      BY <1>6, <1>m DEF FileArrives
    <2> QED BY <1>0, <1>6, <2>2, <2>3, <2>4 DEF FileArrives, TypeOK, fileVars, nativeVars
  <1>7. ASSUME NEW s \in Sessions, DownloadEnds(s) PROVE TypeOK'
    <2>1. model' \in Models /\ queue' \in Seq(Messages)
      BY <1>0, <1>7, ScanPosts DEF DownloadEnds, TypeOK
    <2>2. download' \in [Sessions -> {"none", "running", "ended"}]
      BY <1>0, <1>7 DEF DownloadEnds, TypeOK
    <2>3. failed' \in [Sessions -> BOOLEAN]
      BY <1>0, <1>7 DEF DownloadEnds, TypeOK
    <2> QED BY <1>0, <1>7, <2>1, <2>2, <2>3 DEF DownloadEnds, TypeOK, fileVars, nativeVars
  <1>8. CASE FileDeleted
    <2>1. UNCHANGED streamVars /\ UNCHANGED quiet
      BY <1>8, Zenon DEF FileDeleted, quiet
    <2>2. content' = content /\ present' = FALSE /\ load' = load /\ UNCHANGED nativeVars
      BY <1>8 DEF FileDeleted
    <2>3. content' \in {"model68", "otherModel", "garbage"} /\ present' \in BOOLEAN
          /\ load' \in [Sessions -> [FileIds -> LoadSteps]]
      BY <1>0, <2>2, Zenon DEF TypeOK
    <2>4. /\ faceReady' \in BOOLEAN /\ overlapped' \in BOOLEAN
          /\ landmarks' \in {"empty", "partial", "model68", "otherModel"}
      BY <1>0, <2>2, Zenon DEF TypeOK, nativeVars
    <2> QED BY <1>0, <2>1, <2>3, <2>4, StreamTypes, QuietTypes, Zenon DEF TypeOK
  <1>9. ASSUME NEW s \in Sessions, NEW i \in FileIds, LoadDetector(s, i) PROVE TypeOK'
    <2>1. load' \in [Sessions -> [FileIds -> LoadSteps]]
      BY <1>0, <1>9, WorkerMovesOneLoad, LoadEntry
    <2>2. \A from, to : LoadMoves(s, i, from, to) => UNCHANGED <<streamVars, fileVars>>
      BY DEF LoadMoves
    <2>3. \A from : LoadFails(s, i, from) =>
            /\ UNCHANGED <<streamVars, fileVars, dialog, games>>
            /\ model' \in Models /\ queue' \in Seq(Messages)
            /\ failed' \in [Sessions -> BOOLEAN] /\ crashed' \in BOOLEAN
      <3> SUFFICES ASSUME NEW from, LoadFails(s, i, from)
                   PROVE  /\ UNCHANGED <<streamVars, fileVars, dialog, games>>
                          /\ model' \in Models /\ queue' \in Seq(Messages)
                          /\ failed' \in [Sessions -> BOOLEAN] /\ crashed' \in BOOLEAN
        OBVIOUS
      <3>1. UNCHANGED <<streamVars, fileVars, dialog, games>>
        BY <2>2 DEF LoadFails
      <3>2. model' \in Models /\ queue' \in Seq(Messages)
        BY <1>0, ScanPosts DEF LoadFails, TypeOK
      <3>3. failed' \in [Sessions -> BOOLEAN]
        BY <1>0 DEF LoadFails, TypeOK
      <3>4. crashed' \in BOOLEAN
        BY <1>0 DEF LoadFails, TypeOK
      <3> QED BY <3>1, <3>2, <3>3, <3>4
    <2>4. CASE PrepareFaceDetector(s, i)
      <3>1. CASE UNCHANGED <<landmarks, overlapped, quiet>>
                 /\ LoadMoves(s, i, "scheduled", "landmarks") /\ faceReady' = TRUE
        <4>1. UNCHANGED <<streamVars, fileVars>> /\ faceReady' \in BOOLEAN
          BY <2>2, <3>1
        <4>2. overlapped' \in BOOLEAN /\ landmarks' \in {"empty", "partial", "model68", "otherModel"}
          BY <1>0, <3>1, Zenon DEF TypeOK
        <4> QED BY <1>0, <2>1, <3>1, <4>1, <4>2, StreamTypes, FileTypes, QuietTypes, Zenon DEF TypeOK
      <3>2. CASE LoadFails(s, i, "scheduled") /\ UNCHANGED nativeVars
        BY <1>0, <2>1, <2>3, <3>2, ZenonT(30) DEF TypeOK, streamVars, fileVars, nativeVars
      <3> QED BY <2>4, <3>1, <3>2 DEF PrepareFaceDetector
    <2>5. CASE CheckLandmarks(s, i)
      <3>1. UNCHANGED <<streamVars, fileVars>> /\ overlapped' \in BOOLEAN
        BY <1>0, <2>5 DEF CheckLandmarks, LoadMoves, TypeOK
      <3>2. faceReady' = faceReady /\ landmarks' = landmarks /\ UNCHANGED quiet
        BY <2>5, Zenon DEF CheckLandmarks
      <3>3. faceReady' \in BOOLEAN /\ landmarks' \in {"empty", "partial", "model68", "otherModel"}
        BY <1>0, <3>2, Zenon DEF TypeOK
      <3> QED BY <1>0, <2>1, <3>1, <3>2, <3>3, StreamTypes, FileTypes, QuietTypes, Zenon DEF TypeOK
    <2>6. CASE OpenModel(s, i)
      <3>1. UNCHANGED <<streamVars, fileVars>>
        BY <2>2, <2>6 DEF OpenModel
      <3>2. landmarks' \in {"empty", "partial", "model68", "otherModel"}
        BY <1>0, <2>6 DEF OpenModel, TypeOK
      <3>3. crashed' \in BOOLEAN
        BY <1>0, <2>6 DEF OpenModel, TypeOK
      <3> QED BY <1>0, <2>1, <2>6, <3>1, <3>2, <3>3, ZenonT(30)
              DEF OpenModel, TypeOK, streamVars, fileVars, uiVars
    <2>7. CASE ReadModel(s, i)
      <3>1. landmarks' \in {"empty", "partial", "model68", "otherModel"}
        BY <1>0, <2>7 DEF ReadModel, LoadMoves, LoadFails, TypeOK, Inv, LoadHasDetectors
      <3>2. CASE landmarks' = "model68"
        <4>1. UNCHANGED <<streamVars, fileVars>> /\ UNCHANGED quiet
          BY <2>2, <2>7, <3>2, Zenon DEF ReadModel
        <4>2. faceReady' = faceReady /\ overlapped' = overlapped
          BY <2>7 DEF ReadModel
        <4>3. faceReady' \in BOOLEAN /\ overlapped' \in BOOLEAN
          BY <1>0, <4>2, Zenon DEF TypeOK
        <4> QED BY <1>0, <2>1, <3>1, <4>1, <4>3, StreamTypes, FileTypes, QuietTypes, Zenon DEF TypeOK
      <3>3. CASE landmarks' # "model68"
        BY <1>0, <2>1, <2>3, <2>7, <3>1, <3>3, ZenonT(30)
        DEF ReadModel, TypeOK, streamVars, fileVars
      <3> QED BY <3>2, <3>3
    <2>8. CASE EmitLoaded(s, i)
      <3>1. UNCHANGED <<streamVars, fileVars>> /\ load[s][i] = "emit"
        BY <2>8 DEF EmitLoaded, LoadMoves
      <3>2. model' \in Models /\ queue' \in Seq(Messages)
        BY <1>0, <2>8, ScanPosts DEF EmitLoaded, TypeOK
      <3>3. games[s] \in 0..MaxFiles /\ games[s] + 1 \in 0..MaxFiles
        <4>1. Cardinality(Done(s)) \in 0..MaxFiles /\ Cardinality(Done(s)) < MaxFiles
          BY <1>0, <3>1, DoneCount
        <4>2. games[s] \in 0..MaxFiles /\ games[s] <= Cardinality(Done(s))
          BY <1>0 DEF Inv, LoadsOfFiles, TypeOK
        <4> QED BY <4>1, <4>2, GameAssumption
      <3>4. games' \in [Sessions -> 0..MaxFiles]
        BY <1>0, <2>8, <3>3 DEF EmitLoaded, TypeOK
      <3> QED BY <1>0, <2>1, <2>8, <3>1, <3>2, <3>4, ZenonT(30)
              DEF EmitLoaded, TypeOK, streamVars, fileVars, nativeVars
    <2> QED BY <1>9, <2>4, <2>5, <2>6, <2>7, <2>8 DEF LoadDetector
  <1>10. CASE UNCHANGED vars
    BY <1>0, <1>10 DEF vars, TypeOK, streamVars, fileVars, nativeVars, uiVars
  <1> QED BY <1>1, <1>2, <1>3, <1>4, <1>5, <1>6, <1>7, <1>8, <1>9, <1>10 DEF Next

\* Only files that arrived are loaded, and each load that is done gave at most one game.
LEMMA LoadsOfFilesStep == ASSUME Inv, TypeOK', [Next]_vars PROVE LoadsOfFiles'
  <1>0. TypeOK /\ LoadsOfFiles
    BY DEF Inv
  <1>c. ASSUME NEW s \in Sessions, \A i \in FileIds : load[s][i] = "done" => load'[s][i] = "done"
        PROVE  /\ Cardinality(Done(s)) \in Nat /\ Cardinality(Done(s)') \in Nat
               /\ Cardinality(Done(s)) <= Cardinality(Done(s)')
    <2>1. IsFiniteSet(Done(s)) /\ Cardinality(Done(s)) \in 0..MaxFiles
      BY <1>0, DoneCount
    <2>2. IsFiniteSet(Done(s)') /\ Cardinality(Done(s)') \in Nat
      <3>1. IsFiniteSet(FileIds) /\ Done(s)' \subseteq FileIds
        BY FS_Interval, GameAssumption DEF Done
      <3> QED BY <3>1, FS_Subset, FS_CardinalityType
    <2>3. Done(s) \subseteq Done(s)'
      BY <1>c DEF Done
    <2> QED BY <2>1, <2>2, <2>3, FS_Subset, GameAssumption
  <1>g. ASSUME NEW s \in Sessions PROVE games[s] \in Nat /\ games[s] <= Cardinality(Done(s))
    BY <1>0, GameAssumption DEF LoadsOfFiles, TypeOK
  <1>k. ASSUME NEW s \in Sessions, games'[s] = games[s],
               \A i \in FileIds : load[s][i] = "done" => load'[s][i] = "done"
        PROVE  games'[s] <= Cardinality(Done(s)')
    <2>1. /\ Cardinality(Done(s)) \in Nat /\ Cardinality(Done(s)') \in Nat
          /\ Cardinality(Done(s)) <= Cardinality(Done(s)')
      BY <1>c, <1>k
    <2> QED BY <1>g, <1>k, <2>1
  <1>1. CASE \/ Resume \/ AnswerPermission \/ Deliver \/ Tick \/ FileDeleted \/ UNCHANGED vars
             \/ \E s \in Sessions : DownloadEnds(s)
    <2>1. load' = load /\ files' = files /\ games' = games
      BY <1>1 DEF Resume, AnswerPermission, Deliver, Tick, FileDeleted, DownloadEnds,
                  vars, streamVars
    <2> QED BY <1>0, <2>1 DEF LoadsOfFiles, Done
  <1>2. CASE Pause
    <2>1. files' = files /\ games' = games
      BY <1>2 DEF Pause
    <2>2. \A s \in Sessions, i \in FileIds :
            load'[s][i] = load[s][i] \/ (load[s][i] = "scheduled" /\ load'[s][i] = "done")
      BY <1>0, <1>2, PauseEndsScheduled
    <2>4. \A s \in Sessions : games'[s] <= Cardinality(Done(s)')
      BY <1>k, <2>1, <2>2
    <2>5. \A s \in Sessions, i \in FileIds : i > files'[s] => load'[s][i] = "none"
      BY <1>0, <2>1, <2>2 DEF LoadsOfFiles
    <2> QED BY <2>4, <2>5 DEF LoadsOfFiles
  <1>3. ASSUME NEW s \in Sessions, FileArrives(s) PROVE LoadsOfFiles'
    <2>1. files[s] + 1 \in FileIds /\ files' = [files EXCEPT ![s] = @ + 1] /\ games' = games
          /\ \A t \in Sessions : files[t] \in 0..MaxFiles /\ files'[t] \in 0..MaxFiles
      BY <1>0, <1>3, GameAssumption DEF FileArrives, TypeOK
    <2>2. \A t \in Sessions, j \in FileIds :
            load'[t][j] = IF t = s /\ j = files[s] + 1 THEN "scheduled" ELSE load[t][j]
      <3>1. load' = [load EXCEPT ![s][files[s] + 1] = "scheduled"] /\ "scheduled" \in LoadSteps
        BY <1>3 DEF FileArrives, LoadSteps
      <3> QED BY <1>0, <2>1, <3>1, LoadEntry, ZenonT(30)
    <2>3. load[s][files[s] + 1] = "none"
      BY <1>0, <2>1, GameAssumption DEF LoadsOfFiles
    <2>5. \A t \in Sessions : games'[t] <= Cardinality(Done(t)')
      BY <1>k, <2>1, <2>2, <2>3
    <2>6. ASSUME NEW t \in Sessions, NEW j \in FileIds, j > files'[t]
          PROVE  load'[t][j] = "none"
      <3>1. j > files[t] /\ ~(t = s /\ j = files[s] + 1)
        BY <1>0, <2>1, <2>6, GameAssumption, SMTT(30) DEF TypeOK
      <3> QED BY <1>0, <2>2, <3>1 DEF LoadsOfFiles
    <2> QED BY <2>5, <2>6 DEF LoadsOfFiles
  <1>4. ASSUME NEW s \in Sessions, NEW i \in FileIds, LoadDetector(s, i) PROVE LoadsOfFiles'
    <2>1. PICK to \in LoadSteps :
            /\ load' = [load EXCEPT ![s][i] = to]
            /\ load[s][i] \notin {"none", "done"} /\ to \notin {"none", "scheduled"}
      BY <1>0, <1>4, WorkerMovesOneLoad
    <2>2. \A t \in Sessions, j \in FileIds :
            load'[t][j] = IF t = s /\ j = i THEN to ELSE load[t][j]
      BY <1>0, <2>1, LoadEntry, ZenonT(30)
    <2>3. files' = files
      BY <1>4 DEF LoadDetector, PrepareFaceDetector, CheckLandmarks, OpenModel, ReadModel,
                  EmitLoaded, LoadFails, LoadMoves, streamVars
    <2>4. \A t \in Sessions, j \in FileIds : j > files'[t] => load'[t][j] = "none"
      BY <1>0, <2>1, <2>2, <2>3 DEF LoadsOfFiles
    <2>5. \A t \in Sessions, j \in FileIds : load[t][j] = "done" => load'[t][j] = "done"
      BY <2>1, <2>2
    <2>6. CASE games' = games
      <3>1. \A t \in Sessions : games'[t] <= Cardinality(Done(t)')
        BY <1>k, <2>5, <2>6
      <3> QED BY <2>4, <3>1 DEF LoadsOfFiles
    <2>7. CASE games' # games
      <3>1. EmitLoaded(s, i) /\ games' = [games EXCEPT ![s] = @ + 1]
        BY <1>4, <2>7 DEF LoadDetector, PrepareFaceDetector, CheckLandmarks, OpenModel,
                         ReadModel, EmitLoaded, LoadFails, quiet
      <3>2. load[s][i] = "emit" /\ load'[s][i] = "done"
        BY <1>0, <2>1, <3>1, LoadEntry DEF EmitLoaded, LoadMoves, TypeOK, LoadSteps
      <3>3. Done(s)' = Done(s) \cup {i} /\ Cardinality(Done(s)') = Cardinality(Done(s)) + 1
        <4>1. Done(s)' = Done(s) \cup {i}
          BY <2>1, <2>2, <3>2 DEF Done
        <4> QED BY <1>0, <3>2, <4>1, DoneCount
      <3>4. games'[s] <= Cardinality(Done(s)')
        <4>1. games'[s] = games[s] + 1 /\ Cardinality(Done(s)) \in Nat
          BY <1>0, <1>c, <2>5, <3>1 DEF TypeOK
        <4> QED BY <1>g, <3>3, <4>1
      <3>5. \A t \in Sessions : t # s => games'[t] <= Cardinality(Done(t)')
        <4>1. \A t \in Sessions : t # s => games'[t] = games[t]
          BY <1>0, <3>1 DEF TypeOK
        <4> QED BY <1>k, <2>5, <4>1
      <3> QED BY <2>4, <3>4, <3>5 DEF LoadsOfFiles
    <2> QED BY <2>6, <2>7
  <1> QED BY <1>1, <1>2, <1>3, <1>4 DEF Next

\* What a load's step means for its stream: nothing, and then it is not over
\* unless the stream is disposed or the process killed; or the stream fails; or
\* it starts a game.
LEMMA WorkerAndStream ==
  ASSUME TypeOK, NEW s \in Sessions, NEW i \in FileIds, LoadDetector(s, i)
  PROVE  /\ UNCHANGED <<streamVars, fileVars, dialog>>
         /\ ~crashed
         /\ \/ /\ UNCHANGED <<model, queue, games, failed>>
               /\ load'[s][i] = "done" => ~Subscribed(s) \/ crashed'
            \/ /\ Subscribed(s) /\ Scan("failed") /\ games' = games
               /\ failed' = [failed EXCEPT ![s] = TRUE]
            \/ /\ Subscribed(s) /\ Scan("ok") /\ failed' = failed
               /\ games' = [games EXCEPT ![s] = @ + 1]
  <1>f. ASSUME NEW from, LoadFails(s, i, from)
        PROVE  /\ UNCHANGED <<streamVars, fileVars, dialog>> /\ ~crashed
               /\ \/ UNCHANGED <<model, queue, games, failed>> /\ (~Subscribed(s) \/ crashed')
                  \/ /\ Subscribed(s) /\ Scan("failed") /\ games' = games
                     /\ failed' = [failed EXCEPT ![s] = TRUE]
    BY <1>f DEF LoadFails, LoadMoves
  <1>m. ASSUME NEW to \in LoadSteps, NEW from, LoadMoves(s, i, from, to)
        PROVE  UNCHANGED <<streamVars, fileVars>> /\ ~crashed /\ load'[s][i] = to
    BY <1>m, LoadEntry DEF LoadMoves
  <1>q. ASSUME UNCHANGED quiet PROVE UNCHANGED <<dialog, model, queue, games, failed>>
    BY <1>q DEF quiet, uiVars
  <1>1. CASE PrepareFaceDetector(s, i)
    <2>1. CASE LoadMoves(s, i, "scheduled", "landmarks") /\ UNCHANGED quiet
      BY <1>m, <1>q, <2>1 DEF LoadSteps
    <2>2. CASE LoadFails(s, i, "scheduled")
      BY <1>f, <2>2
    <2> QED BY <1>1, <2>1, <2>2 DEF PrepareFaceDetector
  <1>2. CASE CheckLandmarks(s, i)
    <2>1. PICK to \in {"emit", "open"} : LoadMoves(s, i, "landmarks", to) /\ UNCHANGED quiet
      BY <1>2 DEF CheckLandmarks
    <2> QED BY <1>m, <1>q, <2>1 DEF LoadSteps
  <1>3. CASE OpenModel(s, i)
    <2>1. UNCHANGED <<dialog, model, queue, games, failed>>
      BY <1>3 DEF OpenModel, uiVars
    <2>2. CASE LoadMoves(s, i, "open", "reading")
      BY <1>m, <2>1, <2>2 DEF LoadSteps
    <2>3. CASE LoadMoves(s, i, "open", "done") /\ crashed'
      BY <1>m, <2>1, <2>3 DEF LoadSteps
    <2> QED BY <1>3, <2>2, <2>3 DEF OpenModel
  <1>4. CASE ReadModel(s, i)
    <2>1. CASE LoadMoves(s, i, "reading", "emit") /\ UNCHANGED quiet
      BY <1>m, <1>q, <2>1 DEF LoadSteps
    <2>2. CASE LoadFails(s, i, "reading")
      BY <1>f, <2>2
    <2> QED BY <1>4, <2>1, <2>2 DEF ReadModel
  <1>5. CASE EmitLoaded(s, i)
    <2>1. UNCHANGED <<streamVars, fileVars>> /\ ~crashed /\ load'[s][i] = "done"
      BY <1>m, <1>5 DEF EmitLoaded, LoadSteps
    <2> QED BY <1>5, <2>1 DEF EmitLoaded
  <1> QED BY <1>1, <1>2, <1>3, <1>4, <1>5 DEF LoadDetector

\* No step touches a stream that has not begun.
LEMMA NotBegunStep == ASSUME Inv, [Next]_vars PROVE NotBegun'
  <1>0. TypeOK /\ NotBegun /\ session \in Nat /\ MaxSessions \in Nat
    BY GameAssumption DEF Inv, TypeOK
  <1>a. ASSUME session' = session, resumed' => resumed,
               \A s \in Sessions : s > session =>
                 /\ download'[s] = download[s] /\ files'[s] = files[s]
                 /\ games'[s] = games[s] /\ failed'[s] = failed[s]
        PROVE  NotBegun'
    BY <1>0, <1>a DEF NotBegun, NothingYet
  <1>1. CASE Resume
    <2>1. /\ session' = session + 1 /\ session' \in Sessions
          /\ files' = files /\ games' = games /\ failed' = failed
          /\ \A s \in Sessions : s > session' => download'[s] = download[s]
      BY <1>0, <1>1 DEF Resume, BeginDownload, TypeOK
    <2> QED BY <1>0, <2>1 DEF NotBegun, NothingYet
  <1>2. CASE AnswerPermission
    <2>1. /\ session' = session /\ resumed' = resumed
          /\ files' = files /\ games' = games /\ failed' = failed
          /\ \A s \in Sessions : s > session => download'[s] = download[s]
      BY <1>0, <1>2 DEF AnswerPermission, BeginDownload, TypeOK
    <2> QED BY <1>a, <2>1
  <1>3. CASE Pause
    <2>1. /\ session' = session /\ ~resumed'
          /\ files' = files /\ games' = games /\ failed' = failed
          /\ \A s \in Sessions : s > session => download'[s] = download[s]
      BY <1>0, <1>3 DEF Pause, TypeOK
    <2> QED BY <1>a, <2>1
  <1>4. CASE Deliver \/ Tick \/ FileDeleted \/ UNCHANGED vars
    <2>1. UNCHANGED <<session, resumed, download, files, games, failed>>
      BY <1>4 DEF Deliver, Tick, FileDeleted, vars, streamVars
    <2> QED BY <1>a, <2>1
  <1>5. ASSUME NEW s \in Sessions, FileArrives(s) \/ DownloadEnds(s) PROVE NotBegun'
    <2>1. s = session /\ session' = session /\ resumed' = resumed /\ games' = games
      BY <1>5 DEF FileArrives, DownloadEnds, Subscribed
    <2>2. \A t \in Sessions : t # s => /\ download'[t] = download[t] /\ files'[t] = files[t]
                                       /\ failed'[t] = failed[t]
      BY <1>0, <1>5 DEF FileArrives, DownloadEnds, TypeOK
    <2> QED BY <1>0, <1>a, <2>1, <2>2
  <1>6. ASSUME NEW s \in Sessions, NEW i \in FileIds, LoadDetector(s, i) PROVE NotBegun'
    <2>1. UNCHANGED <<session, resumed, download, files>>
      BY <1>0, <1>6, WorkerAndStream DEF streamVars
    <2>2. /\ \A t \in Sessions : t # s => games'[t] = games[t] /\ failed'[t] = failed[t]
          /\ UNCHANGED <<games, failed>> \/ s = session
      BY <1>0, <1>6, WorkerAndStream DEF TypeOK, Subscribed
    <2> QED BY <1>0, <1>a, <2>1, <2>2
  <1> QED BY <1>1, <1>2, <1>3, <1>4, <1>5, <1>6 DEF Next

\* Nothing of a stream moves before its permission is answered.
LEMMA AskedFirstStep == ASSUME Inv, [Next]_vars PROVE AskedFirst'
  <1>0. TypeOK /\ NotBegun /\ AskedFirst /\ session \in Nat /\ MaxSessions \in Nat
    BY GameAssumption DEF Inv, TypeOK
  <1>1. CASE Resume
    <2>1. CASE granted
      BY <1>0, <1>1, <2>1 DEF Resume, AskedFirst
    <2>2. CASE ~granted
      BY <1>0, <1>1, <2>2 DEF Resume, AskedFirst, NotBegun, NothingYet
    <2> QED BY <2>1, <2>2
  <1>2. CASE AnswerPermission
    BY <1>2 DEF AnswerPermission, AskedFirst
  <1>3. CASE Pause
    BY <1>0, <1>3 DEF Pause, AskedFirst
  <1>4. CASE Deliver \/ Tick \/ FileDeleted \/ UNCHANGED vars
    <2>1. UNCHANGED <<session, resumed, granted, asking, download, files>>
      BY <1>4 DEF Deliver, Tick, FileDeleted, vars, streamVars
    <2> QED BY <1>0, <2>1 DEF AskedFirst
  <1>5. ASSUME NEW s \in Sessions, FileArrives(s) \/ DownloadEnds(s) PROVE AskedFirst'
    BY <1>0, <1>5 DEF FileArrives, DownloadEnds, Subscribed, AskedFirst
  <1>6. ASSUME NEW s \in Sessions, NEW i \in FileIds, LoadDetector(s, i) PROVE AskedFirst'
    <2>1. UNCHANGED <<session, resumed, granted, asking, download, files>>
      BY <1>0, <1>6, WorkerAndStream DEF streamVars
    <2> QED BY <1>0, <2>1 DEF AskedFirst
  <1> QED BY <1>1, <1>2, <1>3, <1>4, <1>5, <1>6 DEF Next

\* Only a subscribed stream posts models, and a pause takes back what it posted.
LEMMA PausedIsQuietStep == ASSUME Inv, [Next]_vars PROVE PausedIsQuiet'
  <1>0. TypeOK /\ PausedIsQuiet
    BY DEF Inv
  <1>1. CASE Resume
    BY <1>1 DEF Resume, PausedIsQuiet
  <1>2. CASE AnswerPermission
    BY <1>0, <1>2 DEF AnswerPermission, PausedIsQuiet
  <1>3. CASE Pause
    BY <1>3 DEF Pause, PausedIsQuiet
  <1>4. CASE Deliver
    BY <1>0, <1>4 DEF Deliver, PausedIsQuiet, streamVars
  <1>5. CASE Tick
    BY <1>5 DEF Tick, PausedIsQuiet, streamVars
  <1>6. ASSUME NEW s \in Sessions, FileArrives(s) \/ DownloadEnds(s) PROVE PausedIsQuiet'
    BY <1>6 DEF FileArrives, DownloadEnds, Subscribed, PausedIsQuiet
  <1>7. CASE FileDeleted \/ UNCHANGED vars
    <2>1. UNCHANGED <<resumed, queue, dialog>>
      BY <1>7 DEF FileDeleted, vars, streamVars, uiVars
    <2> QED BY <1>0, <2>1 DEF PausedIsQuiet
  <1>8. ASSUME NEW s \in Sessions, NEW i \in FileIds, LoadDetector(s, i) PROVE PausedIsQuiet'
    <2>1. /\ UNCHANGED <<resumed, dialog>>
          /\ queue' = queue \/ resumed
      BY <1>0, <1>8, WorkerAndStream DEF streamVars, Subscribed
    <2> QED BY <1>0, <2>1 DEF PausedIsQuiet
  <1> QED BY <1>1, <1>2, <1>3, <1>4, <1>5, <1>6, <1>7, <1>8 DEF Next

\* What the dialog shows, or will show after the queue, is the scan's model.
LEMMA DialogFollowsStep == ASSUME Inv, [Next]_vars PROVE DialogFollows'
  <1>0. TypeOK /\ PausedIsQuiet /\ DialogFollows /\ queue \in Seq(Messages)
    BY DEF Inv, TypeOK
  <1>s. ASSUME NEW result \in Models, Scan(result), resumed, dialog' = dialog,
               result = model \/ result \in Messages \/ result = "failed"
        PROVE  DialogFollows'
    <2>1. CASE result \in Messages
      BY <1>0, <1>s, <2>1, ScanPosts DEF DialogFollows
    <2>2. CASE result \notin Messages
      <3>1. model' \notin Messages
        BY <1>s, <2>2 DEF Scan
      <3> QED BY <3>1 DEF DialogFollows
    <2> QED BY <2>1, <2>2
  <1>b. ASSUME model' = "in", queue' = <<"in">> PROVE DialogFollows'
    BY <1>b DEF DialogFollows
  <1>u. ASSUME UNCHANGED <<resumed, model, queue, dialog>> PROVE DialogFollows'
    BY <1>0, <1>u DEF DialogFollows
  <1>1. CASE Resume
    <2>1. CASE granted
      BY <1>1, <1>b, <2>1 DEF Resume, BeginDownload
    <2>2. CASE ~granted
      BY <1>1, <2>2 DEF Resume, DialogFollows, Messages
    <2> QED BY <2>1, <2>2
  <1>2. CASE AnswerPermission
    <2>1. CASE resumed /\ granted'
      BY <1>2, <1>b, <2>1 DEF AnswerPermission, BeginDownload
    <2>2. CASE ~(resumed /\ granted')
      BY <1>2, <1>u, <2>2 DEF AnswerPermission
    <2> QED BY <2>1, <2>2
  <1>3. CASE Pause
    BY <1>3 DEF Pause, DialogFollows
  <1>4. CASE Deliver
    <2>1. /\ queue # <<>> /\ dialog' = (Head(queue) = "in") /\ queue' = Tail(queue)
          /\ model' = model /\ resumed' = resumed
      BY <1>4 DEF Deliver, streamVars
    <2>2. SUFFICES ASSUME resumed, model \in Messages
                   PROVE  IF queue' = <<>> THEN dialog' = (model = "in")
                                           ELSE queue'[Len(queue')] = model
      BY <2>1 DEF DialogFollows
    <2>3. queue[Len(queue)] = model
      BY <2>1, <2>2, <1>0 DEF DialogFollows
    <2>4. CASE queue' = <<>>
      <3>1. Len(queue) = 1
        <4>1. Len(Tail(queue)) = Len(queue) - 1 /\ Len(queue) \in Nat
          BY <1>0, <2>1
        <4>2. Tail(queue) = <<>> /\ Len(<<>>) = 0
          BY <2>1, <2>4
        <4>3. Len(queue) - 1 = 0
          BY <4>1, <4>2, Zenon
        <4> QED BY <4>1, <4>3
      <3>2. Head(queue) = queue[1]
        BY <1>0, <2>1
      <3> QED BY <2>1, <2>3, <2>4, <3>1, <3>2
    <2>5. CASE queue' # <<>>
      <3>1. Len(queue') = Len(queue) - 1 /\ Len(queue') >= 1 /\ Len(queue) \in Nat
        BY <1>0, <2>1, <2>5
      <3>2. queue'[Len(queue')] = queue[Len(queue)]
        BY <1>0, <2>1, <3>1
      <3> QED BY <2>3, <2>5, <3>2
    <2> QED BY <2>4, <2>5
  <1>5. CASE Tick
    <2>1. resumed /\ Scan(model) /\ dialog' = dialog /\ model \in Models
      BY <1>0, <1>5 DEF Tick, TypeOK
    <2> QED BY <1>s, <2>1
  <1>6. ASSUME NEW s \in Sessions, FileArrives(s) PROVE DialogFollows'
    <2>1. model' = "in" /\ queue' = queue \o <<"ok", "in">>
      BY <1>6 DEF FileArrives
    <2>2. Len(queue') = Len(queue) + 2 /\ queue'[Len(queue')] = "in" /\ queue' # <<>>
      BY <1>0, <2>1 DEF Messages
    <2> QED BY <2>1, <2>2 DEF DialogFollows
  <1>7. ASSUME NEW s \in Sessions, DownloadEnds(s) PROVE DialogFollows'
    <2>1. resumed /\ resumed' = resumed /\ dialog' = dialog /\ model \in Models
      BY <1>0, <1>7 DEF DownloadEnds, Subscribed, TypeOK
    <2>2. CASE Scan(model)
      BY <1>s, <2>1, <2>2
    <2>3. CASE UNCHANGED <<model, queue, failed>>
      BY <1>u, <2>1, <2>3
    <2> QED BY <1>7, <2>2, <2>3 DEF DownloadEnds
  <1>8. CASE FileDeleted \/ UNCHANGED vars
    <2>1. UNCHANGED <<resumed, model, queue, dialog>>
      BY <1>8 DEF FileDeleted, vars, streamVars, uiVars
    <2> QED BY <1>u, <2>1
  <1>9. ASSUME NEW s \in Sessions, NEW i \in FileIds, LoadDetector(s, i) PROVE DialogFollows'
    <2>1. UNCHANGED <<resumed, dialog>>
      BY <1>0, <1>9, WorkerAndStream DEF streamVars
    <2>2. CASE UNCHANGED <<model, queue>>
      BY <1>u, <2>1, <2>2
    <2>3. CASE resumed /\ (Scan("failed") \/ Scan("ok"))
      BY <1>s, <2>1, <2>3 DEF Models, Messages
    <2> QED BY <1>0, <1>9, <2>2, <2>3, WorkerAndStream DEF Subscribed
  <1> QED BY <1>1, <1>2, <1>3, <1>4, <1>5, <1>6, <1>7, <1>8, <1>9 DEF Next

\* A file that arrives is not loaded yet, so its stream's loads are not over.
LEMMA ArrivedIsNotOver ==
  ASSUME TypeOK, NEW s \in Sessions, FileArrives(s)
  PROVE  ~LoadsOver(s)'
  <1>1. files[s] + 1 \in FileIds
    BY GameAssumption, SMTT(30) DEF FileArrives, TypeOK
  <1>2. load'[s][files[s] + 1] = "scheduled"
    BY <1>1, LoadEntry DEF FileArrives, LoadSteps
  <1> QED BY <1>1, <1>2 DEF LoadsOver

\* The last load of a stream to end says "ok" and starts a game, or the stream fails.
LEMMA GoodEndStep == ASSUME Inv, TypeOK', [Next]_vars PROVE GoodEndIsOk' /\ FileLeadsToGame'
  <1>0. /\ TypeOK /\ NotBegun /\ AskedFirst /\ GoodEndIsOk /\ FileLeadsToGame
        /\ session \in Nat /\ MaxSessions \in Nat
    BY GameAssumption, SMTT(30) DEF Inv, TypeOK
  <1>u. ASSUME UNCHANGED <<session, resumed, model, files, games, failed, crashed, load>>
        PROVE  GoodEndIsOk' /\ FileLeadsToGame'
    BY <1>0, <1>u DEF GoodEndIsOk, FileLeadsToGame, LoadsOver
  <1>1. CASE Resume
    <2>1. session' \in Sessions /\ files'[session'] = 0
      BY <1>0, <1>1 DEF Resume, NotBegun, NothingYet
    <2> QED BY <2>1 DEF GoodEndIsOk, FileLeadsToGame
  <1>2. CASE AnswerPermission
    <2>1. UNCHANGED <<session, resumed, files, games, failed, crashed, load>>
          /\ (model' = model \/ resumed)
      BY <1>2 DEF AnswerPermission
    <2>2. resumed => files'[session'] = 0
      BY <1>0, <1>2, <2>1 DEF AnswerPermission, AskedFirst
    <2> QED BY <1>0, <2>1, <2>2 DEF GoodEndIsOk, FileLeadsToGame
  <1>3. CASE Pause
    BY <1>3 DEF Pause, GoodEndIsOk, FileLeadsToGame
  <1>4. CASE Deliver \/ Tick \/ FileDeleted \/ UNCHANGED vars
    <2>1. UNCHANGED <<session, resumed, model, files, games, failed, crashed, load>>
      BY <1>4 DEF Deliver, Tick, FileDeleted, Scan, vars, streamVars, uiVars
    <2> QED BY <1>u, <2>1
  <1>5. ASSUME NEW s \in Sessions, FileArrives(s) PROVE GoodEndIsOk' /\ FileLeadsToGame'
    <2>1. s = session /\ session' = session
      BY <1>5 DEF FileArrives, Subscribed
    <2>2. ~LoadsOver(session)'
      BY <1>0, <1>5, <2>1, ArrivedIsNotOver
    <2> QED BY <2>2 DEF GoodEndIsOk, FileLeadsToGame, LoadsOver
  <1>6. ASSUME NEW s \in Sessions, DownloadEnds(s) PROVE GoodEndIsOk' /\ FileLeadsToGame'
    <2>1. /\ s = session /\ UNCHANGED <<session, resumed, files, games, crashed, load>>
          /\ model' = model
      BY <1>6 DEF DownloadEnds, Subscribed, Scan
    <2>2. CASE failed' = failed
      BY <1>u, <2>1, <2>2
    <2>3. CASE failed' = [failed EXCEPT ![s] = TRUE]
      <3>1. failed'[session']
        BY <1>0, <2>1, <2>3 DEF TypeOK
      <3> QED BY <3>1 DEF GoodEndIsOk, FileLeadsToGame
    <2> QED BY <1>6, <2>2, <2>3 DEF DownloadEnds
  <1>7. ASSUME NEW s \in Sessions, NEW i \in FileIds, LoadDetector(s, i)
        PROVE  GoodEndIsOk' /\ FileLeadsToGame'
    <2>1. UNCHANGED <<session, resumed, files>> /\ ~crashed
      BY <1>0, <1>7, WorkerAndStream DEF streamVars
    <2>2. PICK to \in LoadSteps : /\ load' = [load EXCEPT ![s][i] = to]
                                  /\ to \notin {"none", "scheduled"}
      BY <1>0, <1>7, WorkerMovesOneLoad
    <2>3. load'[s][i] = to /\ \A t \in Sessions, j \in FileIds :
                                ~(t = s /\ j = i) => load'[t][j] = load[t][j]
      BY <1>0, <2>2, LoadEntry, ZenonT(30)
    <2>4. CASE Subscribed(s) /\ Scan("failed") /\ failed' = [failed EXCEPT ![s] = TRUE]
      <3>1. failed'[session']
        BY <1>0, <2>1, <2>4 DEF TypeOK, Subscribed
      <3> QED BY <3>1 DEF GoodEndIsOk, FileLeadsToGame
    <2>5. CASE Subscribed(s) /\ Scan("ok") /\ games' = [games EXCEPT ![s] = @ + 1]
      <3>1. model' = "ok"
        BY <2>5 DEF Scan
      <3>2. games[session] \in Nat /\ games'[session'] = games[session] + 1
        BY <1>0, <2>1, <2>5, GameAssumption DEF TypeOK, Subscribed
      <3> QED BY <3>1, <3>2 DEF GoodEndIsOk, FileLeadsToGame
    <2>6. CASE /\ UNCHANGED <<model, queue, games, failed>>
               /\ load'[s][i] = "done" => ~Subscribed(s) \/ crashed'
      <3>1. CASE Subscribed(s) /\ ~crashed'
        <4>1. ~LoadsOver(session)'
          BY <2>1, <2>2, <2>3, <2>6, <3>1 DEF LoadsOver, Subscribed
        <4> QED BY <4>1 DEF GoodEndIsOk, FileLeadsToGame, LoadsOver
      <3>2. CASE ~Subscribed(s) \/ crashed'
        <4>1. SUFFICES ASSUME resumed, ~crashed'
                       PROVE  GoodEndIsOk' /\ FileLeadsToGame'
          BY <2>1 DEF GoodEndIsOk, FileLeadsToGame
        <4>2. session \in Sessions /\ s # session
          BY <1>0, <3>2, <4>1 DEF NotBegun, Subscribed
        <4>3. \A j \in FileIds : load'[session][j] = load[session][j]
          BY <2>3, <4>2
        <4> QED BY <1>0, <2>1, <2>6, <4>3 DEF GoodEndIsOk, FileLeadsToGame, LoadsOver
      <3> QED BY <3>1, <3>2
    <2> QED BY <1>0, <1>7, <2>4, <2>5, <2>6, WorkerAndStream
  <1> QED BY <1>1, <1>2, <1>3, <1>4, <1>5, <1>6, <1>7 DEF Next

\* What a load's step does to the native library: each way of looking at the
\* step that the detectors' invariants need.
LEMMA WorkerAndNative ==
  ASSUME TypeOK, NEW s \in Sessions, NEW i \in FileIds, LoadDetector(s, i)
  PROVE  \/ /\ UNCHANGED <<landmarks, overlapped>>
            /\ \/ load[s][i] = "scheduled" /\ load'[s][i] = "landmarks" /\ faceReady'
               \/ load[s][i] = "scheduled" /\ load'[s][i] = "done" /\ faceReady' = faceReady
               \/ /\ load[s][i] = "open" /\ load'[s][i] = "done"
                  /\ faceReady' = faceReady
               \/ load[s][i] = "emit" /\ load'[s][i] = "done" /\ faceReady' = faceReady
         \/ /\ load[s][i] = "landmarks" /\ load'[s][i] = "emit"
            /\ UNCHANGED <<landmarks, overlapped, faceReady>> /\ landmarks # "empty"
         \/ /\ load[s][i] = "landmarks" /\ load'[s][i] = "open"
            /\ UNCHANGED <<landmarks, faceReady>> /\ landmarks \in {"empty", "partial"}
            /\ overlapped' = (overlapped \/ Others(s, i) # {})
         \/ /\ load[s][i] = "open" /\ load'[s][i] = "reading"
            /\ UNCHANGED <<faceReady, overlapped>> /\ landmarks' = "partial"
            /\ content # "garbage"
         \/ /\ load[s][i] = "reading" /\ load'[s][i] \in {"emit", "done"}
            /\ UNCHANGED <<faceReady, overlapped>>
            /\ IF overlapped THEN landmarks' \in {"model68", "otherModel", "partial"}
                             ELSE landmarks' = content
  <1>m. ASSUME NEW to \in LoadSteps, NEW from, LoadMoves(s, i, from, to)
        PROVE  load[s][i] = from /\ load'[s][i] = to
    BY <1>m, LoadEntry DEF LoadMoves
  <1>f. ASSUME NEW from, LoadFails(s, i, from)
        PROVE  load[s][i] = from /\ load'[s][i] = "done"
    BY <1>f, <1>m DEF LoadFails, LoadSteps
  <1>1. CASE PrepareFaceDetector(s, i)
    <2>1. CASE LoadMoves(s, i, "scheduled", "landmarks") /\ faceReady' = TRUE
               /\ UNCHANGED <<landmarks, overlapped>>
      BY <1>m, <2>1 DEF LoadSteps
    <2>2. CASE LoadFails(s, i, "scheduled") /\ UNCHANGED nativeVars
      BY <1>f, <2>2 DEF nativeVars
    <2> QED BY <1>1, <2>1, <2>2 DEF PrepareFaceDetector
  <1>2. CASE CheckLandmarks(s, i)
    <2>1. PICK ready \in BOOLEAN :
            /\ IsLandmarksReady(ready)
            /\ LoadMoves(s, i, "landmarks", IF ready THEN "emit" ELSE "open")
            /\ overlapped' = (overlapped \/ (~ready /\ Others(s, i) # {}))
      BY <1>2 DEF CheckLandmarks
    <2>2. UNCHANGED <<faceReady, landmarks>>
      BY <1>2 DEF CheckLandmarks
    <2>3. CASE ready
      <3>1. load[s][i] = "landmarks" /\ load'[s][i] = "emit" /\ landmarks # "empty"
        BY <1>m, <2>1, <2>3 DEF LoadSteps, IsLandmarksReady
      <3>2. overlapped' = overlapped
        BY <2>1, <2>3 DEF TypeOK
      <3> QED BY <2>2, <3>1, <3>2
    <2>4. CASE ~ready
      <3>1. load[s][i] = "landmarks" /\ load'[s][i] = "open" /\ landmarks \in {"empty", "partial"}
        BY <1>m, <2>1, <2>4 DEF LoadSteps, IsLandmarksReady
      <3> QED BY <2>1, <2>2, <2>4, <3>1
    <2> QED BY <2>3, <2>4
  <1>3. CASE OpenModel(s, i)
    <2>1. CASE /\ LoadMoves(s, i, "open", "reading") /\ landmarks' = "partial"
               /\ content # "garbage"
      BY <1>3, <1>m, <2>1 DEF OpenModel, LoadSteps
    <2>2. CASE LoadMoves(s, i, "open", "done") /\ landmarks' = landmarks
      BY <1>3, <1>m, <2>2 DEF OpenModel, LoadSteps
    <2> QED BY <1>3, <2>1, <2>2 DEF OpenModel
  <1>4. CASE ReadModel(s, i)
    <2>1. load[s][i] = "reading" /\ load'[s][i] \in {"emit", "done"}
      BY <1>4, <1>f, <1>m DEF ReadModel, LoadSteps
    <2> QED BY <1>4, <2>1 DEF ReadModel
  <1>5. CASE EmitLoaded(s, i)
    BY <1>5, <1>m DEF EmitLoaded, LoadSteps, nativeVars
  <1> QED BY <1>1, <1>2, <1>3, <1>4, <1>5 DEF LoadDetector

\* Outside the io workers' steps the detectors stay as they are, and no load
\* gets beyond the point where it is scheduled.
LEMMA OthersAndNative ==
  ASSUME Inv,
         \/ Resume \/ AnswerPermission \/ Pause \/ Deliver \/ Tick \/ FileDeleted
         \/ UNCHANGED vars \/ \E s \in Sessions : FileArrives(s) \/ DownloadEnds(s)
  PROVE  /\ UNCHANGED <<content, faceReady, landmarks, overlapped, games>>
         /\ \A s \in Sessions, i \in FileIds :
              /\ load'[s][i] = load[s][i] \/ load'[s][i] \in {"scheduled", "done"}
              /\ load[s][i] \in {"landmarks", "open", "reading", "emit"} => load'[s][i] = load[s][i]
  <1>0. TypeOK /\ LoadsOfFiles
    BY DEF Inv
  <1>1. UNCHANGED <<content, faceReady, landmarks, overlapped, games>>
    BY DEF Resume, AnswerPermission, Pause, Deliver, Tick, FileDeleted, FileArrives,
           DownloadEnds, vars, fileVars, nativeVars
  <1> SUFFICES ASSUME NEW s \in Sessions, NEW i \in FileIds
               PROVE  /\ load'[s][i] = load[s][i] \/ load'[s][i] \in {"scheduled", "done"}
                      /\ load[s][i] \in {"landmarks", "open", "reading", "emit"}
                           => load'[s][i] = load[s][i]
    BY <1>1
  <1>2. CASE \/ Resume \/ AnswerPermission \/ Deliver \/ Tick \/ FileDeleted \/ UNCHANGED vars
             \/ \E t \in Sessions : DownloadEnds(t)
    <2>1. load' = load
      BY <1>2 DEF Resume, AnswerPermission, Deliver, Tick, FileDeleted, DownloadEnds, vars
    <2> QED BY <2>1
  <1>3. CASE Pause
    BY <1>0, <1>3, PauseEndsScheduled
  <1>4. ASSUME NEW t \in Sessions, FileArrives(t)
        PROVE  /\ load'[s][i] = load[s][i] \/ load'[s][i] \in {"scheduled", "done"}
               /\ load[s][i] \in {"landmarks", "open", "reading", "emit"}
                    => load'[s][i] = load[s][i]
    <2>1. files[t] + 1 \in FileIds /\ load[t][files[t] + 1] = "none"
      BY <1>0, <1>4, GameAssumption, SMTT(30) DEF FileArrives, TypeOK, LoadsOfFiles
    <2>2. load'[s][i] = IF s = t /\ i = files[t] + 1 THEN "scheduled" ELSE load[s][i]
      <3>1. load' = [load EXCEPT ![t][files[t] + 1] = "scheduled"] /\ "scheduled" \in LoadSteps
        BY <1>4 DEF FileArrives, LoadSteps
      <3> QED BY <1>0, <2>1, <3>1, LoadEntry, ZenonT(30)
    <2> QED BY <2>1, <2>2
  <1> QED BY <1>2, <1>3, <1>4

\* A load that has passed a check leaves the detector behind it prepared.
LEMMA DetectorsStep ==
  ASSUME Inv, TypeOK', [Next]_vars
  PROVE  LoadHasDetectors' /\ GameNeedsDetectors'
  <1>0. TypeOK /\ LoadHasDetectors /\ GameNeedsDetectors
    BY DEF Inv
  <1>1. CASE \/ Resume \/ AnswerPermission \/ Pause \/ Deliver \/ Tick \/ FileDeleted
             \/ UNCHANGED vars \/ \E s \in Sessions : FileArrives(s) \/ DownloadEnds(s)
    <2>1. /\ UNCHANGED <<content, faceReady, landmarks, games>>
          /\ \A s \in Sessions, i \in FileIds :
               load'[s][i] = load[s][i] \/ load'[s][i] \in {"scheduled", "done"}
      BY <1>1, OthersAndNative
    <2> QED BY <1>0, <2>1 DEF LoadHasDetectors, GameNeedsDetectors
  <1>2. ASSUME NEW s \in Sessions, NEW i \in FileIds, LoadDetector(s, i)
        PROVE  LoadHasDetectors' /\ GameNeedsDetectors'
    <2>1. content' = content
      BY <1>0, <1>2, WorkerAndStream DEF fileVars
    <2>2. \A t \in Sessions, j \in FileIds :
            ~(t = s /\ j = i) => load'[t][j] = load[t][j]
      BY <1>0, <1>2, WorkerMovesOneLoad, LoadEntry
    <2>3. (faceReady => faceReady') /\ (landmarks # "empty" => landmarks' # "empty")
      BY <1>0, <1>2, WorkerAndNative DEF TypeOK
    <2>4. /\ load'[s][i] \in {"landmarks", "open", "reading", "emit"} => faceReady'
          /\ load'[s][i] \in {"reading", "emit"} => landmarks' # "empty"
          /\ load'[s][i] = "reading" => content' # "garbage"
      BY <1>0, <1>2, <2>1, WorkerAndNative DEF LoadHasDetectors, TypeOK
    <2>5. LoadHasDetectors'
      BY <1>0, <2>1, <2>2, <2>3, <2>4 DEF LoadHasDetectors
    <2>6. \A t \in Sessions : games'[t] > 0 => faceReady' /\ landmarks' # "empty"
      <3>1. \A t \in Sessions : games'[t] = games[t] \/ (t = s /\ load[s][i] = "emit")
        <4>1. games' = games \/ (games' = [games EXCEPT ![s] = @ + 1] /\ load[s][i] = "emit")
          BY <1>2 DEF LoadDetector, PrepareFaceDetector, CheckLandmarks, OpenModel, ReadModel,
                      EmitLoaded, LoadFails, LoadMoves, quiet
        <4> QED BY <1>0, <4>1 DEF TypeOK
      <3> QED BY <1>0, <2>3, <3>1 DEF GameNeedsDetectors, LoadHasDetectors
    <2> QED BY <2>5, <2>6 DEF GameNeedsDetectors
  <1> QED BY <1>1, <1>2 DEF Next

\* Who the others in the loader are, without the pairs.
LEMMA OthersAre ==
  ASSUME NEW s \in Sessions, NEW i \in FileIds
  PROVE  Others(s, i) = {} <=> \A t \in Sessions, j \in FileIds :
                                 InLoader(t, j) => t = s /\ j = i
  <1>1. ASSUME Others(s, i) = {}, NEW t \in Sessions, NEW j \in FileIds, InLoader(t, j)
        PROVE  t = s /\ j = i
    <2>1. <<t, j>> \notin Others(s, i) /\ <<t, j>> \in Sessions \X FileIds
      BY <1>1
    <2>2. <<t, j>> = <<s, i>>
      BY <1>1, <2>1 DEF Others
    <2> QED BY <2>2
  <1>2. ASSUME \A t \in Sessions, j \in FileIds : InLoader(t, j) => t = s /\ j = i
        PROVE  Others(s, i) = {}
    <2>1. ASSUME NEW p \in Others(s, i) PROVE FALSE
      <3>1. /\ p \in Sessions \X FileIds /\ p # <<s, i>> /\ InLoader(p[1], p[2])
            /\ p = <<p[1], p[2]>> /\ p[1] \in Sessions /\ p[2] \in FileIds
        BY <2>1 DEF Others
      <3> QED BY <1>2, <3>1
    <2> QED BY <2>1
  <1> QED BY <1>1, <1>2

\* Two loads in the native loader, or one that finds it partial, have overlapped.
LEMMA LoaderAloneStep == ASSUME Inv, TypeOK', [Next]_vars PROVE LoaderAlone'
  <1>0. TypeOK /\ LoaderAlone
    BY DEF Inv
  <1>1. CASE \/ Resume \/ AnswerPermission \/ Pause \/ Deliver \/ Tick \/ FileDeleted
             \/ UNCHANGED vars \/ \E s \in Sessions : FileArrives(s) \/ DownloadEnds(s)
    <2>1. /\ UNCHANGED <<landmarks, overlapped>>
          /\ \A s \in Sessions, i \in FileIds :
               load'[s][i] \in {"open", "reading"} \/ load[s][i] = "reading"
                 => load'[s][i] = load[s][i]
      BY <1>1, OthersAndNative
    <2> QED BY <1>0, <2>1 DEF LoaderAlone, InLoader
  <1>2. ASSUME NEW s \in Sessions, NEW i \in FileIds, LoadDetector(s, i) PROVE LoaderAlone'
    <2>1. overlapped => overlapped'
      BY <1>0, <1>2, WorkerAndNative
    <2>2. SUFFICES ASSUME ~overlapped' PROVE LoaderAlone'
      BY DEF LoaderAlone
    <2>3. \A t \in Sessions, j \in FileIds : ~(t = s /\ j = i) => load'[t][j] = load[t][j]
      BY <1>0, <1>2, WorkerMovesOneLoad, LoadEntry
    <2>4. /\ \A t \in Sessions, j \in FileIds :
               InLoader(s, i) /\ InLoader(t, j) => t = s /\ j = i
          /\ \A t, u \in Sessions, j, k \in FileIds :
               InLoader(t, j) /\ InLoader(u, k) => t = u /\ j = k
          /\ \A t \in Sessions, j \in FileIds :
               /\ load[t][j] = "open" => landmarks = "empty"
               /\ load[t][j] = "reading" => landmarks = "partial"
          /\ landmarks = "partial" =>
               \E t \in Sessions, j \in FileIds : load[t][j] = "reading"
      BY <1>0, <2>1, <2>2 DEF LoaderAlone
    \* The load does not touch the loader.
    <2>5. CASE ~InLoader(s, i) /\ ~InLoader(s, i)' /\ landmarks' = landmarks
      <3>1. \A t \in Sessions, j \in FileIds :
              InLoader(t, j) \/ InLoader(t, j)' => load'[t][j] = load[t][j]
        BY <2>3, <2>5 DEF InLoader
      <3> QED BY <2>4, <2>5, <3>1 DEF LoaderAlone, InLoader
    \* It enters, while nobody else is in the loader.
    <2>6. CASE /\ load'[s][i] = "open" /\ Others(s, i) = {}
               /\ load[s][i] = "landmarks" /\ landmarks' = landmarks
               /\ landmarks \in {"empty", "partial"}
      <3>1. \A t \in Sessions, j \in FileIds : InLoader(t, j) => t = s /\ j = i
        BY <2>6, OthersAre
      <3>2. landmarks = "empty"
        BY <2>4, <2>6, <3>1 DEF InLoader
      <3>3. \A t \in Sessions, j \in FileIds : ~(t = s /\ j = i) => ~InLoader(t, j)'
        BY <2>3, <3>1 DEF InLoader
      <3> QED BY <2>6, <3>2, <3>3 DEF LoaderAlone, InLoader
    \* It begins to read, or leaves: it was the only one in the loader.
    <2>7. CASE load[s][i] \in {"open", "reading"}
      <3>1. \A t \in Sessions, j \in FileIds : ~(t = s /\ j = i) => ~InLoader(t, j)'
        BY <2>3, <2>4, <2>7 DEF InLoader
      <3>2. \/ load'[s][i] = "reading" /\ landmarks' = "partial"
            \/ load'[s][i] \notin {"open", "reading"} /\ landmarks' # "partial"
        <4>1. overlapped' = overlapped
          BY <1>0, <1>2, <2>7, WorkerAndNative
        <4>2. content # "partial"
          BY <1>0 DEF TypeOK
        <4> QED BY <1>0, <1>2, <2>2, <2>4, <2>7, <4>1, <4>2, WorkerAndNative
      <3> QED BY <3>1, <3>2 DEF LoaderAlone, InLoader
    <2>8. CASE load[s][i] \notin {"open", "reading"}
      <3>1. \/ load'[s][i] \notin {"open", "reading"} /\ landmarks' = landmarks
            \/ /\ load[s][i] = "landmarks" /\ load'[s][i] = "open"
               /\ landmarks' = landmarks /\ landmarks \in {"empty", "partial"}
               /\ Others(s, i) = {}
        BY <1>0, <1>2, <2>2, <2>8, WorkerAndNative
      <3> QED BY <2>5, <2>6, <2>8, <3>1 DEF InLoader
    <2> QED BY <2>7, <2>8
  <1> QED BY <1>1, <1>2 DEF Next

-----------------------------------------------------------------------------
\* The activity is created with nothing loaded by this process.
LEMMA InitInv == Init => Inv
  <1> SUFFICES ASSUME Init PROVE Inv
    OBVIOUS
  <1> USE GameAssumption DEF Init
  <1>1. TypeOK
    <2>1. /\ session \in 0..MaxSessions /\ queue \in Seq(Messages)
          /\ files \in [Sessions -> 0..MaxFiles] /\ games \in [Sessions -> 0..MaxFiles]
      OBVIOUS
    <2>2. load \in [Sessions -> [FileIds -> LoadSteps]]
      BY DEF LoadSteps
    <2>3. failed \in [Sessions -> BOOLEAN] /\ model \in Models
          /\ download \in [Sessions -> {"none", "running", "ended"}]
      BY DEF Models
    <2> QED BY <2>1, <2>2, <2>3, ZenonT(30) DEF TypeOK
  <1>2. LoadsOfFiles
    <2>1. \A s \in Sessions : Cardinality(Done(s)) \in 0..MaxFiles
      BY <1>1, DoneCount
    <2> QED BY <2>1 DEF LoadsOfFiles
  <1>3. NotBegun /\ AskedFirst /\ PausedIsQuiet /\ DialogFollows
    BY DEF NotBegun, NothingYet, AskedFirst, PausedIsQuiet, DialogFollows
  <1>4. GoodEndIsOk /\ LoadHasDetectors /\ GameNeedsDetectors /\ LoaderAlone /\ FileLeadsToGame
    BY DEF GoodEndIsOk, LoadHasDetectors, GameNeedsDetectors, LoaderAlone, FileLeadsToGame,
           InLoader
  <1> QED BY <1>1, <1>2, <1>3, <1>4 DEF Inv

\* The inductive invariant holds throughout.
LEMMA Invariant == Spec => []Inv
  <1>1. Inv /\ [Next]_vars => Inv'
    <2> SUFFICES ASSUME Inv, [Next]_vars PROVE Inv'
      OBVIOUS
    <2>1. TypeOK'
      BY TypeStep
    <2>2. LoadsOfFiles' /\ NotBegun' /\ AskedFirst' /\ PausedIsQuiet' /\ DialogFollows'
      BY <2>1, LoadsOfFilesStep, NotBegunStep, AskedFirstStep, PausedIsQuietStep,
         DialogFollowsStep
    <2>3. /\ GoodEndIsOk' /\ LoadHasDetectors' /\ GameNeedsDetectors' /\ LoaderAlone'
          /\ FileLeadsToGame'
      BY <2>1, GoodEndStep, DetectorsStep, LoaderAloneStep
    <2> QED BY <2>1, <2>2, <2>3 DEF Inv
  <1> QED BY InitInv, <1>1, PTL DEF Spec

\* Every variable keeps to the values the code can give it.
THEOREM TypeCorrect == Spec => []TypeOK
  <1>1. Inv => TypeOK
    BY DEF Inv
  <1> QED BY Invariant, <1>1, PTL

\* GameActivity.onPause: nothing that was posted before brings the progress
\* dialog back over a paused activity.
THEOREM NoDialogOverPaused == Spec => []PausedShowsNoDialog
  <1>1. Inv => PausedShowsNoDialog
    BY DEF Inv, PausedIsQuiet, PausedShowsNoDialog
  <1> QED BY Invariant, <1>1, PTL

\* The progress dialog, which nobody can cancel, is left over a stream that has
\* nothing to do only if something failed or no file came.
THEOREM DialogGoes == Spec => []DialogStaysOnlyAfterFailure
  <1>1. Inv => DialogStaysOnlyAfterFailure
    <2> SUFFICES ASSUME Inv, ~crashed, resumed, dialog, ~Busy(session),
                        ~failed[session], files[session] # 0
                 PROVE  FALSE
      BY DEF DialogStaysOnlyAfterFailure
    <2>1. session \in Sessions /\ files[session] > 0
      BY GameAssumption DEF Inv, NotBegun, TypeOK
    <2>2. queue = <<>> /\ LoadsOver(session)
      BY DEF Busy, LoadsOver
    <2>3. model = "ok"
      BY <2>1, <2>2 DEF Inv, GoodEndIsOk
    <2>4. dialog = (model = "in")
      BY <2>2, <2>3 DEF Inv, DialogFollows, Messages
    <2> QED BY <2>3, <2>4
  <1> QED BY Invariant, <1>1, PTL

\* A game never starts before the native library has both detectors, whatever
\* the loads of this and of earlier streams are doing.
THEOREM GameHasDetectors == Spec => []GameNeedsDetectors
  <1>1. Inv => GameNeedsDetectors
    BY DEF Inv
  <1> QED BY Invariant, <1>1, PTL

\* A stream that received a file and whose loads are over has a game or a failure.
THEOREM FileIsAnswered == Spec => []FileLeadsToGame
  <1>1. Inv => FileLeadsToGame
    BY DEF Inv
  <1> QED BY Invariant, <1>1, PTL

\* A landmarks detector that is loaded is not loaded again, unless two loads had
\* both found it missing.
THEOREM DetectorStays == Spec => LoadedDetectorStays
  <1>1. Inv /\ [Next]_vars =>
          [landmarks = "model68" /\ ~overlapped' => landmarks' = "model68"]_vars
    <2> SUFFICES ASSUME Inv, [Next]_vars, landmarks = "model68", ~overlapped'
                 PROVE  landmarks' = "model68"
      OBVIOUS
    <2>1. CASE \/ Resume \/ AnswerPermission \/ Pause \/ Deliver \/ Tick \/ FileDeleted
               \/ UNCHANGED vars \/ \E s \in Sessions : FileArrives(s) \/ DownloadEnds(s)
      BY <2>1, OthersAndNative
    <2>2. ASSUME NEW s \in Sessions, NEW i \in FileIds, LoadDetector(s, i)
          PROVE  landmarks' = "model68"
      <3>1. overlapped => overlapped'
        BY <2>2, WorkerAndNative DEF Inv
      <3>2. load[s][i] \notin {"open", "reading"}
        BY <3>1 DEF Inv, LoaderAlone
      <3> QED BY <2>2, <3>2, WorkerAndNative DEF Inv
    <2> QED BY <2>1, <2>2 DEF Next
  <1> QED BY Invariant, <1>1, PTL DEF Spec, LoadedDetectorStays

=============================================================================
