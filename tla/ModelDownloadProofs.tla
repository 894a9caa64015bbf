------------------------- MODULE ModelDownloadProofs -------------------------
(***************************************************************************)
(* For any number of calls of downloadFace68Model: the landmark model is   *)
(* never downloaded twice unless a process death or a disposed chain lost  *)
(* the task's id, a subject reports an error only when the task is gone,   *)
(* and a file that arrives was downloaded, and arrives twice at most.      *)
(*                                                                         *)
(* The preference is cleared by doOnError alone, which runs in a chain on  *)
(* its way to the end.  A chain that is not disposed belongs to the        *)
(* resumed activity, whose task is the preference's.  The event is then    *)
(* either the subject's error, about a task removed before, or one that    *)
(* doOnComplete raises because the receiver is gone; and of a live chain   *)
(* only the completion itself unregisters it.                              *)
(*                                                                         *)
(* A file arrives through the broadcast or through the check made when the *)
(* subject is created; DeliveryInv counts what each may still hand over.   *)
(***************************************************************************)
EXTENDS ModelDownload, TLAPS

USE DEF NoTask, Tasks

\* The first launch, with nothing remembered, satisfies the invariant.
LEMMA InitIInv == Init => IInv
<1> SUFFICES ASSUME Init PROVE IInv
  OBVIOUS
<1>1. TypeOK
  <2>1. io \in [Sessions -> [Workers -> IoSteps]]
    BY DEF Init, IoSteps
  <2>2. cur \in 0..MaxSessions
    BY MaxSessionsAssumption DEF Init
  <2>3. tasks \in [Sessions -> Rows] /\ files \in [Sessions -> Nat]
    BY DEF Init, Rows
  <2>4. subject \in [Sessions -> SubjectStates] /\ stream \in [Sessions -> StreamStates]
    BY DEF Init, SubjectStates, StreamStates
  <2> QED
    BY <2>1, <2>2, <2>3, <2>4 DEF Init, TypeOK, UiStates
<1>2. CallInv
  BY DEF Init, CallInv
<1>3. SessionInv
  BY DEF Init, SessionInv, Touched, Sessions
<1>4. EnqueuedInv
  BY DEF Init, EnqueuedInv
<1>5. ErrorInv
  BY DEF Init, ErrorInv
<1>6. SubscriptionInv
  BY DEF Init, SubscriptionInv, Workers, Kinds
<1>7. ChainInv
  BY DEF Init, ChainInv, Delivering, Workers, Kinds
<1>8. ReceiverInv
  BY DEF Init, ReceiverInv
<1>9. ErrorMeansRemoved
  BY DEF Init, ErrorMeansRemoved
<1>10. NoForgottenDownload
  BY DEF Init, NoForgottenDownload, Live, LiveRows
<1> QED
  BY <1>1, <1>2, <1>3, <1>4, <1>5, <1>6, <1>7, <1>8, <1>9, <1>10 DEF IInv

\* A worker that moves on changes its own entry only.
LEMMA OneWorkerMoves ==
  ASSUME NEW s \in Sessions, NEW w \in Workers, NEW next \in IoSteps,
         TypeOK, Step(s, w, next)
  PROVE  /\ io' \in [Sessions -> [Workers -> IoSteps]]
         /\ \A r \in Sessions, v \in Workers :
              io'[r][v] = IF r = s /\ v = w THEN next ELSE io[r][v]
  BY DEF TypeOK, Step

\* At the first launch nothing was announced, checked or handed over.
LEMMA InitDelivers == Init => DeliveryInv
  BY DEF Init, DeliveryInv, NextInv, FilesInv, FileWasDownloaded, AnnouncedInv,
     BroadcastInv,
         Heard, InitialCheckInv, CountInv, HandedOver, Workers, Kinds

\* A death turns the live tasks the disk does not name into orphans.
LEMMA ProcessDiesStep ==
  ASSUME IInv, DeliveryInv, ProcessDies
  PROVE  IInv' /\ DeliveryInv'
<1> USE DEF IInv, DeliveryInv, ProcessDies
<1>1. TypeOK'
  BY DEF TypeOK, Sessions, Workers, Kinds, IoSteps, CheckSteps, SubscribeSteps,
     Delivering, Rows, UiStates, SubjectStates, StreamStates, Live, SubscriptionInv
<1>2. CallInv'
  BY DEF CallInv, TypeOK, EnqueuedInv
<1>3. SessionInv'
  BY DEF SessionInv, Touched, TypeOK
<1>4. EnqueuedInv'
  BY DEF EnqueuedInv, TypeOK
<1>5. ErrorInv'
  BY DEF ErrorInv, TypeOK
<1>6. SubscriptionInv'
  BY DEF SubscriptionInv, TypeOK, Workers, IoSteps, StreamStates
<1>7. ChainInv'
  BY DEF ChainInv, TypeOK, Delivering, Workers, Kinds
<1>8. ReceiverInv'
  BY DEF ReceiverInv, TypeOK
<1>9. ErrorMeansRemoved'
  BY DEF ErrorMeansRemoved
<1>10. NoForgottenDownload'
  BY DEF NoForgottenDownload, Live, Pending
<1>11. NextInv'
  BY DEF NextInv, TypeOK, Workers, Kinds
<1>12. FilesInv'
  BY DEF FilesInv, TypeOK
<1>13. FileWasDownloaded'
  BY DEF FileWasDownloaded
<1>14. AnnouncedInv'
  BY DEF AnnouncedInv
<1>15. BroadcastInv'
  BY DEF BroadcastInv, Heard, TypeOK, Workers, Kinds
<1>16. InitialCheckInv'
  BY DEF InitialCheckInv
<1>17. CountInv'
  BY DEF CountInv, HandedOver, TypeOK, Workers, Kinds
<1> QED
  BY <1>1, <1>2, <1>3, <1>4, <1>5, <1>6, <1>7, <1>8, <1>9, <1>10, <1>11, <1>12, <1>13,
     <1>14, <1>15, <1>16, <1>17

\* A new call remembers the preference's task, or finds none to remember.
LEMMA StartCallStep ==
  ASSUME IInv, DeliveryInv, StartCall
  PROVE  IInv' /\ DeliveryInv'
<1> USE DEF IInv, DeliveryInv, StartCall, deviceVars, history
<1>1. TypeOK'
  BY MaxSessionsAssumption DEF TypeOK, Sessions, UiStates
<1>2. CallInv'
  BY MaxSessionsAssumption DEF TypeOK, CallInv, SessionInv, EnqueuedInv, Touched,
     Sessions, Live, LiveRows
<1>3. SessionInv'
  BY DEF SessionInv, Touched, TypeOK, Sessions
<1>4. EnqueuedInv'
  BY DEF EnqueuedInv, TypeOK
<1>5. ErrorInv'
  BY DEF ErrorInv, TypeOK, SessionInv, Touched
<1>6. SubscriptionInv'
  BY DEF SubscriptionInv
<1>7. ChainInv'
  BY DEF ChainInv
<1>8. ReceiverInv'
  BY DEF ReceiverInv
<1>9. ErrorMeansRemoved'
  BY DEF ErrorMeansRemoved, TypeOK, SessionInv, Touched
<1>10. NoForgottenDownload'
  BY DEF NoForgottenDownload, Live, Pending
<1>11. NextInv'
  BY DEF NextInv, TypeOK, SessionInv, Touched, Sessions, Workers
<1>12. FilesInv'
  BY DEF FilesInv, TypeOK, SessionInv, Touched, Sessions
<1>13. FileWasDownloaded'
  BY DEF FileWasDownloaded, TypeOK, SessionInv, Touched, Sessions, FilesInv
<1>14. AnnouncedInv'
  BY DEF AnnouncedInv, TypeOK
<1>15. BroadcastInv'
  BY DEF BroadcastInv, Heard, TypeOK, SessionInv, Touched, Sessions
<1>16. InitialCheckInv'
  BY MaxSessionsAssumption DEF TypeOK, InitialCheckInv, SessionInv, Touched, Sessions,
     Kinds, Workers
<1>17. CountInv'
  BY DEF CountInv, HandedOver, TypeOK, SessionInv, Touched, Sessions
<1> QED
  BY <1>1, <1>2, <1>3, <1>4, <1>5, <1>6, <1>7, <1>8, <1>9, <1>10, <1>11, <1>12, <1>13,
     <1>14, <1>15, <1>16, <1>17

\* The one step that makes a live task: its id is pending, the preference empty.
LEMMA EnqueueStep ==
  ASSUME IInv, DeliveryInv, Enqueue
  PROVE  IInv' /\ DeliveryInv'
<1> USE DEF IInv, DeliveryInv, Enqueue, history
<1>1. TypeOK'
  BY DEF TypeOK, Sessions, Rows, UiStates, CallInv
<1>2. CallInv'
  BY DEF CallInv, TypeOK, Sessions
<1>3. SessionInv'
  BY DEF SessionInv, Touched, TypeOK
<1>4. EnqueuedInv'
  BY DEF EnqueuedInv, TypeOK
<1>5. ErrorInv'
  BY DEF ErrorInv, TypeOK, SessionInv, Touched, CallInv, Sessions
<1>6. SubscriptionInv'
  BY DEF SubscriptionInv
<1>7. ChainInv'
  BY DEF ChainInv
<1>8. ReceiverInv'
  BY DEF ReceiverInv
<1>9. ErrorMeansRemoved'
  BY DEF ErrorMeansRemoved, TypeOK, SessionInv, Touched, CallInv, Sessions
<1>10. NoForgottenDownload'
  BY DEF NoForgottenDownload, Live, Pending, TypeOK, LiveRows
<1>11. NextInv'
  BY DEF NextInv, TypeOK, SessionInv, Touched, CallInv, Sessions, Workers
<1>12. FilesInv'
  BY DEF FilesInv, TypeOK
<1>13. FileWasDownloaded'
  BY DEF FileWasDownloaded, TypeOK, SessionInv, Touched, Sessions, FilesInv, CallInv
<1>14. AnnouncedInv'
  BY DEF AnnouncedInv, TypeOK, CallInv, Sessions
<1>15. BroadcastInv'
  BY DEF BroadcastInv, Heard, TypeOK, SessionInv, Touched, Sessions, CallInv
<1>16. InitialCheckInv'
  BY DEF InitialCheckInv, TypeOK
<1>17. CountInv'
  BY DEF CountInv, HandedOver, TypeOK
<1> QED
  BY <1>1, <1>2, <1>3, <1>4, <1>5, <1>6, <1>7, <1>8, <1>9, <1>10, <1>11, <1>12, <1>13,
     <1>14, <1>15, <1>16, <1>17

\* The pending id becomes the remembered one.
LEMMA SavePrefStep ==
  ASSUME IInv, DeliveryInv, SavePref
  PROVE  IInv' /\ DeliveryInv'
<1>0. cur \in Sessions /\ taskId[cur] \in {NoTask} \cup Tasks
  BY DEF IInv, TypeOK, CallInv, Sessions, SavePref
<1> USE DEF IInv, DeliveryInv, SavePref, SetPref, history
<1>1. TypeOK'
  BY <1>0 DEF TypeOK, UiStates
<1>2. CallInv'
  BY <1>0 DEF CallInv, TypeOK
<1>3. SessionInv'
  BY <1>0 DEF SessionInv, Touched
<1>4. EnqueuedInv'
  BY <1>0 DEF EnqueuedInv, TypeOK, CallInv, Sessions
<1>5. ErrorInv'
  BY <1>0 DEF ErrorInv
<1>6. SubscriptionInv'
  BY <1>0 DEF SubscriptionInv
<1>7. ChainInv'
  BY <1>0 DEF ChainInv
<1>8. ReceiverInv'
  BY <1>0 DEF ReceiverInv
<1>9. ErrorMeansRemoved'
  BY <1>0 DEF ErrorMeansRemoved
<1>10. NoForgottenDownload'
  BY <1>0 DEF NoForgottenDownload, Live, Pending, TypeOK, LiveRows, CallInv, Sessions
<1>11. NextInv'
  BY <1>0 DEF NextInv
<1>12. FilesInv'
  BY <1>0 DEF FilesInv
<1>13. FileWasDownloaded'
  BY <1>0 DEF FileWasDownloaded
<1>14. AnnouncedInv'
  BY <1>0 DEF AnnouncedInv
<1>15. BroadcastInv'
  BY <1>0 DEF BroadcastInv, Heard, TypeOK
<1>16. InitialCheckInv'
  BY <1>0 DEF InitialCheckInv
<1>17. CountInv'
  BY <1>0 DEF CountInv, HandedOver
<1> QED
  BY <1>1, <1>2, <1>3, <1>4, <1>5, <1>6, <1>7, <1>8, <1>9, <1>10, <1>11, <1>12, <1>13,
     <1>14, <1>15, <1>16, <1>17

\* The call goes on; nobody's task changes.
LEMMA RegisterReceiverStep ==
  ASSUME IInv, DeliveryInv, RegisterReceiver
  PROVE  IInv' /\ DeliveryInv'
<1> USE DEF IInv, DeliveryInv, RegisterReceiver, deviceVars, history
<1>1. TypeOK'
  BY DEF TypeOK, UiStates
<1>2. CallInv'
  BY DEF CallInv
<1>3. SessionInv'
  BY DEF SessionInv, Touched, TypeOK, CallInv
<1>4. EnqueuedInv'
  BY DEF EnqueuedInv
<1>5. ErrorInv'
  BY DEF ErrorInv
<1>6. SubscriptionInv'
  BY DEF SubscriptionInv
<1>7. ChainInv'
  BY DEF ChainInv
<1>8. ReceiverInv'
  BY DEF ReceiverInv, TypeOK, CallInv, Sessions
<1>9. ErrorMeansRemoved'
  BY DEF ErrorMeansRemoved
<1>10. NoForgottenDownload'
  BY DEF NoForgottenDownload, Live, Pending
<1>11. NextInv'
  BY DEF NextInv
<1>12. FilesInv'
  BY DEF FilesInv
<1>13. FileWasDownloaded'
  BY DEF FileWasDownloaded
<1>14. AnnouncedInv'
  BY DEF AnnouncedInv
<1>15. BroadcastInv'
  BY DEF BroadcastInv, Heard
<1>16. InitialCheckInv'
  BY DEF InitialCheckInv
<1>17. CountInv'
  BY DEF CountInv, HandedOver
<1> QED
  BY <1>1, <1>2, <1>3, <1>4, <1>5, <1>6, <1>7, <1>8, <1>9, <1>10, <1>11, <1>12, <1>13,
     <1>14, <1>15, <1>16, <1>17

\* The first check of a session knows its task.
LEMMA ScheduleCheckStep ==
  ASSUME IInv, DeliveryInv, ScheduleCheck
  PROVE  IInv' /\ DeliveryInv'
<1>0. /\ io' \in [Sessions -> [Workers -> IoSteps]]
      /\ \A r \in Sessions, v \in Workers :
           io'[r][v] = IF r = cur /\ v = "initial" THEN "query" ELSE io[r][v]
  <2>1. cur \in Sessions /\ "initial" \in Workers /\ "query" \in IoSteps /\ TypeOK
    BY DEF IInv, TypeOK, CallInv, Sessions, ScheduleCheck, IoSteps, CheckSteps, Workers,
       Kinds
  <2>2. Step(cur, "initial", "query")
    BY DEF ScheduleCheck, Step
  <2> QED
    BY <2>1, <2>2, OneWorkerMoves
<1> USE DEF IInv, DeliveryInv, ScheduleCheck, deviceVars, history
<1>1. TypeOK'
  BY <1>0 DEF TypeOK, UiStates
<1>2. CallInv'
  BY <1>0 DEF CallInv
<1>3. SessionInv'
  BY <1>0 DEF SessionInv, Touched, TypeOK, CallInv
<1>4. EnqueuedInv'
  BY <1>0 DEF EnqueuedInv
<1>5. ErrorInv'
  BY <1>0 DEF ErrorInv, TypeOK
<1>6. SubscriptionInv'
  BY <1>0 DEF SubscriptionInv, TypeOK, Kinds
<1>7. ChainInv'
  BY <1>0 DEF ChainInv, TypeOK, Delivering, Kinds, Workers
<1>8. ReceiverInv'
  BY <1>0 DEF ReceiverInv, TypeOK
<1>9. ErrorMeansRemoved'
  BY <1>0 DEF ErrorMeansRemoved
<1>10. NoForgottenDownload'
  BY <1>0 DEF NoForgottenDownload, Live, Pending
<1>11. NextInv'
  BY <1>0 DEF NextInv, TypeOK, Workers
<1>12. FilesInv'
  BY <1>0 DEF FilesInv
<1>13. FileWasDownloaded'
  BY <1>0 DEF FileWasDownloaded
<1>14. AnnouncedInv'
  BY <1>0 DEF AnnouncedInv
<1>15. BroadcastInv'
  BY <1>0 DEF BroadcastInv, Heard, TypeOK, Workers, Kinds
<1>16. InitialCheckInv'
  BY <1>0 DEF InitialCheckInv, TypeOK
<1>17. CountInv'
  BY <1>0 DEF CountInv, HandedOver, TypeOK, InitialCheckInv, Workers, Kinds
<1> QED
  BY <1>1, <1>2, <1>3, <1>4, <1>5, <1>6, <1>7, <1>8, <1>9, <1>10, <1>11, <1>12, <1>13,
     <1>14, <1>15, <1>16, <1>17

\* The subscriber that appears is the resumed activity's.
LEMMA ScheduleSubscribeStep ==
  ASSUME IInv, DeliveryInv, ScheduleSubscribe
  PROVE  IInv' /\ DeliveryInv'
<1>0. /\ io' \in [Sessions -> [Workers -> IoSteps]]
      /\ \A r \in Sessions, v \in Workers :
           io'[r][v] = IF r = cur /\ v = "subscription" THEN "subscribe" ELSE io[r][v]
  <2>1. cur \in Sessions /\ "subscription" \in Workers /\ "subscribe" \in IoSteps /\ TypeOK
    BY DEF IInv, TypeOK, CallInv, Sessions, ScheduleSubscribe, IoSteps, SubscribeSteps,
       Workers, Kinds
  <2>2. Step(cur, "subscription", "subscribe")
    BY DEF ScheduleSubscribe, Step
  <2> QED
    BY <2>1, <2>2, OneWorkerMoves
<1> USE DEF IInv, DeliveryInv, ScheduleSubscribe, deviceVars, history
<1>1. TypeOK'
  BY <1>0 DEF TypeOK, UiStates, StreamStates
<1>2. CallInv'
  BY <1>0 DEF CallInv
<1>3. SessionInv'
  BY <1>0 DEF SessionInv, Touched, TypeOK, CallInv
<1>4. EnqueuedInv'
  BY <1>0 DEF EnqueuedInv
<1>5. ErrorInv'
  BY <1>0 DEF ErrorInv, TypeOK
<1>6. SubscriptionInv'
  BY <1>0 DEF SubscriptionInv, TypeOK, Workers, Kinds
<1>7. ChainInv'
  BY <1>0 DEF ChainInv, SessionInv, SubscriptionInv, CallInv, TypeOK, Delivering, Kinds,
     Workers
<1>8. ReceiverInv'
  BY <1>0 DEF ReceiverInv, TypeOK, CallInv, Sessions
<1>9. ErrorMeansRemoved'
  BY <1>0 DEF ErrorMeansRemoved
<1>10. NoForgottenDownload'
  BY <1>0 DEF NoForgottenDownload, Live, Pending
<1>11. NextInv'
  BY <1>0 DEF NextInv, TypeOK, Workers, Kinds
<1>12. FilesInv'
  BY <1>0 DEF FilesInv, TypeOK
<1>13. FileWasDownloaded'
  BY <1>0 DEF FileWasDownloaded
<1>14. AnnouncedInv'
  BY <1>0 DEF AnnouncedInv
<1>15. BroadcastInv'
  BY <1>0 DEF BroadcastInv, Heard, TypeOK, Workers, Kinds
<1>16. InitialCheckInv'
  BY <1>0 DEF InitialCheckInv, TypeOK
<1>17. CountInv'
  BY <1>0 DEF CountInv, HandedOver, TypeOK, Workers
<1> QED
  BY <1>1, <1>2, <1>3, <1>4, <1>5, <1>6, <1>7, <1>8, <1>9, <1>10, <1>11, <1>12, <1>13,
     <1>14, <1>15, <1>16, <1>17

\* The subscriber leaves with the activity, or a second unregistering kills it.
LEMMA PauseActiveStep ==
  ASSUME IInv, DeliveryInv, PauseActive, receiver[cur]
  PROVE  IInv' /\ DeliveryInv'
<1> USE DEF IInv, DeliveryInv, PauseActive, deviceVars, history
<1>1. TypeOK'
  BY DEF TypeOK, UiStates, StreamStates
<1>2. CallInv'
  BY DEF CallInv
<1>3. SessionInv'
  BY DEF SessionInv, Touched, TypeOK
<1>4. EnqueuedInv'
  BY DEF EnqueuedInv
<1>5. ErrorInv'
  BY DEF ErrorInv
<1>6. SubscriptionInv'
  BY DEF SubscriptionInv, TypeOK
<1>7. ChainInv'
  BY DEF ChainInv
<1>8. ReceiverInv'
  BY DEF ReceiverInv, TypeOK
<1>9. ErrorMeansRemoved'
  BY DEF ErrorMeansRemoved
<1>10. NoForgottenDownload'
  BY DEF NoForgottenDownload, Live, Pending
<1>11. NextInv'
  BY DEF NextInv
<1>12. FilesInv'
  BY DEF FilesInv, TypeOK
<1>13. FileWasDownloaded'
  BY DEF FileWasDownloaded
<1>14. AnnouncedInv'
  BY DEF AnnouncedInv
<1>15. BroadcastInv'
  BY DEF BroadcastInv, Heard
<1>16. InitialCheckInv'
  BY DEF InitialCheckInv
<1>17. CountInv'
  BY DEF CountInv, HandedOver
<1> QED
  BY <1>1, <1>2, <1>3, <1>4, <1>5, <1>6, <1>7, <1>8, <1>9, <1>10, <1>11, <1>12, <1>13,
     <1>14, <1>15, <1>16, <1>17

\* A subscription that has not taken place is cancelled, unless its worker has begun.
LEMMA PauseScheduledStep ==
  ASSUME IInv, DeliveryInv, PauseScheduled
  PROVE  IInv' /\ DeliveryInv'
<1>0. /\ io' \in [Sessions -> [Workers -> IoSteps]]
      /\ \A r \in Sessions, v \in Workers :
           \/ io'[r][v] = io[r][v]
           \/ r = cur /\ v = "subscription" /\ io'[r][v] = "done"
  <2>1. cur \in Sessions /\ "subscription" \in Workers /\ "done" \in IoSteps /\ TypeOK
    <3>1. cur \in Sessions
      BY DEF IInv, TypeOK, CallInv, Sessions, PauseScheduled
    <3> QED
      BY <3>1 DEF IInv, Workers, IoSteps
  <2>2. CASE io' = [io EXCEPT ![cur]["subscription"] = "done"]
    BY <2>1, <2>2, OneWorkerMoves DEF Step
  <2>3. CASE UNCHANGED io
    BY <2>1, <2>3 DEF TypeOK
  <2> QED
    BY <2>2, <2>3 DEF PauseScheduled
<1> USE DEF IInv, DeliveryInv, PauseScheduled, deviceVars, history
<1>1. TypeOK'
  BY <1>0 DEF TypeOK, UiStates, StreamStates, IoSteps, Workers
<1>2. CallInv'
  BY <1>0 DEF CallInv
<1>3. SessionInv'
  BY <1>0 DEF SessionInv, Touched, TypeOK, CallInv
<1>4. EnqueuedInv'
  BY <1>0 DEF EnqueuedInv
<1>5. ErrorInv'
  BY <1>0 DEF ErrorInv, TypeOK
<1>6. SubscriptionInv'
  BY <1>0 DEF SubscriptionInv, TypeOK, Workers
<1>7. ChainInv'
  BY <1>0 DEF ChainInv, TypeOK, Delivering, Kinds, Workers, SubscriptionInv
<1>8. ReceiverInv'
  BY <1>0 DEF ReceiverInv, TypeOK
<1>9. ErrorMeansRemoved'
  BY <1>0 DEF ErrorMeansRemoved
<1>10. NoForgottenDownload'
  BY <1>0 DEF NoForgottenDownload, Live, Pending
<1>11. NextInv'
  BY <1>0 DEF NextInv, TypeOK, Workers, Kinds
<1>12. FilesInv'
  BY <1>0 DEF FilesInv, TypeOK
<1>13. FileWasDownloaded'
  BY <1>0 DEF FileWasDownloaded
<1>14. AnnouncedInv'
  BY <1>0 DEF AnnouncedInv
<1>15. BroadcastInv'
  BY <1>0 DEF BroadcastInv, Heard, TypeOK, Workers, Kinds
<1>16. InitialCheckInv'
  BY <1>0 DEF InitialCheckInv
<1>17. CountInv'
  BY <1>0 DEF CountInv, HandedOver, TypeOK, Workers, Kinds
<1> QED
  BY <1>1, <1>2, <1>3, <1>4, <1>5, <1>6, <1>7, <1>8, <1>9, <1>10, <1>11, <1>12, <1>13,
     <1>14, <1>15, <1>16, <1>17

\* The chain has ended by itself.
LEMMA PauseEndedStep ==
  ASSUME IInv, DeliveryInv, PauseEnded
  PROVE  IInv' /\ DeliveryInv'
<1> USE DEF IInv, DeliveryInv, PauseEnded, deviceVars, history
<1>1. TypeOK'
  BY DEF TypeOK, UiStates, StreamStates
<1>2. CallInv'
  BY DEF CallInv
<1>3. SessionInv'
  BY DEF SessionInv, Touched, TypeOK
<1>4. EnqueuedInv'
  BY DEF EnqueuedInv
<1>5. ErrorInv'
  BY DEF ErrorInv
<1>6. SubscriptionInv'
  BY DEF SubscriptionInv
<1>7. ChainInv'
  BY DEF ChainInv
<1>8. ReceiverInv'
  BY DEF ReceiverInv
<1>9. ErrorMeansRemoved'
  BY DEF ErrorMeansRemoved
<1>10. NoForgottenDownload'
  BY DEF NoForgottenDownload, Live, Pending
<1>11. NextInv'
  BY DEF NextInv
<1>12. FilesInv'
  BY DEF FilesInv
<1>13. FileWasDownloaded'
  BY DEF FileWasDownloaded
<1>14. AnnouncedInv'
  BY DEF AnnouncedInv
<1>15. BroadcastInv'
  BY DEF BroadcastInv, Heard
<1>16. InitialCheckInv'
  BY DEF InitialCheckInv
<1>17. CountInv'
  BY DEF CountInv, HandedOver
<1> QED
  BY <1>1, <1>2, <1>3, <1>4, <1>5, <1>6, <1>7, <1>8, <1>9, <1>10, <1>11, <1>12, <1>13,
     <1>14, <1>15, <1>16, <1>17

\* A broadcast starts a check of a task the session already knows.
LEMMA OnReceiveStep ==
  ASSUME NEW s \in Sessions, IInv, DeliveryInv, OnReceive(s)
  PROVE  IInv' /\ DeliveryInv'
<1> USE DEF IInv, DeliveryInv, OnReceive, deviceVars, history
<1>1. TypeOK'
  BY DEF TypeOK, Workers, Kinds, IoSteps, CheckSteps
<1>2. CallInv'
  BY DEF CallInv
<1>3. SessionInv'
  BY DEF SessionInv, Touched, TypeOK
<1>4. EnqueuedInv'
  BY DEF EnqueuedInv
<1>5. ErrorInv'
  BY DEF ErrorInv, TypeOK
<1>6. SubscriptionInv'
  BY DEF SubscriptionInv, TypeOK, Kinds
<1>7. ChainInv'
  BY DEF ChainInv, TypeOK, Delivering, Kinds, Workers
<1>8. ReceiverInv'
  BY DEF ReceiverInv, TypeOK
<1>9. ErrorMeansRemoved'
  BY DEF ErrorMeansRemoved
<1>10. NoForgottenDownload'
  BY DEF NoForgottenDownload, Live, Pending
<1>11. NextInv'
  BY DEF NextInv, TypeOK
<1>12. FilesInv'
  BY DEF FilesInv
<1>13. FileWasDownloaded'
  BY DEF FileWasDownloaded
<1>14. AnnouncedInv'
  BY DEF AnnouncedInv
<1>15. BroadcastInv'
  BY DEF BroadcastInv, Heard, TypeOK, Kinds
<1>16. InitialCheckInv'
  BY DEF InitialCheckInv, TypeOK
<1>17. CountInv'
  BY DEF CountInv, HandedOver, TypeOK, BroadcastInv, Heard, Kinds
<1> QED
  BY <1>1, <1>2, <1>3, <1>4, <1>5, <1>6, <1>7, <1>8, <1>9, <1>10, <1>11, <1>12, <1>13,
     <1>14, <1>15, <1>16, <1>17

\* No check is about to report an error right after its query.
LEMMA QueryStep ==
  ASSUME NEW s \in Sessions, NEW k \in Kinds, IInv, DeliveryInv, Query(s, k)
  PROVE  IInv' /\ DeliveryInv'
<1>0. \E next \in {"next", "done"} :
        /\ next = "next" => tasks[taskId[s]] = "successful"
        /\ io' \in [Sessions -> [Workers -> IoSteps]]
        /\ \A r \in Sessions, v \in Workers :
             io'[r][v] = IF r = s /\ v = k THEN next ELSE io[r][v]
  <2>1. PICK next \in {"next", "done"} :
           Step(s, k, next) /\ (next = "next" => tasks[taskId[s]] = "successful")
    BY DEF Query
  <2>2. TypeOK /\ next \in IoSteps /\ k \in Workers
    BY DEF IInv, IoSteps, CheckSteps, SubscribeSteps, Delivering, Workers, Kinds
  <2>3. /\ io' \in [Sessions -> [Workers -> IoSteps]]
        /\ \A r \in Sessions, v \in Workers :
             io'[r][v] = IF r = s /\ v = k THEN next ELSE io[r][v]
    BY <2>1, <2>2, OneWorkerMoves
  <2> QED
    BY <2>1, <2>3
<1> USE DEF IInv, DeliveryInv, Query, history, ioFrame, prefVars
<1>1. TypeOK'
  BY <1>0 DEF TypeOK, Workers, Kinds, StreamStates, SubjectStates, Rows
<1>2. CallInv'
  BY <1>0 DEF CallInv
<1>3. SessionInv'
  BY <1>0 DEF SessionInv, Touched, TypeOK, Workers, Kinds
<1>4. EnqueuedInv'
  BY <1>0 DEF EnqueuedInv
<1>5. ErrorInv'
  BY <1>0 DEF ErrorInv, TypeOK, Workers, Kinds
<1>6. SubscriptionInv'
  BY <1>0 DEF SubscriptionInv, TypeOK, Workers, Kinds
<1>7. ChainInv'
  BY <1>0 DEF ChainInv, TypeOK, Delivering, Kinds, Workers
<1>8. ReceiverInv'
  BY <1>0 DEF ReceiverInv, TypeOK, Workers, Kinds
<1>9. ErrorMeansRemoved'
  BY <1>0 DEF ErrorMeansRemoved
<1>10. NoForgottenDownload'
  BY <1>0 DEF NoForgottenDownload, Live, Pending
<1>11. NextInv'
  BY <1>0 DEF NextInv, TypeOK, Workers, Kinds
<1>12. FilesInv'
  BY <1>0 DEF FilesInv, TypeOK
<1>13. FileWasDownloaded'
  BY <1>0 DEF FileWasDownloaded, TypeOK
<1>14. AnnouncedInv'
  BY <1>0 DEF AnnouncedInv
<1>15. BroadcastInv'
  BY <1>0 DEF BroadcastInv, Heard, TypeOK, Workers, Kinds
<1>16. InitialCheckInv'
  BY <1>0 DEF InitialCheckInv, TypeOK, CallInv, Sessions, SessionInv, Touched, Workers,
     Kinds
<1>17. CountInv'
  BY <1>0 DEF CountInv, HandedOver, TypeOK, Workers, Kinds
<1> QED
  BY <1>1, <1>2, <1>3, <1>4, <1>5, <1>6, <1>7, <1>8, <1>9, <1>10, <1>11, <1>12, <1>13,
     <1>14, <1>15, <1>16, <1>17

\* Emitting the file touches no task and no preference.
LEMMA EmitFileStep ==
  ASSUME NEW s \in Sessions, NEW k \in Kinds, IInv, DeliveryInv, EmitFile(s, k)
  PROVE  IInv' /\ DeliveryInv'
<1>0. \E next \in {"complete"} :
        /\ io' \in [Sessions -> [Workers -> IoSteps]]
        /\ \A r \in Sessions, v \in Workers :
             io'[r][v] = IF r = s /\ v = k THEN next ELSE io[r][v]
  <2>1. PICK next \in {"complete"} : Step(s, k, next)
    BY DEF EmitFile
  <2>2. TypeOK /\ next \in IoSteps /\ k \in Workers
    BY DEF IInv, IoSteps, CheckSteps, SubscribeSteps, Delivering, Workers, Kinds
  <2>3. /\ io' \in [Sessions -> [Workers -> IoSteps]]
        /\ \A r \in Sessions, v \in Workers :
             io'[r][v] = IF r = s /\ v = k THEN next ELSE io[r][v]
    BY <2>1, <2>2, OneWorkerMoves
  <2> QED
    BY <2>1, <2>3
<1> USE DEF IInv, DeliveryInv, EmitFile, history, ioFrame, prefVars
<1>1. TypeOK'
  BY <1>0 DEF TypeOK, Workers, Kinds, StreamStates, SubjectStates, Rows
<1>2. CallInv'
  BY <1>0 DEF CallInv
<1>3. SessionInv'
  BY <1>0 DEF SessionInv, Touched, TypeOK, Workers, Kinds
<1>4. EnqueuedInv'
  BY <1>0 DEF EnqueuedInv
<1>5. ErrorInv'
  BY <1>0 DEF ErrorInv, TypeOK, Workers, Kinds
<1>6. SubscriptionInv'
  BY <1>0 DEF SubscriptionInv, TypeOK, Workers, Kinds
<1>7. ChainInv'
  BY <1>0 DEF ChainInv, TypeOK, Delivering, Kinds, Workers
<1>8. ReceiverInv'
  BY <1>0 DEF ReceiverInv, TypeOK, Workers, Kinds
<1>9. ErrorMeansRemoved'
  BY <1>0 DEF ErrorMeansRemoved
<1>10. NoForgottenDownload'
  BY <1>0 DEF NoForgottenDownload, Live, Pending
<1>11. NextInv'
  BY <1>0 DEF NextInv, TypeOK, Workers, Kinds
<1>12. FilesInv'
  BY <1>0 DEF FilesInv, TypeOK, Linked
<1>13. FileWasDownloaded'
  BY <1>0 DEF FileWasDownloaded, TypeOK, NextInv
<1>14. AnnouncedInv'
  BY <1>0 DEF AnnouncedInv
<1>15. BroadcastInv'
  BY <1>0 DEF BroadcastInv, Heard, TypeOK, Workers, Kinds
<1>16. InitialCheckInv'
  BY <1>0 DEF InitialCheckInv, TypeOK, CallInv, Sessions, SessionInv, Touched, Workers,
     Kinds
<1>17. CountInv'
  BY <1>0 DEF CountInv, HandedOver, TypeOK, Workers, Kinds
<1> QED
  BY <1>1, <1>2, <1>3, <1>4, <1>5, <1>6, <1>7, <1>8, <1>9, <1>10, <1>11, <1>12, <1>13,
     <1>14, <1>15, <1>16, <1>17

\* A completion tells the chain that the subject holds, and forgets nothing.
LEMMA EmitCompleteStep ==
  ASSUME NEW s \in Sessions, NEW k \in Kinds, IInv, DeliveryInv, EmitComplete(s, k)
  PROVE  IInv' /\ DeliveryInv'
<1>0. \E next \in {"unregister", "done"} :
        /\ next = "unregister" => Linked(s)
        /\ io' \in [Sessions -> [Workers -> IoSteps]]
        /\ \A r \in Sessions, v \in Workers :
             io'[r][v] = IF r = s /\ v = k THEN next ELSE io[r][v]
  <2>1. PICK next \in {"unregister", "done"} :
           Step(s, k, next) /\ (next = "unregister" => Linked(s))
    BY DEF EmitComplete
  <2>2. TypeOK /\ next \in IoSteps /\ k \in Workers
    BY DEF IInv, IoSteps, CheckSteps, SubscribeSteps, Delivering, Workers, Kinds
  <2>3. /\ io' \in [Sessions -> [Workers -> IoSteps]]
        /\ \A r \in Sessions, v \in Workers :
             io'[r][v] = IF r = s /\ v = k THEN next ELSE io[r][v]
    BY <2>1, <2>2, OneWorkerMoves
  <2> QED
    BY <2>1, <2>3
<1> USE DEF IInv, DeliveryInv, EmitComplete, history, ioFrame, prefVars
<1>1. TypeOK'
  BY <1>0 DEF TypeOK, Workers, Kinds, StreamStates, SubjectStates, Rows
<1>2. CallInv'
  BY <1>0 DEF CallInv
<1>3. SessionInv'
  BY <1>0 DEF SessionInv, Touched, TypeOK, Workers, Kinds
<1>4. EnqueuedInv'
  BY <1>0 DEF EnqueuedInv
<1>5. ErrorInv'
  BY <1>0 DEF ErrorInv, TypeOK, Workers, Kinds
<1>6. SubscriptionInv'
  BY <1>0 DEF SubscriptionInv, TypeOK, Workers, Kinds
<1>7. ChainInv'
  BY <1>0 DEF ChainInv, TypeOK, Delivering, Kinds, Workers, Linked, SubjectStates
<1>8. ReceiverInv'
  BY <1>0 DEF ReceiverInv, TypeOK, Workers, Kinds
<1>9. ErrorMeansRemoved'
  BY <1>0 DEF ErrorMeansRemoved, TypeOK
<1>10. NoForgottenDownload'
  BY <1>0 DEF NoForgottenDownload, Live, Pending
<1>11. NextInv'
  BY <1>0 DEF NextInv, TypeOK, Workers, Kinds
<1>12. FilesInv'
  BY <1>0 DEF FilesInv, TypeOK
<1>13. FileWasDownloaded'
  BY <1>0 DEF FileWasDownloaded, TypeOK
<1>14. AnnouncedInv'
  BY <1>0 DEF AnnouncedInv
<1>15. BroadcastInv'
  BY <1>0 DEF BroadcastInv, Heard, TypeOK, Workers, Kinds
<1>16. InitialCheckInv'
  BY <1>0 DEF InitialCheckInv, TypeOK, CallInv, Sessions, SessionInv, Touched, Workers,
     Kinds
<1>17. CountInv'
  BY <1>0 DEF CountInv, HandedOver, TypeOK, Workers, Kinds
<1> QED
  BY <1>1, <1>2, <1>3, <1>4, <1>5, <1>6, <1>7, <1>8, <1>9, <1>10, <1>11, <1>12, <1>13,
     <1>14, <1>15, <1>16, <1>17

\* The task is removed before the error is reported.
LEMMA RemoveTaskStep ==
  ASSUME NEW s \in Sessions, NEW k \in Kinds, IInv, DeliveryInv, RemoveTask(s, k)
  PROVE  IInv' /\ DeliveryInv'
<1>0. \E next \in {"error"} :
        /\ io' \in [Sessions -> [Workers -> IoSteps]]
        /\ \A r \in Sessions, v \in Workers :
             io'[r][v] = IF r = s /\ v = k THEN next ELSE io[r][v]
  <2>1. PICK next \in {"error"} : Step(s, k, next)
    BY DEF RemoveTask
  <2>2. TypeOK /\ next \in IoSteps /\ k \in Workers
    BY DEF IInv, IoSteps, CheckSteps, SubscribeSteps, Delivering, Workers, Kinds
  <2>3. /\ io' \in [Sessions -> [Workers -> IoSteps]]
        /\ \A r \in Sessions, v \in Workers :
             io'[r][v] = IF r = s /\ v = k THEN next ELSE io[r][v]
    BY <2>1, <2>2, OneWorkerMoves
  <2> QED
    BY <2>1, <2>3
<1>a. /\ taskId[s] \in Tasks /\ s <= cur /\ (s = cur => ui \notin {"enqueue", "save"})
      /\ tasks[taskId[s]] # "none" /\ tasks' \in [Tasks -> Rows]
      /\ \A t \in Tasks : tasks'[t] = IF t = taskId[s] THEN "removed" ELSE tasks[t]
  <2>1. k \in Workers /\ io[s][k] # "none"
    BY DEF RemoveTask, Workers
  <2>2. taskId[s] \in Tasks /\ s <= cur /\ (s = cur => ui \notin {"enqueue", "save"})
    BY <2>1 DEF IInv, SessionInv, Touched, TypeOK
  <2>3. tasks[taskId[s]] # "none"
    BY <2>2 DEF IInv, EnqueuedInv, Sessions
  <2>4. tasks' = [tasks EXCEPT ![taskId[s]] = "removed"] /\ tasks \in [Tasks -> Rows]
    BY DEF IInv, TypeOK, RemoveTask
  <2>5. /\ tasks' \in [Tasks -> Rows]
        /\ \A t \in Tasks : tasks'[t] = IF t = taskId[s] THEN "removed" ELSE tasks[t]
    BY <2>2, <2>4 DEF Rows
  <2> QED
    BY <2>2, <2>3, <2>5
<1> USE DEF IInv, DeliveryInv, RemoveTask, history, ioFrame, prefVars
<1>1. TypeOK'
  BY <1>0, <1>a DEF TypeOK, Workers, Kinds, StreamStates, SubjectStates, Rows
<1>2. CallInv'
  BY <1>0, <1>a DEF CallInv, TypeOK, EnqueuedInv
<1>3. SessionInv'
  BY <1>0, <1>a DEF SessionInv, Touched, TypeOK, EnqueuedInv, Kinds, Workers
<1>4. EnqueuedInv'
  BY <1>0, <1>a DEF EnqueuedInv, TypeOK
<1>5. ErrorInv'
  BY <1>0, <1>a DEF ErrorInv, TypeOK, Kinds, Workers
<1>6. SubscriptionInv'
  BY <1>0, <1>a DEF SubscriptionInv, TypeOK, Workers, Kinds
<1>7. ChainInv'
  BY <1>0, <1>a DEF ChainInv, TypeOK, Delivering, Kinds, Workers
<1>8. ReceiverInv'
  BY <1>0, <1>a DEF ReceiverInv, TypeOK, Workers, Kinds
<1>9. ErrorMeansRemoved'
  BY <1>0, <1>a DEF ErrorMeansRemoved, TypeOK
<1>10. NoForgottenDownload'
  BY <1>0, <1>a DEF NoForgottenDownload, Live, Pending, TypeOK, LiveRows
<1>11. NextInv'
  BY <1>0, <1>a DEF NextInv, TypeOK, Workers, Kinds
<1>12. FilesInv'
  BY <1>0, <1>a DEF FilesInv, TypeOK
<1>13. FileWasDownloaded'
  BY <1>0, <1>a DEF FileWasDownloaded, TypeOK
<1>14. AnnouncedInv'
  BY <1>0, <1>a DEF AnnouncedInv, TypeOK
<1>15. BroadcastInv'
  BY <1>0, <1>a DEF BroadcastInv, Heard, TypeOK, Workers, Kinds
<1>16. InitialCheckInv'
  BY <1>0, <1>a DEF InitialCheckInv, TypeOK, CallInv, Sessions, SessionInv, Touched,
     Workers, Kinds
<1>17. CountInv'
  BY <1>0, <1>a DEF CountInv, HandedOver, TypeOK, Workers, Kinds
<1> QED
  BY <1>1, <1>2, <1>3, <1>4, <1>5, <1>6, <1>7, <1>8, <1>9, <1>10, <1>11, <1>12, <1>13,
     <1>14, <1>15, <1>16, <1>17

\* The error of a removed task goes down the chain that the subject holds.
LEMMA EmitErrorStep ==
  ASSUME NEW s \in Sessions, NEW k \in Kinds, IInv, DeliveryInv, EmitError(s, k),
         subject[s] = "active"
  PROVE  IInv' /\ DeliveryInv'
<1>0. \E next \in {"forget", "done"} :
        /\ next = "forget" => Linked(s)
        /\ io' \in [Sessions -> [Workers -> IoSteps]]
        /\ \A r \in Sessions, v \in Workers :
             io'[r][v] = IF r = s /\ v = k THEN next ELSE io[r][v]
  <2>1. PICK next \in {"forget", "done"} :
           Step(s, k, next) /\ (next = "forget" => Linked(s))
    BY DEF EmitError
  <2>2. TypeOK /\ next \in IoSteps /\ k \in Workers
    BY DEF IInv, IoSteps, CheckSteps, SubscribeSteps, Delivering, Workers, Kinds
  <2>3. /\ io' \in [Sessions -> [Workers -> IoSteps]]
        /\ \A r \in Sessions, v \in Workers :
             io'[r][v] = IF r = s /\ v = k THEN next ELSE io[r][v]
    BY <2>1, <2>2, OneWorkerMoves
  <2> QED
    BY <2>1, <2>3
<1> USE DEF IInv, DeliveryInv, EmitError, history, ioFrame, prefVars
<1>1. TypeOK'
  BY <1>0 DEF TypeOK, Workers, Kinds, StreamStates, SubjectStates, Rows
<1>2. CallInv'
  BY <1>0 DEF CallInv
<1>3. SessionInv'
  BY <1>0 DEF SessionInv, Touched, TypeOK, Workers, Kinds
<1>4. EnqueuedInv'
  BY <1>0 DEF EnqueuedInv
<1>5. ErrorInv'
  BY <1>0 DEF ErrorInv, TypeOK, Workers, Kinds
<1>6. SubscriptionInv'
  BY <1>0 DEF SubscriptionInv, TypeOK, Workers, Kinds
<1>7. ChainInv'
  BY <1>0 DEF ChainInv, TypeOK, Delivering, Kinds, Workers, Linked, SubjectStates
<1>8. ReceiverInv'
  BY <1>0 DEF ReceiverInv, TypeOK, Workers, Kinds
<1>9. ErrorMeansRemoved'
  BY <1>0 DEF ErrorMeansRemoved, TypeOK, ErrorInv, Workers, Kinds
<1>10. NoForgottenDownload'
  BY <1>0 DEF NoForgottenDownload, Live, Pending
<1>11. NextInv'
  BY <1>0 DEF NextInv, TypeOK, Workers, Kinds
<1>12. FilesInv'
  BY <1>0 DEF FilesInv, TypeOK
<1>13. FileWasDownloaded'
  BY <1>0 DEF FileWasDownloaded, TypeOK
<1>14. AnnouncedInv'
  BY <1>0 DEF AnnouncedInv
<1>15. BroadcastInv'
  BY <1>0 DEF BroadcastInv, Heard, TypeOK, Workers, Kinds
<1>16. InitialCheckInv'
  BY <1>0 DEF InitialCheckInv, TypeOK, CallInv, Sessions, SessionInv, Touched, Workers,
     Kinds
<1>17. CountInv'
  BY <1>0 DEF CountInv, HandedOver, TypeOK, Workers, Kinds
<1> QED
  BY <1>1, <1>2, <1>3, <1>4, <1>5, <1>6, <1>7, <1>8, <1>9, <1>10, <1>11, <1>12, <1>13,
     <1>14, <1>15, <1>16, <1>17

\* The chain is there; one that a pause has overtaken loses its receiver.
LEMMA SubscribeStep ==
  ASSUME NEW s \in Sessions, IInv, DeliveryInv, Subscribe(s)
  PROVE  IInv' /\ DeliveryInv'
<1>0. \E next \in {"add"} :
        /\ io' \in [Sessions -> [Workers -> IoSteps]]
        /\ \A r \in Sessions, v \in Workers :
             io'[r][v] = IF r = s /\ v = "subscription" THEN next ELSE io[r][v]
  <2>1. PICK next \in {"add"} : Step(s, "subscription", next)
    BY DEF Subscribe
  <2>2. TypeOK /\ next \in IoSteps /\ "subscription" \in Workers
    BY DEF IInv, IoSteps, CheckSteps, SubscribeSteps, Delivering, Workers, Kinds
  <2>3. /\ io' \in [Sessions -> [Workers -> IoSteps]]
        /\ \A r \in Sessions, v \in Workers :
             io'[r][v] = IF r = s /\ v = "subscription" THEN next ELSE io[r][v]
    BY <2>1, <2>2, OneWorkerMoves
  <2> QED
    BY <2>1, <2>3
<1>a. /\ stream' \in [Sessions -> StreamStates] /\ receiver' \in [Sessions -> BOOLEAN]
      /\ \A r \in Sessions : stream'[r] =
           IF r = s /\ stream[s] = "scheduled" THEN "active" ELSE stream[r]
      /\ \A r \in Sessions : receiver'[r] =
           IF r = s /\ stream[s] # "scheduled" THEN FALSE ELSE receiver[r]
  BY DEF Subscribe, IInv, TypeOK, StreamStates
<1> USE DEF IInv, DeliveryInv, Subscribe, history, ioFrame, prefVars
<1>1. TypeOK'
  BY <1>0, <1>a DEF TypeOK, Workers, Kinds, StreamStates, SubjectStates, Rows
<1>2. CallInv'
  BY <1>0, <1>a DEF CallInv
<1>3. SessionInv'
  BY <1>0, <1>a DEF SessionInv, Touched, TypeOK, SubscriptionInv, Workers, Kinds
<1>4. EnqueuedInv'
  BY <1>0, <1>a DEF EnqueuedInv
<1>5. ErrorInv'
  BY <1>0, <1>a DEF ErrorInv, TypeOK, Workers, Kinds
<1>6. SubscriptionInv'
  BY <1>0, <1>a DEF SubscriptionInv, TypeOK, Workers, Kinds
<1>7. ChainInv'
  BY <1>0, <1>a DEF ChainInv, TypeOK, Delivering, Kinds, Workers
<1>8. ReceiverInv'
  <2>1. ui \in {"check", "subscribe"} => receiver'[cur]
    <3>1. s = cur => ui \in {"idle", "resumed"}
      BY DEF Subscribe, SessionInv, SubscriptionInv
    <3> QED
      BY <1>a, <3>1 DEF ReceiverInv, TypeOK, CallInv, Sessions, ioFrame
  <2>2. ASSUME NEW r \in Sessions, stream'[r] \in {"scheduled", "active"}, ~receiver'[r]
        PROVE  stream'[r] = "active" /\ \E v \in Workers : io'[r][v] = "completed"
    <3>1. r # s \/ stream[s] # "scheduled"
      BY <1>a, <2>2 DEF ReceiverInv
    <3>2. stream'[r] = stream[r] /\ (r # s => receiver'[r] = receiver[r])
      BY <1>a, <3>1
    <3>3. r # s
      BY <2>2, <3>1, <3>2 DEF SubscriptionInv, Subscribe
    <3> QED
      BY <1>0, <2>2, <3>2, <3>3 DEF ReceiverInv
  <2> QED
    BY <2>1, <2>2 DEF ReceiverInv, ioFrame
<1>9. ErrorMeansRemoved'
  BY <1>0, <1>a DEF ErrorMeansRemoved
<1>10. NoForgottenDownload'
  BY <1>0, <1>a DEF NoForgottenDownload, Live, Pending
<1>11. NextInv'
  BY <1>0, <1>a DEF NextInv, TypeOK, Workers, Kinds
<1>12. FilesInv'
  BY <1>0, <1>a DEF FilesInv, TypeOK
<1>13. FileWasDownloaded'
  BY <1>0, <1>a DEF FileWasDownloaded, TypeOK
<1>14. AnnouncedInv'
  BY <1>0, <1>a DEF AnnouncedInv
<1>15. BroadcastInv'
  BY <1>0, <1>a DEF BroadcastInv, Heard, TypeOK, Workers, Kinds
<1>16. InitialCheckInv'
  BY <1>0, <1>a DEF InitialCheckInv, TypeOK, CallInv, Sessions, SessionInv, Touched,
     Workers, Kinds
<1>17. CountInv'
  BY <1>0, <1>a DEF CountInv, HandedOver, TypeOK, Workers, Kinds
<1> QED
  BY <1>1, <1>2, <1>3, <1>4, <1>5, <1>6, <1>7, <1>8, <1>9, <1>10, <1>11, <1>12, <1>13,
     <1>14, <1>15, <1>16, <1>17

\* A terminated subject replays its end to the chain.
LEMMA AddSubscriberStep ==
  ASSUME NEW s \in Sessions, IInv, DeliveryInv, AddSubscriber(s)
  PROVE  IInv' /\ DeliveryInv'
<1>0. \E next \in {"done", "unregister", "forget"} :
        /\ next = "forget" => subject[s] = "errored"
        /\ next # "done" => subject[s] # "active"
        /\ io' \in [Sessions -> [Workers -> IoSteps]]
        /\ \A r \in Sessions, v \in Workers :
             io'[r][v] = IF r = s /\ v = "subscription" THEN next ELSE io[r][v]
  <2>1. PICK next \in {"done", "unregister", "forget"} :
           Step(s, "subscription", next) /\ (next = "forget" => subject[s] = "errored")
           /\ (next # "done" => subject[s] # "active")
    BY DEF AddSubscriber, IInv, TypeOK, SubjectStates
  <2>2. TypeOK /\ next \in IoSteps /\ "subscription" \in Workers
    BY DEF IInv, IoSteps, CheckSteps, SubscribeSteps, Delivering, Workers, Kinds
  <2>3. /\ io' \in [Sessions -> [Workers -> IoSteps]]
        /\ \A r \in Sessions, v \in Workers :
             io'[r][v] = IF r = s /\ v = "subscription" THEN next ELSE io[r][v]
    BY <2>1, <2>2, OneWorkerMoves
  <2> QED
    BY <2>1, <2>3
<1> USE DEF IInv, DeliveryInv, AddSubscriber, history, ioFrame, prefVars
<1>1. TypeOK'
  BY <1>0 DEF TypeOK, Workers, Kinds, StreamStates, SubjectStates, Rows
<1>2. CallInv'
  BY <1>0 DEF CallInv
<1>3. SessionInv'
  BY <1>0 DEF SessionInv, Touched, TypeOK, Workers, Kinds
<1>4. EnqueuedInv'
  BY <1>0 DEF EnqueuedInv
<1>5. ErrorInv'
  BY <1>0 DEF ErrorInv, TypeOK, ErrorMeansRemoved, Workers, Kinds
<1>6. SubscriptionInv'
  BY <1>0 DEF SubscriptionInv, TypeOK, Workers, Kinds
<1>7. ChainInv'
  BY <1>0 DEF ChainInv, TypeOK, Delivering, Kinds, Workers, Linked, SubjectStates,
     SubscriptionInv
<1>8. ReceiverInv'
  BY <1>0 DEF ReceiverInv, TypeOK, Workers, Kinds
<1>9. ErrorMeansRemoved'
  BY <1>0 DEF ErrorMeansRemoved
<1>10. NoForgottenDownload'
  BY <1>0 DEF NoForgottenDownload, Live, Pending
<1>11. NextInv'
  BY <1>0 DEF NextInv, TypeOK, Workers, Kinds
<1>12. FilesInv'
  BY <1>0 DEF FilesInv, TypeOK
<1>13. FileWasDownloaded'
  BY <1>0 DEF FileWasDownloaded, TypeOK
<1>14. AnnouncedInv'
  BY <1>0 DEF AnnouncedInv
<1>15. BroadcastInv'
  BY <1>0 DEF BroadcastInv, Heard, TypeOK, Workers, Kinds
<1>16. InitialCheckInv'
  BY <1>0 DEF InitialCheckInv, TypeOK, CallInv, Sessions, SessionInv, Touched, Workers,
     Kinds
<1>17. CountInv'
  BY <1>0 DEF CountInv, HandedOver, TypeOK, Workers, Kinds
<1> QED
  BY <1>1, <1>2, <1>3, <1>4, <1>5, <1>6, <1>7, <1>8, <1>9, <1>10, <1>11, <1>12, <1>13,
     <1>14, <1>15, <1>16, <1>17

\* A disposed chain is not told.
LEMMA SkipDisposedStep ==
  ASSUME NEW s \in Sessions, NEW w \in Workers, IInv, DeliveryInv, SkipDisposed(s, w),
         io[s][w] = "unregister"
  PROVE  IInv' /\ DeliveryInv'
<1>0. \E next \in {"done"} :
        /\ io' \in [Sessions -> [Workers -> IoSteps]]
        /\ \A r \in Sessions, v \in Workers :
             io'[r][v] = IF r = s /\ v = w THEN next ELSE io[r][v]
  <2>1. PICK next \in {"done"} : Step(s, w, next)
    BY DEF SkipDisposed
  <2>2. TypeOK /\ next \in IoSteps /\ w \in Workers
    BY DEF IInv, IoSteps, CheckSteps, SubscribeSteps, Delivering, Workers, Kinds
  <2>3. /\ io' \in [Sessions -> [Workers -> IoSteps]]
        /\ \A r \in Sessions, v \in Workers :
             io'[r][v] = IF r = s /\ v = w THEN next ELSE io[r][v]
    BY <2>1, <2>2, OneWorkerMoves
  <2> QED
    BY <2>1, <2>3
<1> USE DEF IInv, DeliveryInv, SkipDisposed, history, ioFrame, prefVars
<1>1. TypeOK'
  BY <1>0 DEF TypeOK, Workers, Kinds, StreamStates, SubjectStates, Rows
<1>2. CallInv'
  BY <1>0 DEF CallInv
<1>3. SessionInv'
  BY <1>0 DEF SessionInv, Touched, TypeOK, Workers, Kinds
<1>4. EnqueuedInv'
  BY <1>0 DEF EnqueuedInv
<1>5. ErrorInv'
  BY <1>0 DEF ErrorInv, TypeOK, Workers, Kinds
<1>6. SubscriptionInv'
  BY <1>0 DEF SubscriptionInv, TypeOK, Workers, Kinds
<1>7. ChainInv'
  BY <1>0 DEF ChainInv, TypeOK, Delivering, Kinds, Workers
<1>8. ReceiverInv'
  BY <1>0 DEF ReceiverInv, TypeOK, Workers, Kinds
<1>9. ErrorMeansRemoved'
  BY <1>0 DEF ErrorMeansRemoved
<1>10. NoForgottenDownload'
  BY <1>0 DEF NoForgottenDownload, Live, Pending
<1>11. NextInv'
  BY <1>0 DEF NextInv, TypeOK, Workers, Kinds
<1>12. FilesInv'
  BY <1>0 DEF FilesInv, TypeOK
<1>13. FileWasDownloaded'
  BY <1>0 DEF FileWasDownloaded, TypeOK
<1>14. AnnouncedInv'
  BY <1>0 DEF AnnouncedInv
<1>15. BroadcastInv'
  BY <1>0 DEF BroadcastInv, Heard, TypeOK, Workers, Kinds
<1>16. InitialCheckInv'
  BY <1>0 DEF InitialCheckInv, TypeOK, CallInv, Sessions, SessionInv, Touched, Workers,
     Kinds
<1>17. CountInv'
  BY <1>0 DEF CountInv, HandedOver, TypeOK, Workers, Kinds
<1> QED
  BY <1>1, <1>2, <1>3, <1>4, <1>5, <1>6, <1>7, <1>8, <1>9, <1>10, <1>11, <1>12, <1>13,
     <1>14, <1>15, <1>16, <1>17

\* Only a chain that was disposed finds its receiver unregistered.
LEMMA DoOnCompleteStep ==
  ASSUME NEW s \in Sessions, NEW w \in Workers, IInv, DeliveryInv, DoOnComplete(s, w)
  PROVE  IInv' /\ DeliveryInv'
<1>0. \E next \in {"completed", "failed"} :
        /\ io' \in [Sessions -> [Workers -> IoSteps]]
        /\ \A r \in Sessions, v \in Workers :
             io'[r][v] = IF r = s /\ v = w THEN next ELSE io[r][v]
  <2>1. PICK next \in {"completed", "failed"} : Step(s, w, next)
    BY DEF DoOnComplete
  <2>2. TypeOK /\ next \in IoSteps /\ w \in Workers
    BY DEF IInv, IoSteps, CheckSteps, SubscribeSteps, Delivering, Workers, Kinds
  <2>3. /\ io' \in [Sessions -> [Workers -> IoSteps]]
        /\ \A r \in Sessions, v \in Workers :
             io'[r][v] = IF r = s /\ v = w THEN next ELSE io[r][v]
    BY <2>1, <2>2, OneWorkerMoves
  <2> QED
    BY <2>1, <2>3
<1> USE DEF IInv, DeliveryInv, DoOnComplete, deliverFrame, prefVars
<1>1. TypeOK'
  BY <1>0 DEF TypeOK, Workers, Kinds, SetPref, Forget, Live
<1>2. CallInv'
  BY <1>0 DEF CallInv, Forget, SetPref
<1>3. SessionInv'
  BY <1>0 DEF SessionInv, Touched, TypeOK, Workers, Kinds
<1>4. EnqueuedInv'
  BY <1>0 DEF EnqueuedInv, Forget, SetPref
<1>5. ErrorInv'
  BY <1>0 DEF ErrorInv, TypeOK, Workers, Kinds
<1>6. SubscriptionInv'
  BY <1>0 DEF SubscriptionInv, TypeOK, Workers, Kinds
<1>7. ChainInv'
  BY <1>0 DEF ChainInv, TypeOK, Delivering, Kinds, Workers
<1>8. ReceiverInv'
  <2>1. ui \in {"check", "subscribe"} => receiver'[cur]
    <3>1. s = cur => ui \in {"idle", "resumed"}
      BY DEF DoOnComplete, SessionInv, SubscriptionInv, ChainInv, Delivering, Workers
    <3>2. \A r \in Sessions : r # s => receiver'[r] = receiver[r]
      BY DEF TypeOK
    <3>3. ui \in {"check", "subscribe"} => receiver[cur] /\ cur \in Sessions
      BY DEF ReceiverInv, TypeOK, CallInv, Sessions
    <3> QED
      BY <3>1, <3>2, <3>3 DEF ReceiverInv, TypeOK, CallInv, Sessions
  <2>2. ASSUME NEW r \in Sessions, stream'[r] \in {"scheduled", "active"}, ~receiver'[r]
        PROVE  stream'[r] = "active" /\ \E v \in Workers : io'[r][v] = "completed"
    <3>1. CASE r = s /\ receiver[s]
      <4>1. io'[s][w] = "completed"
        BY <3>1 DEF Step, TypeOK
      <4>2. stream[s] # "scheduled"
        BY DEF SubscriptionInv, ChainInv, Delivering, Workers
      <4> QED
        BY <2>2, <3>1, <4>1, <4>2
    <3>2. CASE r = s /\ ~receiver[s]
      BY <2>2, <3>2 DEF ReceiverInv, ChainInv, Delivering
    <3>3. CASE r # s
      BY <1>0, <2>2, <3>3 DEF ReceiverInv, TypeOK
    <3> QED
      BY <3>1, <3>2, <3>3
  <2> QED
    BY <2>1, <2>2 DEF ReceiverInv
<1>9. ErrorMeansRemoved'
  BY <1>0 DEF ErrorMeansRemoved
<1>10. NoForgottenDownload'
  BY <1>0 DEF NoForgottenDownload, Live, Pending, TypeOK, Forget, SetPref, ReceiverInv,
     ChainInv, Delivering, SessionInv, Touched, CallInv, SubscriptionInv, Workers, Kinds,
     LiveRows
<1>11. NextInv'
  BY <1>0 DEF NextInv, TypeOK, Workers, Kinds
<1>12. FilesInv'
  BY <1>0 DEF FilesInv, TypeOK
<1>13. FileWasDownloaded'
  BY <1>0 DEF FileWasDownloaded, TypeOK
<1>14. AnnouncedInv'
  BY <1>0 DEF AnnouncedInv
<1>15. BroadcastInv'
  BY <1>0 DEF BroadcastInv, Heard, TypeOK, Workers, Kinds
<1>16. InitialCheckInv'
  BY <1>0 DEF InitialCheckInv, TypeOK, CallInv, Sessions, SessionInv, Touched, Workers,
     Kinds
<1>17. CountInv'
  BY <1>0 DEF CountInv, HandedOver, TypeOK, Workers, Kinds
<1> QED
  BY <1>1, <1>2, <1>3, <1>4, <1>5, <1>6, <1>7, <1>8, <1>9, <1>10, <1>11, <1>12, <1>13,
     <1>14, <1>15, <1>16, <1>17

\* A live chain forgets the id of a task that was removed.
LEMMA DoOnErrorStep ==
  ASSUME NEW s \in Sessions, NEW w \in Workers, IInv, DeliveryInv, DoOnError(s, w)
  PROVE  IInv' /\ DeliveryInv'
<1>0. \E next \in {"failed"} :
        /\ io' \in [Sessions -> [Workers -> IoSteps]]
        /\ \A r \in Sessions, v \in Workers :
             io'[r][v] = IF r = s /\ v = w THEN next ELSE io[r][v]
  <2>1. PICK next \in {"failed"} : Step(s, w, next)
    BY DEF DoOnError
  <2>2. TypeOK /\ next \in IoSteps /\ w \in Workers
    BY DEF IInv, IoSteps, CheckSteps, SubscribeSteps, Delivering, Workers, Kinds
  <2>3. /\ io' \in [Sessions -> [Workers -> IoSteps]]
        /\ \A r \in Sessions, v \in Workers :
             io'[r][v] = IF r = s /\ v = w THEN next ELSE io[r][v]
    BY <2>1, <2>2, OneWorkerMoves
  <2> QED
    BY <2>1, <2>3
<1> USE DEF IInv, DeliveryInv, DoOnError, deliverFrame, prefVars
<1>1. TypeOK'
  BY <1>0 DEF TypeOK, Workers, Kinds, SetPref, Forget, Live
<1>2. CallInv'
  BY <1>0 DEF CallInv, Forget, SetPref
<1>3. SessionInv'
  BY <1>0 DEF SessionInv, Touched, TypeOK, Workers, Kinds
<1>4. EnqueuedInv'
  BY <1>0 DEF EnqueuedInv, Forget, SetPref
<1>5. ErrorInv'
  BY <1>0 DEF ErrorInv, TypeOK, Workers, Kinds
<1>6. SubscriptionInv'
  BY <1>0 DEF SubscriptionInv, TypeOK, Workers, Kinds
<1>7. ChainInv'
  BY <1>0 DEF ChainInv, TypeOK, Delivering, Kinds, Workers
<1>8. ReceiverInv'
  BY <1>0 DEF ReceiverInv, TypeOK, Workers, Kinds
<1>9. ErrorMeansRemoved'
  BY <1>0 DEF ErrorMeansRemoved
<1>10. NoForgottenDownload'
  BY <1>0 DEF NoForgottenDownload, Live, Pending, TypeOK, Forget, SetPref, ErrorInv,
     SessionInv, Touched, CallInv, SubscriptionInv, Workers, Kinds, LiveRows
<1>11. NextInv'
  BY <1>0 DEF NextInv, TypeOK, Workers, Kinds
<1>12. FilesInv'
  BY <1>0 DEF FilesInv, TypeOK
<1>13. FileWasDownloaded'
  BY <1>0 DEF FileWasDownloaded, TypeOK
<1>14. AnnouncedInv'
  BY <1>0 DEF AnnouncedInv
<1>15. BroadcastInv'
  BY <1>0 DEF BroadcastInv, Heard, TypeOK, Workers, Kinds
<1>16. InitialCheckInv'
  BY <1>0 DEF InitialCheckInv, TypeOK, CallInv, Sessions, SessionInv, Touched, Workers,
     Kinds
<1>17. CountInv'
  BY <1>0 DEF CountInv, HandedOver, TypeOK, Workers, Kinds
<1> QED
  BY <1>1, <1>2, <1>3, <1>4, <1>5, <1>6, <1>7, <1>8, <1>9, <1>10, <1>11, <1>12, <1>13,
     <1>14, <1>15, <1>16, <1>17

\* The event reaches the end of the chain.
LEMMA ArriveStep ==
  ASSUME NEW s \in Sessions, NEW w \in Workers, IInv, DeliveryInv, Arrive(s, w),
         ~(stream[s] # "active" /\ io[s][w] = "failed")
  PROVE  IInv' /\ DeliveryInv'
<1>0. \E next \in {"done"} :
        /\ io' \in [Sessions -> [Workers -> IoSteps]]
        /\ \A r \in Sessions, v \in Workers :
             io'[r][v] = IF r = s /\ v = w THEN next ELSE io[r][v]
  <2>1. PICK next \in {"done"} : Step(s, w, next)
    BY DEF Arrive
  <2>2. TypeOK /\ next \in IoSteps /\ w \in Workers
    BY DEF IInv, IoSteps, CheckSteps, SubscribeSteps, Delivering, Workers, Kinds
  <2>3. /\ io' \in [Sessions -> [Workers -> IoSteps]]
        /\ \A r \in Sessions, v \in Workers :
             io'[r][v] = IF r = s /\ v = w THEN next ELSE io[r][v]
    BY <2>1, <2>2, OneWorkerMoves
  <2> QED
    BY <2>1, <2>3
<1>a. /\ stream' \in [Sessions -> StreamStates]
      /\ \A r \in Sessions :
           stream'[r] = IF r # s \/ stream[s] # "active" THEN stream[r]
                        ELSE IF io[s][w] = "failed" THEN "errored" ELSE "completed"
  BY DEF Arrive, IInv, TypeOK, StreamStates
<1> USE DEF IInv, DeliveryInv, Arrive, history, ioFrame, prefVars
<1>1. TypeOK'
  BY <1>0, <1>a DEF TypeOK
<1>2. CallInv'
  BY <1>0, <1>a DEF CallInv
<1>3. SessionInv'
  BY <1>0, <1>a DEF SessionInv, Touched, TypeOK, Workers, Kinds
<1>4. EnqueuedInv'
  BY <1>0, <1>a DEF EnqueuedInv
<1>5. ErrorInv'
  BY <1>0, <1>a DEF ErrorInv, TypeOK, Workers, Kinds
<1>6. SubscriptionInv'
  BY <1>0, <1>a DEF SubscriptionInv, TypeOK, ChainInv, Delivering, Workers, Kinds
<1>7. ChainInv'
  BY <1>0, <1>a DEF ChainInv, TypeOK, Delivering, Kinds, Workers
<1>8. ReceiverInv'
  BY <1>0, <1>a DEF ReceiverInv, TypeOK, ChainInv, Delivering, Workers, Kinds
<1>9. ErrorMeansRemoved'
  BY <1>0, <1>a DEF ErrorMeansRemoved
<1>10. NoForgottenDownload'
  BY <1>0, <1>a DEF NoForgottenDownload, Live, Pending
<1>11. NextInv'
  BY <1>0, <1>a DEF NextInv, TypeOK, Workers, Kinds
<1>12. FilesInv'
  BY <1>0, <1>a DEF FilesInv, TypeOK
<1>13. FileWasDownloaded'
  BY <1>0, <1>a DEF FileWasDownloaded, TypeOK
<1>14. AnnouncedInv'
  BY <1>0, <1>a DEF AnnouncedInv
<1>15. BroadcastInv'
  BY <1>0, <1>a DEF BroadcastInv, Heard, TypeOK, Workers, Kinds
<1>16. InitialCheckInv'
  BY <1>0, <1>a DEF InitialCheckInv, TypeOK, CallInv, Sessions, SessionInv, Touched,
     Workers, Kinds
<1>17. CountInv'
  BY <1>0, <1>a DEF CountInv, HandedOver, TypeOK, Workers, Kinds
<1> QED
  BY <1>1, <1>2, <1>3, <1>4, <1>5, <1>6, <1>7, <1>8, <1>9, <1>10, <1>11, <1>12, <1>13,
     <1>14, <1>15, <1>16, <1>17

\* A download that ends is still the one remembered.
LEMMA DownloadEndsStep ==
  ASSUME NEW t \in Tasks, IInv, DeliveryInv, DownloadEnds(t)
  PROVE  IInv' /\ DeliveryInv'
<1> USE DEF IInv, DeliveryInv, DownloadEnds, history, phoneFrame
<1>1. TypeOK'
  BY DEF TypeOK, Rows
<1>2. CallInv'
  BY DEF CallInv, TypeOK
<1>3. SessionInv'
  BY DEF SessionInv, Touched, TypeOK
<1>4. EnqueuedInv'
  BY DEF EnqueuedInv, TypeOK
<1>5. ErrorInv'
  BY DEF ErrorInv, TypeOK
<1>6. SubscriptionInv'
  BY DEF SubscriptionInv
<1>7. ChainInv'
  BY DEF ChainInv
<1>8. ReceiverInv'
  BY DEF ReceiverInv
<1>9. ErrorMeansRemoved'
  BY DEF ErrorMeansRemoved, TypeOK
<1>10. NoForgottenDownload'
  BY DEF NoForgottenDownload, Live, Pending, TypeOK, LiveRows
<1>11. NextInv'
  BY DEF NextInv, TypeOK
<1>12. FilesInv'
  BY DEF FilesInv
<1>13. FileWasDownloaded'
  BY DEF FileWasDownloaded, TypeOK
<1>14. AnnouncedInv'
  BY DEF AnnouncedInv, TypeOK
<1>15. BroadcastInv'
  BY DEF BroadcastInv, Heard, TypeOK, AnnouncedInv
<1>16. InitialCheckInv'
  BY DEF InitialCheckInv
<1>17. CountInv'
  BY DEF CountInv, HandedOver
<1> QED
  BY <1>1, <1>2, <1>3, <1>4, <1>5, <1>6, <1>7, <1>8, <1>9, <1>10, <1>11, <1>12, <1>13,
     <1>14, <1>15, <1>16, <1>17

\* A broadcast only fills the inboxes.
LEMMA SendBroadcastStep ==
  ASSUME NEW t \in Tasks, IInv, DeliveryInv, SendBroadcast(t)
  PROVE  IInv' /\ DeliveryInv'
<1> USE DEF IInv, DeliveryInv, SendBroadcast, history, phoneFrame
<1>1. TypeOK'
  BY DEF TypeOK
<1>2. CallInv'
  BY DEF CallInv
<1>3. SessionInv'
  BY DEF SessionInv, Touched
<1>4. EnqueuedInv'
  BY DEF EnqueuedInv
<1>5. ErrorInv'
  BY DEF ErrorInv
<1>6. SubscriptionInv'
  BY DEF SubscriptionInv
<1>7. ChainInv'
  BY DEF ChainInv
<1>8. ReceiverInv'
  BY DEF ReceiverInv
<1>9. ErrorMeansRemoved'
  BY DEF ErrorMeansRemoved
<1>10. NoForgottenDownload'
  BY DEF NoForgottenDownload, Live, Pending
<1>11. NextInv'
  BY DEF NextInv
<1>12. FilesInv'
  BY DEF FilesInv
<1>13. FileWasDownloaded'
  BY DEF FileWasDownloaded
<1>14. AnnouncedInv'
  BY DEF AnnouncedInv, TypeOK
<1>15. BroadcastInv'
  BY DEF BroadcastInv, Heard, TypeOK, SessionInv, Touched, AnnouncedInv
<1>16. InitialCheckInv'
  BY DEF InitialCheckInv
<1>17. CountInv'
  BY DEF CountInv, HandedOver
<1> QED
  BY <1>1, <1>2, <1>3, <1>4, <1>5, <1>6, <1>7, <1>8, <1>9, <1>10, <1>11, <1>12, <1>13,
     <1>14, <1>15, <1>16, <1>17

\* A deleted download no longer needs to be remembered.
LEMMA UserDeletesStep ==
  ASSUME NEW t \in Tasks, IInv, DeliveryInv, UserDeletes(t)
  PROVE  IInv' /\ DeliveryInv'
<1> USE DEF IInv, DeliveryInv, UserDeletes, history, phoneFrame
<1>1. TypeOK'
  BY DEF TypeOK, Rows
<1>2. CallInv'
  BY DEF CallInv, TypeOK, SessionInv, EnqueuedInv, Touched, Sessions, Live, LiveRows
<1>3. SessionInv'
  BY DEF SessionInv, Touched, TypeOK, Live, LiveRows
<1>4. EnqueuedInv'
  BY DEF EnqueuedInv, TypeOK
<1>5. ErrorInv'
  BY DEF ErrorInv, TypeOK
<1>6. SubscriptionInv'
  BY DEF SubscriptionInv
<1>7. ChainInv'
  BY DEF ChainInv
<1>8. ReceiverInv'
  BY DEF ReceiverInv
<1>9. ErrorMeansRemoved'
  BY DEF ErrorMeansRemoved, TypeOK
<1>10. NoForgottenDownload'
  BY DEF NoForgottenDownload, Live, Pending, TypeOK, LiveRows
<1>11. NextInv'
  BY DEF NextInv, TypeOK
<1>12. FilesInv'
  BY DEF FilesInv
<1>13. FileWasDownloaded'
  BY DEF FileWasDownloaded, TypeOK
<1>14. AnnouncedInv'
  BY DEF AnnouncedInv, TypeOK
<1>15. BroadcastInv'
  BY DEF BroadcastInv, Heard, TypeOK
<1>16. InitialCheckInv'
  BY DEF InitialCheckInv
<1>17. CountInv'
  BY DEF CountInv, HandedOver
<1> QED
  BY <1>1, <1>2, <1>3, <1>4, <1>5, <1>6, <1>7, <1>8, <1>9, <1>10, <1>11, <1>12, <1>13,
     <1>14, <1>15, <1>16, <1>17

\* The invariant is inductive.
LEMMA StepInv == IInv /\ DeliveryInv /\ [Next]_vars => IInv' /\ DeliveryInv'
<1> SUFFICES ASSUME IInv, DeliveryInv, [Next]_vars PROVE IInv' /\ DeliveryInv'
  OBVIOUS
<1>0. Pause => IInv' /\ DeliveryInv'
  BY PauseActiveStep, PauseScheduledStep, PauseEndedStep, ProcessDiesStep
     DEF Pause, PauseActive, Crash
<1>1. CASE MainThread
  BY <1>0, <1>1, StartCallStep, EnqueueStep, SavePrefStep, RegisterReceiverStep,
     ScheduleCheckStep, ScheduleSubscribeStep DEF MainThread
<1>2. ASSUME NEW s \in Sessions, OnReceive(s) PROVE IInv' /\ DeliveryInv'
  BY <1>2, OnReceiveStep
<1>3. ASSUME NEW s \in Sessions, NEW w \in Workers, IoWorker(s, w)
      PROVE  IInv' /\ DeliveryInv'
  <2>1. CASE w \in Kinds /\ CheckDownloadTask(s, w)
    <3>1. EmitError(s, w) => IInv' /\ DeliveryInv'
      BY <2>1, EmitErrorStep, ProcessDiesStep DEF EmitError, Crash
    <3> QED
      BY <2>1, <3>1, QueryStep, EmitFileStep, EmitCompleteStep, RemoveTaskStep
         DEF CheckDownloadTask
  <2>2. CASE Subscribe(s) \/ AddSubscriber(s)
    BY <2>2, SubscribeStep, AddSubscriberStep
  <2>3. CASE Deliver(s, w)
    <3>1. SkipDisposed(s, w) => IInv' /\ DeliveryInv'
      BY SkipDisposedStep, ProcessDiesStep DEF SkipDisposed, Crash
    <3>2. Arrive(s, w) => IInv' /\ DeliveryInv'
      BY ArriveStep, ProcessDiesStep DEF Arrive, Crash
    <3> QED
      BY <2>3, <3>1, <3>2, DoOnCompleteStep, DoOnErrorStep DEF Deliver
  <2> QED
    BY <1>3, <2>1, <2>2, <2>3 DEF IoWorker
<1>4. ASSUME NEW t \in Tasks, DownloadEnds(t) \/ SendBroadcast(t) \/ UserDeletes(t)
      PROVE  IInv' /\ DeliveryInv'
  BY <1>4, DownloadEndsStep, SendBroadcastStep, UserDeletesStep
<1>5. CASE Kill
  BY <1>5, ProcessDiesStep DEF Kill
<1>6. CASE UNCHANGED vars
  <2>1. IInv'
    BY <1>6 DEF vars, processVars, deviceVars, history, IInv, TypeOK, CallInv, SessionInv,
                Touched, EnqueuedInv, ErrorInv, SubscriptionInv, ChainInv, ReceiverInv,
                ErrorMeansRemoved, NoForgottenDownload, Live, Pending
  <2>2. DeliveryInv'
    BY <1>6 DEF vars, processVars, deviceVars, DeliveryInv, NextInv, FilesInv,
                FileWasDownloaded, AnnouncedInv, BroadcastInv, Heard, InitialCheckInv,
                CountInv, HandedOver
  <2> QED
    BY <2>1, <2>2
<1> QED
  BY <1>1, <1>2, <1>3, <1>4, <1>5, <1>6 DEF Next

\* In every reachable state: the preference, the receivers and the chains fit
\* together, whatever pauses, deaths and terminal events overtake each other.
THEOREM Inductive == Spec => [](IInv /\ DeliveryInv)
<1> QED
  BY InitIInv, InitDelivers, StepInv, PTL DEF Spec

\* Every variable keeps a value the code can give it.
THEOREM TypeCorrect == Spec => []TypeOK
<1>1. IInv => TypeOK
  BY DEF IInv
<1> QED
  BY <1>1, Inductive, PTL

\* However many calls, checks, broadcasts and pauses interleave, a task that is
\* still there is remembered, unless a process death lost its id or a doOnError
\* wrote the preference in a chain that was disposed while the event was on its
\* way: with a receiver still registered, or in a chain not disposed, neither
\* doOnComplete nor doOnError forgets a task that is there.
THEOREM NothingIsForgotten == Spec => []NoForgottenDownload
<1>1. IInv => NoForgottenDownload
  BY DEF IInv
<1> QED
  BY <1>1, Inductive, PTL

\* A subject that reported an error has no task any more.
THEOREM ErrorsFollowRemoval == Spec => []ErrorMeansRemoved
<1>1. IInv => ErrorMeansRemoved
  BY DEF IInv
<1> QED
  BY <1>1, Inductive, PTL

\* Whatever checks and deletions interleave, a subscriber is never handed the
\* file of a download that is under way or failed.
THEOREM FilesAreDownloaded == Spec => []FileWasDownloaded
<1>1. DeliveryInv => FileWasDownloaded
  BY DEF DeliveryInv
<1> QED
  BY <1>1, Inductive, PTL

\* Of any number of calls, each hands over its file at most twice: once for its
\* own check, once for the broadcast.
THEOREM TwoFilesAtMost == Spec => []FileArrivesAtMostTwice
<1>1. IInv /\ DeliveryInv => FileArrivesAtMostTwice
  <2> SUFFICES ASSUME TypeOK, CountInv, NEW s \in Sessions PROVE files[s] <= 2
    BY DEF IInv, DeliveryInv, FileArrivesAtMostTwice
  <2>1. /\ HandedOver(s, "initial") \in {0, 1} /\ HandedOver(s, "broadcast") \in {0, 1}
        /\ files[s] <= HandedOver(s, "initial") + HandedOver(s, "broadcast")
    BY DEF CountInv, HandedOver
  <2> QED
    BY <2>1 DEF TypeOK
<1> QED
  BY <1>1, Inductive, PTL

-----------------------------------------------------------------------------
\* A step that leaves a session's stream and files alone is a stutter of its contract.
LEMMA ContractStutters ==
  ASSUME NEW r \in Sessions, stream'[r] = stream[r], files'[r] = files[r]
  PROVE  [Contract(r)!Next]_(Contract(r)!contractVars)
BY DEF Contract!contractVars

\* Every step of the program is, for every session, a step of the contract or a stutter.
LEMMA ContractStep ==
  ASSUME IInv, [Next]_vars, NEW r \in Sessions
  PROVE  [Contract(r)!Next]_(Contract(r)!contractVars)
<1> USE DEF Contract!Next, Contract!contractVars, Contract!OnSubscribe, Contract!OnNext,
            Contract!End, Contract!Ended
<1> USE DEF IInv, TypeOK, StreamStates, SubjectStates
<1>1. CASE UNCHANGED <<stream, files>>
  BY <1>1, ContractStutters
<1>2. CASE ScheduleSubscribe
  BY <1>2 DEF ScheduleSubscribe, SessionInv, CallInv, Sessions
<1>3. CASE ProcessDies
  BY <1>3 DEF ProcessDies
<1>4. CASE Pause
  BY <1>3, <1>4 DEF Pause, PauseActive, PauseScheduled, PauseEnded, Crash
<1>5. ASSUME NEW s \in Sessions, Subscribe(s)
      PROVE  [Contract(r)!Next]_(Contract(r)!contractVars)
  BY <1>5 DEF Subscribe, ioFrame
<1>6. ASSUME NEW s \in Sessions, NEW k \in Kinds, EmitFile(s, k)
      PROVE  [Contract(r)!Next]_(Contract(r)!contractVars)
  BY <1>6 DEF EmitFile, Linked
<1>7. ASSUME NEW s \in Sessions, NEW w \in Workers, Arrive(s, w)
      PROVE  [Contract(r)!Next]_(Contract(r)!contractVars)
  BY <1>3, <1>7 DEF Arrive, Crash
<1>8. \/ UNCHANGED <<stream, files>> \/ ScheduleSubscribe \/ ProcessDies \/ Pause
      \/ \E s \in Sessions : Subscribe(s)
      \/ \E s \in Sessions, k \in Kinds : EmitFile(s, k)
      \/ \E s \in Sessions, w \in Workers : Arrive(s, w)
  <2>1. CASE MainThread
    BY <2>1 DEF MainThread, StartCall, Enqueue, SavePref, RegisterReceiver, ScheduleCheck
  <2>2. ASSUME NEW s \in Sessions, OnReceive(s) PROVE UNCHANGED <<stream, files>>
    BY <2>2 DEF OnReceive
  <2>3. ASSUME NEW s \in Sessions, NEW w \in Workers, IoWorker(s, w),
               ~Subscribe(s), ~(w \in Kinds /\ EmitFile(s, w)), ~Arrive(s, w), ~ProcessDies
        PROVE  UNCHANGED <<stream, files>>
    <3>1. CASE w \in Kinds /\ CheckDownloadTask(s, w)
      BY <2>3, <3>1 DEF CheckDownloadTask, Query, EmitComplete, RemoveTask, EmitError,
         Crash
    <3>2. CASE AddSubscriber(s)
      BY <3>2 DEF AddSubscriber
    <3>3. CASE Deliver(s, w)
      BY <2>3, <3>3 DEF Deliver, SkipDisposed, DoOnComplete, DoOnError, Crash
    <3> QED
      BY <2>3, <3>1, <3>2, <3>3 DEF IoWorker
  <2>4. ASSUME NEW t \in Tasks, DownloadEnds(t) \/ SendBroadcast(t) \/ UserDeletes(t)
        PROVE  UNCHANGED <<stream, files>>
    BY <2>4 DEF DownloadEnds, SendBroadcast, UserDeletes, phoneFrame
  <2>5. CASE UNCHANGED vars
    BY <2>5 DEF vars, processVars
  <2> QED
    BY <2>1, <2>2, <2>3, <2>4, <2>5 DEF Next, Kill
<1> QED
  BY <1>1, <1>2, <1>3, <1>4, <1>5, <1>6, <1>7, <1>8

\* Whatever two checks, a pause and a process death do to one stream, its
\* subscriber sees a well-formed observable sequence.
THEOREM ContractIsKept == Spec => StreamsKeepContract
<1>1. Init => \A s \in Sessions : Contract(s)!Init
  BY DEF Init, Contract!Init
<1>2. IInv /\ [Next]_vars => \A s \in Sessions : [Contract(s)!Next]_(Contract(s)!contractVars)
  BY ContractStep
<1> QED
  BY <1>1, <1>2, Inductive, PTL DEF Spec, StreamsKeepContract
=============================================================================
