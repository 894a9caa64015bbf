---------------------------- MODULE ModelDownload ----------------------------
(***************************************************************************)
(* DLibModelHelper.downloadFace68Model: the landmark model is fetched by   *)
(* Android's DownloadManager, the task's id is remembered in the shared    *)
(* preferences, and the File is handed to the caller through a             *)
(* PublishSubject that two kinds of asynchronous status checks feed: the   *)
(* one the call itself schedules, and one per completion broadcast.        *)
(*                                                                         *)
(* A session is one call of downloadFace68Model by one resumed activity.   *)
(* Four parties interleave: the main thread (calls, broadcasts, pause),    *)
(* the io workers (checks, the deferred subscription), DownloadManager     *)
(* with the user who may delete a download, and the death of the process.  *)
(*                                                                         *)
(* A terminal event travels down the chain on an io worker while onPause   *)
(* travels up it on the main thread.  Both unregister the receiver, and    *)
(* the second to do so gets an exception: the way down is split into the   *)
(* steps that a pause can overtake.                                        *)
(***************************************************************************)
EXTENDS Naturals, FiniteSets

CONSTANT MaxSessions   \* how many calls of downloadFace68Model a run makes

ASSUME MaxSessionsAssumption == MaxSessions \in Nat \ {0}

Sessions == 1..MaxSessions
Tasks    == Sessions   \* a session enqueues at most one task: its own number
NoTask   == 0          \* the preference's -1
Kinds    == {"initial", "broadcast"}   \* who started a status check
Workers  == Kinds \cup {"subscription"}   \* a session's pieces of work on io threads

VARIABLES
  pref,       \* the task id in the in-memory preferences
  onDisk,     \* the ids that the preference's file may hold: apply() writes it later
  tasks,      \* DownloadManager's rows
  announced,  \* finished tasks whose ACTION_DOWNLOAD_COMPLETE is not sent yet
  ui,         \* where the main thread is inside the call
  cur,        \* the latest session
  taskId,     \* session -> the downloadId it waits for
  receiver,   \* session -> is its DownloadStatusReceiver registered?
  inbox,      \* sessions whose receiver has a broadcast to handle
  io,         \* session -> worker -> its next step
  subject,    \* session -> state of its PublishSubject
  stream,     \* session -> what the subscriber at the chain's end has seen
  files,      \* session -> number of Files the subscriber received
  orphans,    \* history: tasks a process death made nobody remember
  erased      \* history: tasks forgotten by doOnError in a chain disposed meanwhile

processVars == <<ui, cur, taskId, receiver, inbox, io, subject, stream, files>>
deviceVars  == <<onDisk, tasks, announced>>
history     == <<orphans, erased>>
vars == <<pref, processVars, deviceVars, history>>

Rows       == {"none", "running", "successful", "failed", "removed"}
LiveRows   == {"running", "successful", "failed"}
UiStates   == {"idle", "enqueue", "save", "register", "check", "subscribe", "resumed"}
CheckSteps == {"query", "next", "complete", "error"}
SubscribeSteps == {"subscribe", "add"}
Delivering == {"unregister", "completed", "forget", "failed"}   \* inside the chain
IoSteps    == {"none", "done"} \cup CheckSteps \cup SubscribeSteps \cup Delivering
SubjectStates == {"active", "completed", "errored"}
StreamStates  == {"idle", "scheduled", "active", "completed", "errored", "disposed"}

Live == {t \in Tasks : tasks[t] \in LiveRows}

Init ==
  /\ pref = NoTask
  /\ onDisk = {NoTask}
  /\ tasks = [t \in Tasks |-> "none"]
  /\ announced = {}
  /\ ui = "idle"
  /\ cur = 0
  /\ taskId = [s \in Sessions |-> NoTask]
  /\ receiver = [s \in Sessions |-> FALSE]
  /\ inbox = {}
  /\ io = [s \in Sessions |-> [w \in Workers |-> "none"]]
  /\ subject = [s \in Sessions |-> "active"]
  /\ stream = [s \in Sessions |-> "idle"]
  /\ files = [s \in Sessions |-> 0]
  /\ orphans = {}
  /\ erased = {}

-----------------------------------------------------------------------------
(* The main thread inside downloadFace68Model and its caller.              *)

\* onResume reaches the call: read the preference, make a fresh subject.
StartCall ==
  /\ ui = "idle" /\ cur < MaxSessions
  /\ cur' = cur + 1
  /\ taskId' = [taskId EXCEPT ![cur + 1] = pref]
  /\ ui' = IF pref = NoTask THEN "enqueue" ELSE "register"
  /\ UNCHANGED <<pref, receiver, inbox, io, subject, stream, files, deviceVars,
                 history>>

\* No id is remembered: DownloadManager.enqueue returns a fresh one.
Enqueue ==
  /\ ui = "enqueue"
  /\ tasks' = [tasks EXCEPT ![cur] = "running"]
  /\ taskId' = [taskId EXCEPT ![cur] = cur]
  /\ ui' = "save"
  /\ UNCHANGED <<pref, onDisk, announced, cur, receiver, inbox, io, subject,
                 stream, files, history>>

\* Mutant of SavePref: the new id is never written.
SavePrefForgotten ==
  /\ ui = "save" /\ ui' = "register"
  /\ UNCHANGED <<pref, cur, taskId, receiver, inbox, io, subject, stream, files,
                 deviceVars, history>>

\* PrefUtil.setLong: visible to this process now, on disk at any later time.
SetPref(id) == pref' = id /\ onDisk' = onDisk \cup {id}

SavePref ==
  /\ ui = "save"
  /\ SetPref(taskId[cur])
  /\ ui' = "register"
  /\ UNCHANGED <<tasks, announced, cur, taskId, receiver, inbox, io, subject, stream, files,
                 history>>

\* Mutant of RegisterReceiver: the status is checked once, and nobody listens.
NoReceiver ==
  /\ ui = "register" /\ ui' = "check"
  /\ UNCHANGED <<pref, cur, taskId, receiver, inbox, io, subject, stream, files,
                 deviceVars, history>>

RegisterReceiver ==
  /\ ui = "register"
  /\ receiver' = [receiver EXCEPT ![cur] = TRUE]
  /\ ui' = "check"
  /\ UNCHANGED <<pref, cur, taskId, inbox, io, subject, stream, files,
                 deviceVars, history>>

\* checkDownloadTask only schedules its work on an io worker.
ScheduleCheck ==
  /\ ui = "check"
  /\ io' = [io EXCEPT ![cur]["initial"] = "query"]
  /\ ui' = "subscribe"
  /\ UNCHANGED <<pref, cur, taskId, receiver, inbox, subject, stream, files,
                 deviceVars, history>>

\* The activity subscribes with subscribeOn(worker): later, on another worker.
ScheduleSubscribe ==
  /\ ui = "subscribe"
  /\ stream' = [stream EXCEPT ![cur] = "scheduled"]
  /\ io' = [io EXCEPT ![cur]["subscription"] = "subscribe"]
  /\ ui' = "resumed"
  /\ UNCHANGED <<pref, cur, taskId, receiver, inbox, subject, files,
                 deviceVars, history>>

\* The process is gone: every session with it, and perhaps what apply() was to
\* write.  Downloads go on in DownloadManager.
ProcessDies ==
  /\ \E id \in onDisk : /\ pref' = id /\ onDisk' = {id}
                        /\ orphans' = orphans \cup (Live \ {id})
  /\ ui' = "idle"
  /\ receiver' = [s \in Sessions |-> FALSE]
  /\ inbox' = {}
  /\ io' = [s \in Sessions |-> [w \in Workers |->
              IF io[s][w] = "none" THEN "none" ELSE "done"]]
  /\ stream' = [s \in Sessions |->
                 IF stream[s] \in {"scheduled", "active"} THEN "disposed" ELSE stream[s]]
  /\ UNCHANGED <<tasks, announced, cur, taskId, subject, files, erased>>

\* RxJavaPlugins.onError gets an exception that nobody can be told of: its
\* default kills the application.
Crash == ProcessDies

\* onPause: mDisposables.clear() shuts the end of the chain and goes up to
\* doOnDispose, which unregisters the receiver; when a doOnComplete on its way
\* down has done so already, that throws in dispose().  What the subject holds
\* is disposed last: if the subject lets go of the chain in between, it could
\* have done so just before, and it tells the chain later in either case.
PauseActive ==
  /\ ui = "resumed" /\ stream[cur] = "active"
  /\ IF receiver[cur]
       THEN /\ receiver' = [receiver EXCEPT ![cur] = FALSE]
            /\ stream' = [stream EXCEPT ![cur] = "disposed"]
            /\ ui' = "idle"
            /\ UNCHANGED <<pref, cur, taskId, inbox, io, subject, files, deviceVars, history>>
       ELSE Crash

\* A subscription that has not taken place is cancelled, unless its worker has
\* begun.  The receiver stays.
PauseScheduled ==
  /\ ui = "resumed" /\ stream[cur] = "scheduled"
  /\ ui' = "idle"
  /\ stream' = [stream EXCEPT ![cur] = "disposed"]
  /\ \/ UNCHANGED io
     \/ io' = [io EXCEPT ![cur]["subscription"] = "done"]
  /\ UNCHANGED <<pref, cur, taskId, receiver, inbox, subject, files, deviceVars, history>>

\* The chain has ended by itself.
PauseEnded ==
  /\ ui = "resumed" /\ stream[cur] \in {"completed", "errored"}
  /\ ui' = "idle"
  /\ UNCHANGED <<pref, cur, taskId, receiver, inbox, io, subject, stream, files,
                 deviceVars, history>>

Pause == PauseActive \/ PauseScheduled \/ PauseEnded

\* onReceive, on the main thread: another check of the same task.  A receiver
\* unregistered since the broadcast was sent is skipped.
OnReceive(s) ==
  /\ ui \in {"idle", "resumed"} /\ s \in inbox
  /\ inbox' = inbox \ {s}
  /\ io' = IF receiver[s] THEN [io EXCEPT ![s]["broadcast"] = "query"] ELSE io
  /\ UNCHANGED <<pref, ui, cur, taskId, receiver, subject, stream, files,
                 deviceVars, history>>

-----------------------------------------------------------------------------
(* The io workers: the status checks.                                      *)

\* Does the subject hold the chain, undisposed?
Linked(s) == io[s]["subscription"] = "done" /\ subject[s] = "active" /\ stream[s] = "active"

Step(s, w, next) == io' = [io EXCEPT ![s][w] = next]

ioFrame == <<ui, cur, taskId, inbox, announced, history>>
prefVars == <<pref, onDisk>>

\* Mutant of Query: a row is enough, whatever its status.
QueryAnyStatus(s, k) ==
  /\ io[s][k] = "query"
  /\ tasks[taskId[s]] # "removed"
  /\ Step(s, k, "next")
  /\ UNCHANGED <<prefVars, tasks, receiver, subject, stream, files, ioFrame>>

\* downloadManager.query and the look at the row: an unfinished or failed
\* task is left.  (RemoveTask has the other outcomes.)
Query(s, k) ==
  /\ io[s][k] = "query"
  /\ \/ tasks[taskId[s]] = "successful" /\ Step(s, k, "next")
     \/ tasks[taskId[s]] \in {"running", "failed"} /\ Step(s, k, "done")
  /\ UNCHANGED <<prefVars, tasks, receiver, subject, stream, files, ioFrame>>

\* Mutant of EmitFile: the subscriber is called though it may be gone.
EmitToAnybody(s, k) ==
  /\ io[s][k] = "next"
  /\ files' = [files EXCEPT ![s] = @ + 1]
  /\ Step(s, k, "complete")
  /\ UNCHANGED <<prefVars, tasks, receiver, subject, stream, ioFrame>>

\* subject.onNext(file): a PublishSubject drops it when it holds no chain.
EmitFile(s, k) ==
  /\ io[s][k] = "next"
  /\ files' = IF Linked(s) THEN [files EXCEPT ![s] = @ + 1] ELSE files
  /\ Step(s, k, "complete")
  /\ UNCHANGED <<prefVars, tasks, receiver, subject, stream, ioFrame>>

\* Mutant of EmitComplete: the status is polled instead of completing.
PollAgain(s, k) ==
  /\ io[s][k] = "complete"
  /\ Step(s, k, "query")
  /\ UNCHANGED <<prefVars, tasks, receiver, subject, stream, files, ioFrame>>

\* subject.onComplete(): ignored on a terminated subject; a chain it holds is
\* let go and told.
EmitComplete(s, k) ==
  /\ io[s][k] = "complete"
  /\ Step(s, k, IF Linked(s) THEN "unregister" ELSE "done")
  /\ subject' = [subject EXCEPT ![s] = IF @ = "active" THEN "completed" ELSE @]
  /\ UNCHANGED <<prefVars, tasks, receiver, stream, files, ioFrame>>

\* Mutant of RemoveTask: the error is reported and the task stays.
ReportWithoutRemoving(s, k) ==
  /\ io[s][k] = "query"
  /\ Step(s, k, "error")
  /\ UNCHANGED <<prefVars, tasks, receiver, subject, stream, files, ioFrame>>

\* The query finds no row, or any Throwable is caught while the row is read:
\* downloadManager.remove(taskId), and the row and its file disappear.  One
\* step: nothing that happens between the look and the removal can undo either.
RemoveTask(s, k) ==
  /\ io[s][k] = "query"
  /\ tasks' = [tasks EXCEPT ![taskId[s]] = "removed"]
  /\ Step(s, k, "error")
  /\ UNCHANGED <<prefVars, receiver, subject, stream, files, ioFrame>>

\* subject.onError(): a chain that the subject holds is let go and told.  On a
\* terminated subject the error goes to RxJavaPlugins.onError.
EmitError(s, k) ==
  /\ io[s][k] = "error"
  /\ IF subject[s] = "active"
       THEN /\ subject' = [subject EXCEPT ![s] = "errored"]
            /\ Step(s, k, IF Linked(s) THEN "forget" ELSE "done")
            /\ UNCHANGED <<prefVars, tasks, receiver, stream, files, ioFrame>>
       ELSE Crash

-----------------------------------------------------------------------------
(* The io workers: the deferred subscription.                              *)

\* onSubscribe: from here on a pause finds a chain to dispose.  A worker that a
\* pause has overtaken disposes the chain itself.
Subscribe(s) ==
  /\ io[s]["subscription"] = "subscribe"
  /\ Step(s, "subscription", "add")
  /\ IF stream[s] = "scheduled"
       THEN stream' = [stream EXCEPT ![s] = "active"] /\ UNCHANGED receiver
       ELSE receiver' = [receiver EXCEPT ![s] = FALSE] /\ UNCHANGED stream
  /\ UNCHANGED <<prefVars, tasks, subject, files, ioFrame>>

\* The subject takes the chain.  A terminated one only replays its terminal
\* event, and does not look whether the chain was disposed meanwhile.
AddSubscriber(s) ==
  /\ io[s]["subscription"] = "add"
  /\ Step(s, "subscription", CASE subject[s] = "active"    -> "done"
                               [] subject[s] = "completed" -> "unregister"
                               [] subject[s] = "errored"   -> "forget")
  /\ UNCHANGED <<prefVars, tasks, receiver, subject, stream, files, ioFrame>>

-----------------------------------------------------------------------------
(* A terminal event on its way down the chain, on whichever worker.        *)

\* PrefUtil.setLong(-1).  History: is a live task forgotten, and in a chain that
\* was disposed on the way?
Forget(s) ==
  /\ SetPref(NoTask)
  /\ erased' = IF stream[s] = "active" THEN erased ELSE erased \cup (Live \cap {pref})

\* The subject calls only a chain that it sees undisposed: one disposed since it
\* was let go may be skipped, and the error becomes one that nobody hears of.
SkipDisposed(s, w) ==
  /\ w \in Kinds /\ stream[s] = "disposed"
  /\ \/ /\ io[s][w] = "unregister"
        /\ Step(s, w, "done")
        /\ UNCHANGED <<prefVars, tasks, receiver, subject, stream, files, ioFrame>>
     \/ io[s][w] = "forget" /\ Crash

deliverFrame == <<ui, cur, taskId, inbox, announced, orphans>>

\* doOnComplete.  When doOnDispose has unregistered the receiver already, this
\* throws, and RxJava goes on with onError instead.
DoOnComplete(s, w) ==
  /\ io[s][w] = "unregister"
  /\ IF receiver[s]
       THEN /\ receiver' = [receiver EXCEPT ![s] = FALSE]
            /\ Step(s, w, "completed")
            /\ UNCHANGED <<prefVars, erased>>
       ELSE Forget(s) /\ Step(s, w, "failed") /\ UNCHANGED receiver
  /\ UNCHANGED <<tasks, subject, stream, files, deliverFrame>>

\* Mutant of DoOnError: the id is reset to one that no call is waiting for.
ForgetWrongly(s, w) ==
  /\ io[s][w] = "forget"
  /\ SetPref(MaxSessions + 1)
  /\ Step(s, w, "failed")
  /\ UNCHANGED <<tasks, receiver, subject, stream, files, ioFrame>>

\* doOnError: the id is forgotten; the receiver stays.
DoOnError(s, w) ==
  /\ io[s][w] = "forget"
  /\ Forget(s)
  /\ Step(s, w, "failed")
  /\ UNCHANGED <<tasks, receiver, subject, stream, files, deliverFrame>>

\* The event reaches the end of the chain.  A disposed end ignores a completion
\* and hands an error to RxJavaPlugins.onError.
Arrive(s, w) ==
  /\ io[s][w] \in {"completed", "failed"}
  /\ IF stream[s] # "active" /\ io[s][w] = "failed"
       THEN Crash
       ELSE /\ stream' = [stream EXCEPT ![s] =
                            IF @ # "active" THEN @
                            ELSE IF io[s][w] = "failed" THEN "errored" ELSE "completed"]
            /\ Step(s, w, "done")
            /\ UNCHANGED <<prefVars, tasks, receiver, subject, files, ioFrame>>

Deliver(s, w) == SkipDisposed(s, w) \/ DoOnComplete(s, w) \/ DoOnError(s, w) \/ Arrive(s, w)

-----------------------------------------------------------------------------
(* DownloadManager, the user and the system.                               *)

phoneFrame == <<pref, ui, cur, taskId, receiver, io, subject, stream, files, history>>

\* A download ends, well or badly; its broadcast is sent some time later.
DownloadEnds(t) ==
  /\ tasks[t] = "running"
  /\ \E outcome \in {"successful", "failed"} : tasks' = [tasks EXCEPT ![t] = outcome]
  /\ announced' = announced \cup {t}
  /\ UNCHANGED <<onDisk, inbox, phoneFrame>>

\* ACTION_DOWNLOAD_COMPLETE reaches the receivers registered when it is sent.
\* onReceive ignores the ids of other tasks.
SendBroadcast(t) ==
  /\ t \in announced
  /\ announced' = announced \ {t}
  /\ inbox' = inbox \cup {s \in Sessions : receiver[s] /\ taskId[s] = t}
  /\ UNCHANGED <<onDisk, tasks, phoneFrame>>

\* The user deletes the download in the system's Downloads application.
UserDeletes(t) ==
  /\ t \in Live
  /\ tasks' = [tasks EXCEPT ![t] = "removed"]
  /\ UNCHANGED <<onDisk, announced, inbox, phoneFrame>>

\* The system kills the process.
Kill == ProcessDies

-----------------------------------------------------------------------------
MainThread == \/ StartCall \/ Enqueue \/ SavePref \/ RegisterReceiver
              \/ ScheduleCheck \/ ScheduleSubscribe \/ Pause

CheckDownloadTask(s, k) == \/ Query(s, k) \/ EmitFile(s, k) \/ EmitComplete(s, k)
                           \/ RemoveTask(s, k) \/ EmitError(s, k)

IoWorker(s, w) == \/ w \in Kinds /\ CheckDownloadTask(s, w)
                  \/ w = "subscription" /\ (Subscribe(s) \/ AddSubscriber(s))
                  \/ Deliver(s, w)

Next ==
  \/ MainThread
  \/ \E s \in Sessions : OnReceive(s)
  \/ \E s \in Sessions, w \in Workers : IoWorker(s, w)
  \/ \E t \in Tasks : DownloadEnds(t) \/ SendBroadcast(t) \/ UserDeletes(t)
  \/ Kill

\* The looper and the io scheduler run what is posted, the system delivers
\* broadcasts.  Each of them has finitely much to do for a session, so it is
\* enough that of what is pending something is done.  Nothing promises that a
\* download ends or that a user acts.
Fairness ==
  /\ WF_vars(ScheduleCheck \/ ScheduleSubscribe)
  /\ WF_vars(\E s \in Sessions : OnReceive(s))
  /\ WF_vars(\E s \in Sessions, w \in Workers : IoWorker(s, w))
  /\ WF_vars(\E t \in Tasks : SendBroadcast(t))

Spec     == Init /\ [][Next]_vars
FairSpec == Spec /\ Fairness

-----------------------------------------------------------------------------
\* Every variable holds a value the code can give it.
TypeOK ==
  /\ pref \in {NoTask} \cup Tasks
  /\ onDisk \subseteq {NoTask} \cup Tasks
  /\ tasks \in [Tasks -> Rows]
  /\ announced \subseteq Tasks
  /\ ui \in UiStates
  /\ cur \in 0..MaxSessions
  /\ taskId \in [Sessions -> {NoTask} \cup Tasks]
  /\ receiver \in [Sessions -> BOOLEAN]
  /\ inbox \subseteq Sessions
  /\ io \in [Sessions -> [Workers -> IoSteps]]
  /\ subject \in [Sessions -> SubjectStates]
  /\ stream \in [Sessions -> StreamStates]
  /\ files \in [Sessions -> Nat]
  /\ orphans \subseteq Tasks
  /\ erased \subseteq Tasks

\* The id a call has got from enqueue and not yet written to the preference.
Pending == IF ui = "save" THEN {taskId[cur]} ELSE {}

\* Every task DownloadManager still has is the one the preference remembers (or
\* is about to): a second resume never downloads the model twice.  An id can be
\* lost in two ways only: a process death before apply() has written it, and a
\* doOnError whose chain onPause disposed while the event was on its way.  In a
\* chain that is not disposed, doOnError forgets only what was removed before.
NoForgottenDownload == \A t \in Live : t \in {pref} \cup Pending \cup orphans \cup erased

\* A subject reports an error only after the task was removed, so a later call
\* that still finds the id remembered is sure to end in an error too, and the
\* one after that downloads afresh.
ErrorMeansRemoved == \A s \in Sessions : subject[s] = "errored" => tasks[taskId[s]] = "removed"

\* The steps of a call leave the preference alone or name the call's own task.
CallInv ==
  /\ ui # "idle" => cur >= 1
  /\ ui = "enqueue" => tasks[cur] = "none"
  /\ ui \in {"enqueue", "save"} => pref = NoTask
  /\ ui \notin {"idle", "enqueue"} => taskId[cur] # NoTask
  /\ ui \in {"register", "check", "subscribe", "resumed"} => pref \in {NoTask, taskId[cur]}

Touched(s) == \/ receiver[s] \/ stream[s] # "idle" \/ subject[s] # "active"
              \/ \E w \in Workers : io[s][w] # "none"

\* What a session owns exists only once its call knows a task, and only the
\* session of the resumed activity has a subscriber.
SessionInv ==
  /\ \A t \in Tasks : t > cur => tasks[t] = "none"
  /\ \A s \in Sessions : Touched(s) =>
       s <= cur /\ taskId[s] # NoTask /\ (s = cur => ui \notin {"enqueue", "save"})
  /\ \A s \in Sessions : stream[s] \in {"scheduled", "active"} => s = cur /\ ui = "resumed"
  /\ \A s \in Sessions : stream[s] # "idle" /\ s = cur => ui \in {"idle", "resumed"}

\* An id that is remembered anywhere was returned by enqueue.
EnqueuedInv ==
  \A t \in {pref} \cup onDisk \cup {taskId[s] : s \in Sessions} :
    t # NoTask => tasks[t] # "none"

\* Whoever is about to report an error has removed the task.
ErrorInv ==
  \A s \in Sessions, w \in Workers :
    io[s][w] \in {"error", "forget"} => tasks[taskId[s]] = "removed"

\* How far the subscription is, seen from both ends of the chain.
SubscriptionInv ==
  \A s \in Sessions :
    /\ io[s]["subscription"] = "none" <=> stream[s] = "idle"
    /\ stream[s] = "scheduled" => io[s]["subscription"] = "subscribe"
    /\ io[s]["subscription"] = "subscribe" => stream[s] \in {"scheduled", "disposed"}
    /\ io[s]["subscription"] = "add" => stream[s] \in {"active", "disposed"}

\* The subject tells a chain of its end at most once, through one worker.
ChainInv ==
  \A s \in Sessions :
    /\ \A w \in Workers : io[s][w] \in Delivering =>
         /\ subject[s] # "active"
         /\ w \in Kinds => io[s]["subscription"] = "done"
         /\ \A v \in Workers : io[s][v] \in Delivering => v = w

\* The receiver of a live chain is registered until its completion has passed
\* doOnComplete: only there, or in a chain that is disposed, is it missed.
ReceiverInv ==
  /\ ui \in {"check", "subscribe"} => receiver[cur]
  /\ \A s \in Sessions : stream[s] \in {"scheduled", "active"} /\ ~receiver[s] =>
       stream[s] = "active" /\ \E w \in Workers : io[s][w] = "completed"

\* The invariant that is inductive.
IInv == /\ TypeOK /\ CallInv /\ SessionInv /\ EnqueuedInv /\ ErrorInv /\ SubscriptionInv
        /\ ChainInv /\ ReceiverInv /\ ErrorMeansRemoved /\ NoForgottenDownload

\* No subscriber is handed the file of a download that has not succeeded.
FileWasDownloaded ==
  \A s \in Sessions : files[s] > 0 => tasks[taskId[s]] \in {"successful", "removed"}

\* Two checks feed one subject, each at most once: a subscriber never receives
\* its file more than twice, and GameStart is written for two.
FileArrivesAtMostTwice == \A s \in Sessions : files[s] <= 2

\* A check hands over the file of a download that succeeded, and may find it
\* deleted by then.
NextInv ==
  \A s \in Sessions, k \in Kinds :
    io[s][k] = "next" => tasks[taskId[s]] \in {"successful", "removed"}

\* Only a subscriber counts files.
FilesInv == \A s \in Sessions : files[s] > 0 => stream[s] # "idle"

\* A task is announced when it has ended.
AnnouncedInv == \A t \in announced : tasks[t] \in {"successful", "failed", "removed"}

Heard(s) == s \in inbox \/ io[s]["broadcast"] # "none"

\* The one broadcast about a task is sent once: a session that has got it gets
\* no other, and checks once for it.
BroadcastInv ==
  \A s \in Sessions :
    /\ Heard(s) => /\ s <= cur /\ taskId[s] # NoTask
                   /\ s = cur => ui \notin {"enqueue", "save"}
                   /\ taskId[s] \notin announced
                   /\ tasks[taskId[s]] \in {"successful", "failed", "removed"}
    /\ s \in inbox => io[s]["broadcast"] = "none"

\* The call's own check is scheduled once.
InitialCheckInv ==
  ui \in {"enqueue", "save", "register", "check"} => io[cur]["initial"] = "none"

\* Whether a check is past the step that hands over the file.
HandedOver(s, k) == IF io[s][k] \in {"none", "query", "next"} THEN 0 ELSE 1

\* Every check hands over at most one file.
CountInv ==
  \A s \in Sessions : files[s] <= HandedOver(s, "initial") + HandedOver(s, "broadcast")

\* Inductive together with IInv.
DeliveryInv == /\ NextInv /\ FilesInv /\ FileWasDownloaded /\ AnnouncedInv
               /\ BroadcastInv /\ InitialCheckInv /\ CountInv

\* A subscriber waits for a file that is there.
Waiting == \E s \in Sessions : stream[s] = "active" /\ tasks[taskId[s]] = "successful"

\* Registering the receiver before checking closes the window in which a
\* download may end unseen: a subscriber whose task has succeeded is told so,
\* or leaves, whatever order check, broadcast and subscription take.  (A later
\* session waits only when the one before it has stopped to.)
SuccessIsReported == Waiting ~> ~Waiting

-----------------------------------------------------------------------------
\* The subscriber of session s sees a well-formed observable sequence.
Contract(s) == INSTANCE ObservableContract WITH
  phase   <- IF stream[s] = "scheduled" THEN "idle" ELSE stream[s],
  emitted <- files[s]

\* Every session implements the contract: two checks that feed one subject from
\* two workers, and a pause or a process death at any moment, never make the
\* subscriber see an event after the end.
StreamsKeepContract ==
  /\ \A s \in Sessions : Contract(s)!Init
  /\ [][\A s \in Sessions : [Contract(s)!Next]_(Contract(s)!contractVars)]_vars

-----------------------------------------------------------------------------
(* What a comment of the source says, and the code does not do.            *)

\* DLibModelHelper.java:153 "The download is completed already. Calling this
\* function make the subject emit the result.": a chain that completes has
\* seen the file.
CompletedChainsSawTheFile ==
  \A s \in Sessions : stream[s] = "completed" => files[s] > 0

=============================================================================
