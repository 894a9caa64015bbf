# Verification of my-android-app-boilerplate

TLA+ models of the concurrent parts of this repository of Android demo
applications and libraries, checked with TLC and, where stated, proved with
TLAPS. Every definition is translated from the source; `PROJECT.json` ("map")
names the lines each one stands for.

1. Inventory
2. Plan
3. The modules, and how they correspond to the code
4. The runs: what they check, their bounds, the fairness they assume
5. What is proved, and how
6. Where the code and what is said of it disagree
7. What is not modelled

## 1. Inventory

The repository is a set of Gradle modules: five applications (`demo-*`) over eight
libraries (`lib-*`). It has no server and no store of its own: the state is that of
activities, views and Rx streams, one global in a native library, and a task id in the
shared preferences. What makes it hard comes from Android: a main looper, io workers,
handler threads that quit, broadcasts, surfaces that come and go, pause and process
death; and from a few algorithms.

| Component | State it keeps | Operations | Interacts with | Hard behaviour | What makes it correct |
|---|---|---|---|---|---|
| model download (`demo-big-bite` `DLibModelHelper`) | task id in memory and on disk, a `PublishSubject` and a receiver per call | `downloadFace68Model`, `checkDownloadTask`, `onReceive` | DownloadManager, the user, the game stream | two kinds of checks race with a deferred subscription, a terminal event with the pause that disposes its chain; process death between writes | one download; a success is reported; errors only after removal; well-formed streams |
| bite detection (`DLibBiteDetector`) | latest records, bite count | `detect`, `record`, `detectBiteFromRecords` | the stream of faces | a weighted sum over a sliding window | counts exactly the pattern, never overlapping bites |
| game start-up stream (`GameActivity`) | the scan's model, the posted models, the dialog | resume, permission, download, load, start, pause | download, native detector, preview | loads that no pause can stop share one global | no game without detectors, no dialog over a paused activity, no stream that just hangs |
| native landmark detector (`lib-dlib`) | two global detectors | ready checks, prepare calls, detection | game stream | validated after it has been replaced | only 68 landmark models run |
| camera preview of the game (`CameraSourcePreview`, `CameraObservable`) | start request, surface flag, source | start, stop, release, surface callbacks, dispose | io worker and main thread, without a lock | check-then-act on both sides, release across a pause, a second game's source in the place of the first | a paused activity has no camera; a requested camera starts |
| handler-thread camera views (`CameraTextureView`, `CameraClassifierView`, `CameraSurfaceView`) | handler, camera, preview, classifier, timer | open, close, surface callbacks, predictions | camera screen | the thread quits under its own queue | one thread; no camera while paused; predictions keep what they use |
| camera screen and dismiss layout (`SampleOfCameraActivity`, `ElasticDragDismissLayout`) | open flag, animation, permission | resume, pause, `postOpen`, `open`, `close` | camera view | delayed actions nobody cancels | the camera follows resume and pause |
| elastic drag layouts (`ElasticDragLayout`, `ElasticDragMenuLayout`) | total drag, its side, the menu's flag, animator | nested scrolling, `openMenu`, `closeMenu` | the scrolling child, its activity | one move split between layout and child; animations cancelled before a scroll is accepted | at rest everything is in place; no drag while the content can scroll |
| photo picker (`PhotoPickerView`, its sample activity) | selection, strip, drawer, listed album, check marks | clicks, album loads, drags, list callbacks | `ObservableArrayList`, media store | callbacks that run late, loads that are not cancelled | what is shown is what is selected and chosen |
| observable collections (`lib-core` `data`) | elements, listeners, capacity | add, remove, set, clear | adapters, picker | dispatch by a looper | a listener sees every change |
| news feed (`demo-news-feed`) | dialog, placeholder, list, subscriptions | `getNews`, `showNews`, resume, pause | web service, io workers | the error path, events of a disposed load, repeated subscriptions | the dialog goes; a click opens one detail |
| doodle editor (`demo-doodle`) | strokes, brush | touch events | brush bar | none: a move follows a down that was consumed, which added the stroke it extends | |
| drop-down drawer (`lib-widget` `DropDownMenuLayout`) | drawer state, touched child, animator | touch events, open, close | list below it, its activity | faked DOWN and CANCEL events, toggles during touches and animations | a drawer at rest is open or closed |
| photo delegate (`lib-component`) | dispatch flag, path | dispatch, save, restore, result | permission dialog, camera application, caller | rotation and destruction while waiting | dispatched once, the photo comes back |
| reactive wrappers (`lib-reactive`, `LottieAnimObservable`) | listener, disposed flag | subscribe, dispose, callbacks | views | none: all of it is on the main thread, and no application uses any but the last | the observable contract |
| dlib demo (`demo-dlib`) | as model download, plus an unpacked file | unpack, load, resume, pause | DownloadManager, native detector | a death while unpacking, a copy that outlives its screen | a partial file is not used |
| picture-wall sampler (`lib-photo-collage`) | a tree, the photos left | `sample`, `createTree`, `optimize`, layout | grid generator | searches, resampling, memory | each photo once; leaves tile the canvas |
| grids and slots (`lib-photo-collage`) | grids of slots | split, merge, sort, pair | JNI | counts and orders at their limits | the wanted number of slots |
| translation, utilities, adapters, decorations, checkable views, generated and vendored code | none or a flag | | | | |

The components interact along one chain in the largest application: a resumed
`GameActivity` asks for the permission, calls the model download, hands the file to the
native detector on an io worker, starts the game, and on that same worker subscribes to
the camera preview; every stage may be overtaken by `onPause`, which disposes the stream
but stops no native code. The models follow this chain: `ModelDownload` establishes how
often a file may arrive (`FileArrivesAtMostTwice`), and `GameStart` takes its constant
`MaxFiles` from there; `CameraPreview` begins where a game of `GameStart` has started, and
has up to two games in a stream for the same reason (`GamesPerStream`).

`PROJECT.json` lists, under "hazards", what is hard to test in this code, line by line.

## 2. Plan

The modules, in the order of their importance; all are written:

1. `ModelDownload` with the abstract `ObservableContract`
2. `BiteDetector`
3. `GameStart`
4. `CameraPreview`
5. `CameraHandler`, composed with its activity in `CameraScreen`
6. `PhotoPicker`
7. `GridsGenerator`, composed of `PicWall` and `OneBig`
8. The screens and views that stand alone: `Drawer`, `TakePhoto`, `News`, `Unpack` and
   `ElasticDrag`, one behaviour each of `Demos`

The theorems about a module and their proofs are in a module of their own:
`ModelDownloadProofs`, `GameStartProofs`, `GameProofs` (`CameraPreview` and `BiteDetector`),
`CameraScreenProofs`, `PhotoPickerProofs`, `PicWallProofs` (the sampler, as composed in
`GridsGenerator`, and the slots of its grids), `TilingProofs` (where those slots lie) and
`DemosProofs`.

## 3. The modules

`MC*` modules instantiate a module for TLC; only `MCPhotoPicker` and `MCGridsGenerator`
add definitions, the inputs of their runs. Each module that is checked also holds the
mutants of its code ("Mutant of ...", "A mutant"), which no action uses: substituting
one for the definition it is a mutant of must break the property `PROJECT.json` names,
which shows that the property depends on that code.

**ModelDownload** (`DLibModelHelper.java`, `PrefUtil.java`, and the caller in
`GameActivity.downloadFaceDetectorIfOk`). A session is one call by one resumed activity.
The main thread runs the call in the code's order: `StartCall`, `Enqueue`, `SavePref`,
`RegisterReceiver`, `ScheduleCheck`, `ScheduleSubscribe`; the process may die between any
two. `CheckDownloadTask` takes a status check through its steps (query, `onNext`,
`onComplete`, or remove and `onError`), at most one started by the call and one by the
broadcast per session, on io workers of their own. `Subscribe` and `AddSubscriber` are the
two halves of the deferred subscription: the chain becomes known to a pause, then to the
subject.

A terminal event goes down the chain on a worker while `onPause` goes up it on the main
thread. `EmitComplete` and `EmitError` end the subject only; `DoOnComplete`, `DoOnError`
and `Arrive` take the event on, step by step, and `Pause` may fall between any two. Both
`doOnComplete` and `doOnDispose` unregister the receiver, and the second gets an
exception: in `DoOnComplete` RxJava turns it into an error, so that the id is set to -1
although the task is live (`Forget`); in `PauseActive`, as for an error that reaches a
disposed chain, nobody catches it and the application dies (`Crash`). `SkipDisposed` is
the subject that sees in time that its chain is gone. How the operators of RxJava hand
events on is not under `src/` and is modelled as its second version does it. `onDisk` is
the set of ids the preference's file may hold, since `apply()` writes it later; `erased`
and `orphans` are the history of live tasks that were forgotten, by such a `Forget` and by
a process death.

`DownloadEnds`, `SendBroadcast`, `UserDeletes` and `Kill` are Android, the
user and the process killer. `ObservableContract` is the abstract specification of an
Rx stream: events only while active, one end at most.

**BiteDetector** (`DLibBiteDetector.java`, `DLibBiteDetectorTransformer.java`). A frame
adds a record, or none when the thread's clock shows the millisecond of the last one
(`DetectSameTime`), and then counts over the latest four. Of the smoothed angle the model
keeps the side of the threshold and the sign of its change: the code uses nothing else,
and `ConsistentWith` admits the pairs that some run of angles produces.

**GameStart** (`GameActivity.java`, `dlib-face-landmarks-detector-jni.cpp`,
`DLibLandmarks68Detector.java`). `LoadDetector` takes one load through its steps; loads
of one stream and of earlier, disposed streams run side by side, because nothing stops a
worker inside native code. `Scan` is the accumulation of results into models, `Deliver`
one posted model on the main looper. The file may be deleted, be another model or be
garbage. An error that arrives when nobody is subscribed sets `crashed`.

**CameraPreview** (`CameraSourcePreview.java`, `CameraObservable.java`). Two threads run
`startIfReady`; every read and write of a field is a step (`CheckReady`, `ReadSource`,
`StartSource`, `Finish`). `Release` and `NullSource` are the two halves of `release()`.
A game is what `startGameIfOk` begins for each `LoadDetectorResult`: its own
`CameraObservable`, `CameraSource` and io thread, on one view. Two files make two games in
a stream, of which the second begins when the subscription of the first has returned;
`SetSource` puts its source in the place of one that may run (`replaced`), and
`StartSource` then fails, because the camera is taken. That error goes through the merges
(`Collapse`): every game of the stream is disposed, which posts a release for each, and
`ReportError` is the subscriber without an error handler. `ClearDisposables` disposes the
games of a stream one by one, each with a release of its own.
The fields are not volatile: the model takes them as sequentially consistent, so it is
silent on what an unsynchronised write may do beyond being late. The construction of the
`CameraSource` is atomic.

**CameraHandler** and **CameraScreen** (`CameraTextureView.java`,
`CameraClassifierView.java`; `SampleOfCameraActivity.java`, `ElasticDragDismissLayout.java`).
`CameraHandler` is the component: the main thread ensures and posts in two steps, as the
code does outside its monitor; `Handles(h)` runs one message of a handler thread under
the monitor; `Looper.quit` drops the queue. `CameraScreen` extends it with the activity,
the permission, the delayed opening and the animations, and conjoins their steps.
`cancelEnds` is the platform's choice whether a cancelled `AnimatorSet` still calls
`onAnimationEnd`. Assumed: a hardware-accelerated window, no exception from the camera
other than those the code catches, a surface that lives until the view is detached.

**PhotoPicker** (`PhotoPickerView.java`, `ObservableArrayList.java`,
`SampleOfPhotoPickerActivity.java`). A click changes the list at once and posts a
callback; `RunCallback` runs one of them for both listeners, with the list as it is by
then. `LoadEnds(i)` may end any load. `checked` stands for the marks of the cells, however
they are recycled: a cell is bound anew when the photos are set, and marked when a
callback names its photo. `notifies` is the platform's choice whether
`CopyOnWriteArrayList.remove(Object)` calls the overridden `remove(int)`.

**GridsGenerator**, **PicWall**, **OneBig** (`common/GridsGenerator.cpp`,
`GridsOptimizer.cpp`, `PicWallSampler.cpp`, `algorithm/one_big`). `GridsGenerator` is
one call of `generate`, which runs the samplers one after the other, sorts what each
returns and filters the whole. The samplers of `OneBig` are pure and are operators.
`PicWall` is the sampler that draws trees: `todo` is the recursion of `createNode`, one
call a step (`CreateLeaf`, `CreatePair`, `CreateDivision`), after the turns of the loops
that search the sorted pool for it: `Bisect` in `findOneImageFor`, `Walk` in the two
loops of `findTwoImagesFor` and `TurnWalk` between them, all on the positions in
`search`; `mPhotos` keeps the sorted list from which a tree is created again.
`MeasureTree` measures a complete tree, `AdjustTree` is a turn of the loop of
`optimize`, which may free the tree and create another. After that the code stores
through a reference into the freed root: `realAt` is the node of the new tree that the
memory belongs to by then, any of them or none. The ratio it puts into another node than
the root is kept to eighths. What such a hit breaks is broken by the code, so
`FoundTreeFits` and `GridsTile` speak of trees without one. Numbers are the exact
fractions of `Ratios`. Replaying the one_big samplers in 32-bit floats gave the same
grids for up to 40 photos; beyond that, rounding decides whether two edges meet, and the
assertion at `common.cpp:119` fails for the big-top pattern with 49 photos, as its TODO
says. The search for the best of all block pairs is a choice of the first in the loop's
order. `StdSort` is what `std::sort` does with at most sixteen elements, which matters
because one comparison it is given is not an order.

**Drawer** (`DropDownMenuLayout.java`, driven by `SampleOfDropDownMenuLayoutActivity`).
`Press`, `Move` and `Lift` are `dispatchTouchEvent` for one event, with the route to the
children or to `onTouchEvent` and the faked DOWN and CANCEL; `Toggle` is the activity's
menu item and back key, and may fall anywhere in a touch. `Settle` is `openDrawer` or
`closeDrawer`: it cancels the animation under way and starts another, `Frame` moves it on.
A height is a small number of pixels; whether the list below is over-scrolled is free.

**TakePhoto** (`TakePhotoDelegateActivity.java`). The fields, the bundle `saved` and what
the system holds for the activity: the pending answer of the permission dialog, the camera
application, which may close with or without a photo, and the result. `Destroy` and
`Recreate` are the system's removal of an activity behind another one (the process may
go with it), `Rotate` both at once. `sdk23` is the branch on the platform's version.

**News** (`NewsPresenter.java`, `MainActivity.java`). The stages of `getNews` on the
workers put events in the queue of `observeOn`, where an error overtakes what waits;
`Deliver` shows one on the main thread. `subscriptions` counts what `showNews` has
subscribed to the clicks, `debounced` the clicks they hold back.

**Unpack** (`DlibModelHelper.java` of `demo-dlib`, `SampleOfFacesAndLandmarksActivity2`).
Each session's worker goes on from the finished download: it creates the file, copies,
and hands it to the load. A pause removes what is queued and leaves what runs; `Kill`
ends every worker. The file is whole when the one who emptied it last has written all.

**ElasticDrag** (`ElasticDragLayout.java`, `ElasticDragMenuLayout.java`). `ScrollBy` is
one move: `onNestedPreScroll`, the child's own scroll of what is left, `onNestedScroll`
with the rest. `StartScroll` and `RefuseScroll` are the two answers of
`onStartNestedScroll`, which cancels a running animation before either. The vertical and
the horizontal code are the same and are modelled once. The same first step,
`StartNestedScroll`, is an action of `CameraScreen`, where the animation that it cancels
is the one that opens the camera.

**Demos** composes these five: a behaviour is that of one of them, with the others at
rest. They share nothing, so interleaving them would show nothing more.

## 4. The runs

Deadlock is not checked except in the two runs of `GridsGenerator`, whose one call ends in
the step `Returned`: a screen that has used up its bound of resumes, with
nothing left to run, rightly stops.

| Run | Bounds | States | Shows |
|---|---|---|---|
| `ModelDownload` | 2 calls | 747 thousand | a live download is always remembered, except after a process death that lost its id or an error in a chain disposed under it; a subject that failed has lost its task; a file handed over was downloaded; it arrives at most twice; each stream implements `ObservableContract`; a success is reported to a waiting subscriber |
| `ModelDownload_lost` | 1 call | | a chain completes without the file (section 6) |
| `BiteDetector` | 4 records, 11 frames | 125 thousand | the weighted sum counts the pattern and nothing else; two bites share no record |
| `GameStart` | 2 resumes, 2 files, 1 model of a tick | 1.5 million | the safety properties of the start-up and that a file leads to a game or a failure, with up to four loads at once |
| `GameStart_wrong` | 2 resumes, 1 file | | a refused model starts a game (section 6) |
| `CameraPreview` | 2 resumes, 3 games | 1 million | while nothing goes on past the end of its stream, a running camera is the view's or one that a second game's replaced, and only the latter outlives a pause; the camera of a stream's only game starts |
| `CameraPreview_open` | 2 resumes, 3 games | | the camera of a paused activity runs (section 6) |
| `CameraScreen` | 2 handler threads, 2 resumes | 233 thousand | never two handler threads; a prediction keeps its classifier; a paused screen has closed its camera but for late or repeated opens; a preview is attempted |
| `PhotoPicker` | capacity 2, 3 loads, 3 callbacks waiting, 2 albums sharing a photo | 1.6 million | when the callbacks have run, marks, strip, drawer and Done button agree with the selection; without overlap or failure the album shown is the one chosen |
| `GridsGenerator` | 193 calls: up to 6 photos of 3 shapes on 4 canvases for the tree, 6 to 16 photos for the patterns; 4 adjustments (50 in the code), 2 trees a sample | 22 thousand | every photo is placed once; a returned tree fits; `optimize` returns; grids tile the canvas with a slot per photo; pairs are the nearest |
| `GridsGenerator_similar` | 4 square photos | | equal layouts are returned twice (section 6) |
| `Demos` | drawer of 4 in a view of 5, slop 1; 2 photo files; 3 resumes, 2 clicks; 3 sessions; drag up to 3 with the threshold at 2, scroll range 2 | 40 thousand | a drawer at rest is open or closed and the content below it in place; the camera opens once and its photo comes back; the news' dialog goes and a click opens one detail; a loaded model is whole; an elastic child settles, and is dragged only at the end of its content; each with the proviso the property names |

Why these bounds are enough to be of interest: two sessions are the least for anything
to be left over from an earlier one, and every interaction the code has is between one
session and its successor (the remembered id, the global detector, the view's source,
the handler). Of the three games two can share a stream while the third is alone in the
other. Four records are the window the pattern needs, and eleven frames are two bites
and three more records. Three callbacks in flight at capacity two let an addition, its
removal and a third change overtake the reader. Two handler threads let one die while
its successor works. Six photos make trees of two levels of random cuts above the
searched leaves, on canvases from 1:2 to 4:1; nothing but the number of inner nodes,
five at most, limits how often a tree can be adjusted usefully. Sixteen photos, the
limit of `StdSort`, reach every branch of the patterns, with merging and splitting,
except the square grids that `EqualGrids` splits from 17 photos on. For `Demos`: a
drawer of four pixels has a middle and both sides of it, beyond the slop; two files let
a second camera be opened, if anything opens one; three sessions let one copy, one wait
and one load; a drag of three passes the threshold and turns back by more than it went.
The proofs of section 5 remove these bounds from every safety property of the runs that
pass.

Provisos in the properties are history variables that name what the plain property does
not survive: `orphans` and `erased` (an id lost with the process, and under a disposed
chain), `raced` (an io thread that goes on after its stream has ended, by a pause or by an
error, or while the view is released, and a release that is still posted at the next
resume), `replaced` (a source whose place a second game's has taken), `late`, `reopened`,
`unsettled`, `overlapped`, `recounts` and `crashed`. The passing runs show that nothing
else breaks the property, not that every behaviour with the proviso does.
`PausedClosesCamera` without any, for example, is the run `CameraPreview_open`.

Fairness. `ModelDownload`: the main thread finishes the call, the looper and the io
scheduler run what is posted or scheduled, the system sends the broadcast of a finished
download; nothing obliges a download to end or a user to act. `CameraPreview`: each
thread finishes the method it is in, an error goes through its merges, the looper runs
what is posted. In both, the conditions are on all sessions, or all games, together:
each has finitely much to do, so that something is done for one of them until nothing is
left. `CameraScreen`: the main looper goes on, and a handler thread whose looper has
messages handles them. All of it is weak fairness: each action stays enabled until it is
taken, since only its own thread or queue takes it. `Demos` needs none: its properties
speak of what is at rest. `GridsGenerator` runs on its caller's thread and assumes that
a tree which is begun goes on, stated without `ENABLED`: the sampler is not in its loop
again and again, or it steps again and again. The other runs have safety properties
only.

## 5. What is proved

For every value of the constants, with their `ASSUME`s, and for every fairness: no
safety theorem uses `Fairness`. Each theorem `Spec => []P` rests on an inductive
invariant (`Inv`, in `ModelDownload` `IInv`), of which `P` is a conjunct or a
consequence, with one lemma for each action. TLC checked each invariant it can evaluate
on the run's instance before it was proved; of `TileInv` that is `GridsTile`. The
constants keep the assumptions the modules name, nearly all of them that a bound is a
number, a set has an element to begin with, or a value is none of a set. Three have
content: `MaxRecords >= 4` of `BiteDetector`, the window of its pattern; a positive
tolerance of the sampler, to which `sample` passes 0.45; and that requests for grids are
of photos whose ratio is positive, or zero for one without a size, which `checkPhotos`
refuses, and of a canvas with a size.

**ModelDownloadProofs**, for any number of sessions. `Inductive` proves `IInv` and
`DeliveryInv` together. `IInv` adds to `TypeOK` and the two properties: `CallInv`
(inside a call the preference is empty or names the call's task), `SessionInv` (what
belongs to a session exists only once its call has a task, and only the current session
of a resumed activity has a subscriber), `EnqueuedInv` (a remembered id was returned by
`enqueue`), `ErrorInv` (a check about to report an error, and a chain about to forget
one, has removed its task), `SubscriptionInv` (how far the subscription is, seen from
its worker and from the chain's end), `ChainInv` (one worker at most is inside a chain,
and the subject has let go of it) and `ReceiverInv` (the receiver of a live chain is
registered until its own completion has unregistered it). The properties are not
inductive alone. `NoForgottenDownload` needs that `Enqueue` finds an empty preference
and, of `DoOnComplete`, that it can miss the receiver only in a chain that is disposed:
what is forgotten there is counted in `erased`, and `DoOnError` in a live chain forgets
what `ErrorInv` says is gone. `ErrorMeansRemoved` needs that the check removed the row
before. From it follow `TypeCorrect`, `NothingIsForgotten` and `ErrorsFollowRemoval`. In
`DeliveryInv`, the call schedules its own check once (`InitialCheckInv`), the broadcast
of an ended task reaches a session once and starts one check (`AnnouncedInv`,
`BroadcastInv`), and what a session has received is bounded by the checks that have
handed their file over (`CountInv`). From it follow `FilesAreDownloaded` and
`TwoFilesAtMost`, on which `GameStart` relies for its `MaxFiles` and `CameraPreview` for
its `GamesPerStream`. `ContractIsKept` proves the refinement: each session's stream,
mapped by `phase` and `emitted`, starts in the contract's initial state and every step
of the system is a step of the contract or a stutter.

**GameStartProofs**, for any number of resumes and files. Two arguments meet in `Inv`. The
dialog is that of the last model the scan has posted (`DialogFollows`), nothing is posted
while paused (`PausedIsQuiet`), and a stream whose loads went well ends with the message
that hides it (`GoodEndIsOk`): so `NoDialogOverPaused` and `DialogGoes`. A load that has
come so far has found the detectors so far (`LoadHasDetectors`), and a stream has no more
games than loads that are done (`LoadsOfFiles`): so `GameHasDetectors` and `FileIsAnswered`.
`DetectorStays`, an action property, needs `LoaderAlone`: unless two loads overlapped, one
load at most is in the loader and the detector is partial only while it reads.

**GameProofs**, of `CameraPreview` for any number of resumes and games. Of the games of a
stream one io thread at a time is at work (`OneAtATime`), so no other can replace the
source that it is about to start. While nothing has gone on past the end of its stream
(`Unraced`), a release runs on behalf of a stream that has ended or in `onPause`, and a
view that holds a source is that of a resumed activity (`ReleaseGoesOn`); what an io
thread has read of the view is still what it holds, and what the main thread has read is
that or was replaced (`TargetIsSource`, the check-then-act of `startIfReady`); and the
running camera is the view's or a replaced one, and only the latter once a release has
stopped what it found (`RunningIsHeld`): `ViewHoldsRunningCamera` and `PauseClosesCamera`.

And of `BiteDetector`, for any `MaxRecords >= 4` and any number of frames:
`BiteTypeCorrect`; `PatternIsCounted`, the arithmetic of the weighted sum: of the sixteen
combinations only one has its value; `DisjointBites`, from the strengthening
`PartialBites`: a partly matched pattern also has records of its own, since no proper
prefix of OPENED, OPENED, CLOSED, CLOSED is a suffix of it.

**CameraScreenProofs**, for any number of resumes and handler threads. `ThreadOfHandler`:
the looper that runs is `mHandler`'s and one that has quit keeps no message, from which
`HandlerThreadIsOne` and, as predictions run on that looper,
`ClassifierOutlivesPrediction`. `PauseClosesCamera` needs `PausedWillClose`: after
`onPause` every request to open in a queue has a request to close behind it, and so has the
open camera; and that an open between ensuring and posting is the resumed activity's
(`OpenIsOfResumed`).

**PhotoPickerProofs**, for any albums, photos and capacity. The list changes at once and
its callbacks run later, so `ShowsSelection` needs what the callbacks under way will make
of the marks: the last one that waits for a photo says what became of it
(`CallbacksAreTrue`), a photo without one is marked as it is selected (`ChecksFollow`), the
strip is as new as the last callback (`StripFollows`) and so is the Done button
(`DoneFollows`). `DrawerFollowsStrip` is inductive with the types; `ListsChosenAlbum` needs
`LoadsOfChosen`: unless two loads overlapped, the one under way is of the album chosen last.

**PicWallProofs**, for any photos, canvases, limits, and cuts. `PlacesEachPhotoOnce`: the
photos left are those on no leaf and no photo is on two (`PlacedInv`). A leaf must
therefore get a photo that is left, and be new: the calls of `createNode` still to make are
for as many photos as are left (`CountInv`), so that a search finds as many
as it was called for (`SearchInv`), and their nodes are different, not made yet, and have
their parents in the tree (`ShapeInv`). `SearchesReturnPhotos` says the same of the searches:
they index the pool within its bounds, and the assertions at `PicWallSampler.cpp:587` hold.
`ReturnedTreeFits`: without the dangling reference the leaves store the ratios of their
photos and a measured root that of its leaves (`RatioInv`), and the loop ends only on
a tree that fits, because the count of adjustments is below its limit wherever it is
tested (`LoopInv`).

`PairsAreNearest` is the argument about two positions that walk towards each other over
the sorted photos: no pair with a photo outside the window is nearer than the best one
kept (`WalkInv`), since a sum that is too large only grows with a larger photo and one
that is too small only shrinks with a smaller, and reciprocals turn the order round.
`NearInv` adds that the pool stays sorted as photos are erased and that every target is
positive. Below it are the laws of the exact fractions of `Ratios`: their order is total
and transitive, sums respect it, and reducing a fraction keeps its value. For the last,
`gcd` must divide both terms: its recursive equation is shown to have a solution, the
largest common divisor, and whatever solves it divides both, since a least pair for
which it did not would have a lesser one.

`OneSlotForEachPhoto` follows every grid from the sampler that makes it to the filter.
For the patterns: each is linked to consecutive photos or to none, joining two slots and
cutting one leave no photo twice, and `Kept` drops what has not the wanted number of slots,
which `SlotNum` never puts below the number of photos (`GridsInv`). Sorting is insertion, so
it keeps slots whatever the comparison says, and filtering only drops grids: both are folds, as
is the merging loop, and the equation of a fold is solved by climbing from the empty list.
For the trees: in a tree under construction only nodes with a cut have children and each
has both, made or still to be made (`BranchInv`), so that a finished one is whole and
the listing of `SlotList` names every leaf once; with `PlacesEachPhotoOnce`, a slot for
each photo.

**TilingProofs**, for the same. `GridsTileTheCanvas` needs the areas and edges of slots,
which are fractions. A list of slots has finitely many, so on a common scale they are
rectangles of whole numbers (`Rects`). Rectangles tile a larger one when they lie in it,
no two overlap, and their areas add up to its area (`Packed`; `TiledBy` for the slots of a
grid and the canvas). From there the argument follows the code. Each pattern fills the
canvas, whatever number of slots it was asked for. Cutting slots in two keeps that on
twice the scale. Joining keeps it because the slots joined have an edge in common; where
one lies above the other the code doubles the height of the first, which is right because
patterns that are joined have no two slots of one width and different heights (`Even`).
Sorting moves slots, filtering drops whole grids. For the trees, the ratio stored at a
node with a cut has to be that of its two parts put side by side or on top of each other
(`WeighInv`), when it was measured and after adjustments have turned cuts. Then the cut
halves the node's rectangle where the ratios of the parts want it, and from the root down,
through `BranchInv`, the leaves share out the canvas. Positive targets and ratios
(`NearInv`) leave every rectangle a width and a height. `TileInv` puts it together: unless
a tree was hit, every grid collected so far is tiled, and `TiledTiles` brings that back to
the sums and edges of fractions that `GridsTile` compares.

**DemosProofs**, with one invariant for each demo. `DrawerInv`, for any height and slop:
a drawer heads for the end its state names. `PhotoInv`: of permission request, answer
and camera each follows the one before, after the dispatch flag was cleared and saved,
and the path of a camera this instance started is known to it or saved. `NewsInv`: the
last event of a load is not progress, and the news are shown by the very last.
`UnpackInv`: while a file is partial the session that emptied it last still copies, or a
copy was cut short. `ElasticInv`: nothing is dragged outside a scroll, and the drag is
counted from nothing.

Only model-checked:

- all liveness (`SuccessIsReported`, `RequestedCameraStarts`, `PreviewStarts`,
  `OptimizeReturns`), since the prover does not reason about fairness;
- the four properties that fail (section 6).

## 6. Where the code and what is said of it disagree

- `DLibModelHelper.java:153` says that for a download that is complete already, calling
  `checkDownloadTask` makes the subject emit the result. The check starts before the
  caller subscribes, and a `PublishSubject` emits to present subscribers only:
  `ModelDownload_lost`.
- `dlib-face-landmarks-detector-jni.cpp:149` refuses a model without 68 landmarks, after
  it has replaced the global detector, and `DLibLandmarks68Detector.java:105` takes any
  non-empty detector for ready. The next resume starts the game: `GameStart_wrong`.
- `GameActivity.java:407` "Close camera.": a subscription under way on an io worker
  starts the camera after `onPause` has released everything, and a second game of a stream
  hides the running camera of the first from `onPause`: `CameraPreview_open`.
- `common/GridsGenerator.cpp:175` "Filter out the grid with similar layouts.": the filter
  compares slots in an order that does not depend on the layout alone:
  `GridsGenerator_similar`.

Smaller ones, met while modelling and visible in the actions. In the modules 1 to 7:
a pause that meets the completion of a download may clear the id of a model that was
downloaded, or kill the application, since both unregister the receiver;
`CameraClassifierView.java:153` "Ensure the handler.", but the handler thread may set
`mHandler` to null between the check and the post; a touch while the camera screen opens
cancels the animation at whose end the camera is opened, and on platforms where
`cancel()` does not end it the camera waits for the next resume; a failed download is never
reported while its process lives, since no check follows it with a status it reacts to;
`FileResult`s of failed downloads are ignored by the scan, so the dialog stays;
`CameraSourcePreview.release` forgets the source and not the start request;
`CameraSurfaceView` sets `mIsSurfaceAvailable` only behind the test of it, so no preview
of it can start; the Done button of the picker keeps the old count after a removal;
`PicWallSampler::findOneImageFor`, which is to find the best match, discards `mid` and may
step over the nearest photo; the logarithm that `sample` calls base 2 is natural;
`optimize` leaks its last tree when it gives up; the lowest bit of `Math::rand`, the only
one used, alternates, so that a tree with two random cuts is drawn again the same.

In the modules of `Demos`: a toggle during the animation that follows a drag leaves the
content below the drawer displaced; the photo delegate stays, invisible, over its caller
when its permission request is lost with it, when there is no camera application, and
before SDK 23 when the permission is missing; a photo is lost if the activity was rotated
behind the permission dialog, since the path is then a field of the instance replaced;
`SampleOfPhotoPickerActivity:163` uses `startActivity` where the delegate's documentation
asks for `startActivityForResult`; an error of the news' translation leaves a dialog that
cannot be cancelled; `DlibModelHelper` takes a file cut short for the whole model, for
ever; an elastic child stays where it is when its animation was cancelled for a scroll
that is refused or for a new size, and `ElasticDragMenuLayout` never calls the drag
callbacks its base class documents. In code no application uses,
`ElasticNestedScrollView.DrawerBehavior.reset` clears only `mIsDraggingDown`, so that the
next pull loses its first event.

## 7. What is not modelled

Every component that an application uses and that keeps state across threads, callbacks
or deaths has a module; what a module leaves out of its component is said in section 3
and at the end of this one. Whole components left out: the doodle editor and the
reactive wrappers, which run on one thread and whose state is used in the order it is
written (section 1); pure translation and geometry (JSON, matrices, bitmaps); drawing
and measuring of views; classes no application uses (`DropDownMenuView`,
`CameraSurfaceView`, the drawer behavior of `ElasticNestedScrollView`); the cursor
adapter; the in-app purchase skeleton; generated protobuf classes and vendored code,
which are most of the repository's lines (dlib, protobuf, Catch).

Inside the modelled components: the frames of a running camera (the game filters all of
them out, since `canDetect` never becomes true); in `Unpack`, that an error which
arrives after the pause has nobody to take it (in `ModelDownload` and `GameStart` that
ends the application); the alpha that `ElasticDragLayout` saves, the distance of a drag
beyond its side and total, image data, the layout of adapters, the penalties that sort
grids (any order is admitted), the table of the designer sampler, the cost of a tree,
layouts other than `LAYOUT_SCALE_TO_FILL`. Android's own parts are external definitions,
modelled as the code uses them: DownloadManager, loopers, broadcasts, surfaces,
animators.
