----------------------------- MODULE PhotoPicker -----------------------------
(***************************************************************************)
(* PhotoPickerView over an ObservableArrayList of selected photos, in      *)
(* SampleOfPhotoPickerActivity.  A click changes the list at once; the     *)
(* list posts a callback per change to the main looper, where two          *)
(* listeners read the list as it is by then: the activity for its Done     *)
(* button, the view for the check marks of the album's photos, the strip   *)
(* of selected photos and the drawer that holds the strip.  Albums are     *)
(* loaded on io threads that nobody cancels, and the drawer can be dragged *)
(* meanwhile.                                                              *)
(***************************************************************************)
EXTENDS Naturals, Sequences, SequencesExt

CONSTANTS
  Albums,     \* the albums of the media store
  PhotosOf,   \* album -> its photos
  Capacity,   \* setMaxCapacity
  MaxLoads,   \* bound: albums loads in a run
  MaxPosted   \* bound: callbacks that wait for the main looper

Photos == UNION {PhotosOf[a] : a \in Albums}

None == "none"

ASSUME PickerAssumption ==
  /\ Albums # {} /\ None \notin Albums
  /\ Capacity \in Nat /\ MaxLoads \in Nat /\ MaxPosted \in Nat

Drawers == {"hidden", "partial", "complete", "settling"}
Changes == [kind : {"added", "removed"}, photo : Photos]

VARIABLES
  selection,     \* the ObservableArrayList
  posted,        \* its callbacks on the main looper
  notifies,      \* does the platform's remove(Object) call remove(int)?
  listening,     \* is the view, beside the activity, a listener?
  starting,      \* "permission", "albums" or "done" or "failed"
  progress,      \* is the progress indicator shown?
  chosen,        \* the album the spinner shows
  loads,         \* loads under way, oldest first
  loaded,        \* how many loads were begun
  unsettled,     \* history: a load began during another, or failed
  shown,         \* the album whose photos are listed
  checked,       \* the listed photos whose cells are checked
  strip,         \* the data of the selection list
  drawer,        \* mState
  handling,      \* mIsHandling: a drag of the drawer
  done           \* the Done button is visible

listVars   == <<selection, posted, notifies, listening>>
albumVars  == <<starting, progress, chosen, loads, loaded, unsettled, shown>>
stripVars  == <<strip, drawer, handling>>
vars == <<listVars, albumVars, checked, stripVars, done>>

Init ==
  /\ selection = <<>> /\ posted = <<>>
  /\ notifies \in BOOLEAN /\ listening = TRUE
  /\ starting = "permission" /\ progress = TRUE
  /\ chosen = None /\ loads = <<>> /\ loaded = 0 /\ unsettled = FALSE /\ shown = None
  /\ checked = {}
  /\ strip = <<>> /\ drawer = "hidden" /\ handling = FALSE
  /\ done = FALSE

Selected == ToSet(selection)
Listed   == IF shown = None THEN {} ELSE PhotosOf[shown]

-----------------------------------------------------------------------------
(* ObservableArrayList.                                                    *)

\* Mutant of Dispatch: the callback goes to the front of the looper's queue.
DispatchAtFront(kind, p) == posted' = <<[kind |-> kind, photo |-> p]>> \o posted

\* dispatchCallbacks: the activity always listens.
Dispatch(kind, p) == posted' = Append(posted, [kind |-> kind, photo |-> p])

\* add(): refused when the list is at its capacity.
Add(p) ==
  IF Len(selection) = Capacity
    THEN UNCHANGED <<selection, posted>>
    ELSE selection' = Append(selection, p) /\ Dispatch("added", p)

\* remove(Object), of the first that equals p, is not overridden: some platforms
\* implement it by remove(int), which is.
RemovePhoto(p) ==
  /\ \E i \in DOMAIN selection :
       /\ selection[i] = p /\ \A j \in 1..i-1 : selection[j] # p
       /\ selection' = RemoveAt(selection, i)
  /\ IF notifies THEN Dispatch("removed", p) ELSE UNCHANGED posted

-----------------------------------------------------------------------------
(* Clicks.                                                                 *)

\* onClickPhoto, of a listed photo: onSelectPhoto or onDeselectPhoto.
ClickPhoto(p) ==
  /\ listening /\ p \in Listed /\ Len(posted) < MaxPosted
  /\ IF p \in Selected THEN RemovePhoto(p) ELSE Add(p)
  /\ UNCHANGED <<notifies, listening, albumVars, checked, stripVars, done>>

\* onDeselectPhoto, from the strip, which may show what is no longer selected.
ClickSelection(p) ==
  /\ listening /\ p \in ToSet(strip) /\ Len(posted) < MaxPosted
  /\ p \in Selected /\ RemovePhoto(p)
  /\ UNCHANGED <<notifies, listening, albumVars, checked, stripVars, done>>

-----------------------------------------------------------------------------
(* A callback on the main looper.                                          *)

\* The activity's onItemAdded and onItemRemoved.
ActivityListener(change) ==
  done' = IF change.kind = "added" THEN TRUE ELSE done /\ selection # <<>>

\* notifyItemChanged with a payload, for the cell of the changed photo.
NotifyPhotos(change) ==
  checked' = IF change.kind = "removed" THEN checked \ {change.photo}
             ELSE checked \cup ({change.photo} \cap Listed)

\* Mutant of OnListUpdate: an emptied drawer stays where it is.
UpdateOnlyReveals ==
  drawer' = IF strip' # <<>> /\ drawer = "hidden" THEN "partial" ELSE drawer

\* onListUpdate of the drawer.
OnListUpdate ==
  drawer' = IF strip' = <<>> THEN "hidden"
            ELSE IF drawer = "hidden" THEN "partial" ELSE drawer

\* The view's onSelectionChanged.
OnSelectionChanged(change) ==
  /\ NotifyPhotos(change)
  /\ strip' = selection
  /\ OnListUpdate

RunCallback ==
  /\ posted # <<>> /\ posted' = Tail(posted)
  /\ ActivityListener(Head(posted))
  /\ IF listening
       THEN OnSelectionChanged(Head(posted))
       ELSE UNCHANGED <<checked, strip, drawer>>
  /\ UNCHANGED <<selection, notifies, listening, albumVars, handling>>

-----------------------------------------------------------------------------
(* Albums.                                                                 *)

\* Mutant of SelectAlbum: the position in the spinner is not that of the album.
SelectLoadsAnother(a) ==
  /\ chosen' = a
  /\ loads' = Append(loads, CHOOSE b \in Albums : Albums = {a} \/ b # a) /\ loaded' = loaded + 1
  /\ unsettled' = (unsettled \/ loads # <<>>)

\* onItemSelected: starts a load, and forgets it.
SelectAlbum(a) ==
  /\ chosen' = a
  /\ loads' = Append(loads, a) /\ loaded' = loaded + 1
  /\ unsettled' = (unsettled \/ loads # <<>>)

\* loadDefaultAlbumAndPhotos: the permissions.  Before Android M a refusal only
\* shows a toast and leaves the progress indicator.
AnswerPermission ==
  /\ starting = "permission"
  /\ \/ starting' = "albums" /\ UNCHANGED progress
     \/ starting' = "failed" /\ progress' \in BOOLEAN
  /\ UNCHANGED <<listVars, chosen, loads, loaded, unsettled, shown, checked, stripVars, done>>

\* The albums arrive, and a spinner that is still attached selects the first; or
\* there are none, or the query fails.
AlbumsLoaded ==
  /\ starting = "albums" /\ progress' = FALSE
  /\ \/ \E a \in Albums : listening /\ starting' = "done" /\ SelectAlbum(a)
     \/ starting' = "failed" /\ UNCHANGED <<chosen, loads, loaded, unsettled>>
  /\ UNCHANGED <<listVars, shown, checked, stripVars, done>>

ChooseAlbum(a) ==
  /\ listening /\ starting = "done" /\ a # chosen /\ loaded < MaxLoads
  /\ SelectAlbum(a)
  /\ UNCHANGED <<listVars, starting, progress, shown, checked, stripVars, done>>

\* Some load ends, not always the oldest: setData, and every cell is bound anew.
LoadEnds(i) ==
  /\ shown' = loads[i] /\ loads' = RemoveAt(loads, i)
  /\ checked' = PhotosOf[shown'] \cap Selected
  /\ UNCHANGED <<listVars, starting, progress, chosen, loaded, unsettled, stripVars, done>>

\* ... or the query fails, and onError does nothing.
LoadFails(i) ==
  /\ loads' = RemoveAt(loads, i) /\ unsettled' = TRUE
  /\ UNCHANGED <<listVars, checked, starting, progress, chosen, loaded, shown, stripVars, done>>

-----------------------------------------------------------------------------
(* MySelectionViewHelper: dragging the drawer.                             *)

\* onInterceptTouchEvent: a move over a settled drawer may begin a drag.
InterceptMove ==
  /\ listening /\ ~handling /\ strip # <<>> /\ drawer \in {"partial", "complete"}
  /\ handling' = TRUE
  /\ UNCHANGED <<listVars, albumVars, checked, strip, drawer, done>>

\* onTouchEvent: the drag goes on, whatever happened to the strip meanwhile ...
TouchMove ==
  /\ listening /\ handling /\ drawer' = "settling"
  /\ UNCHANGED <<listVars, albumVars, checked, strip, handling, done>>

\* ... and settles the drawer where it ends.
TouchUp ==
  /\ handling /\ handling' = FALSE
  /\ IF strip = <<>> THEN drawer' = "hidden" ELSE drawer' \in {"partial", "complete"}
  /\ UNCHANGED <<listVars, albumVars, checked, strip, done>>

\* onDetachedFromWindow
Detach ==
  /\ listening /\ listening' = FALSE
  /\ UNCHANGED <<selection, posted, notifies, albumVars, checked, stripVars, done>>

-----------------------------------------------------------------------------
Next ==
  \/ \E p \in Photos : ClickPhoto(p) \/ ClickSelection(p)
  \/ RunCallback
  \/ AnswerPermission \/ AlbumsLoaded
  \/ \E a \in Albums : ChooseAlbum(a)
  \/ \E i \in DOMAIN loads : LoadEnds(i) \/ LoadFails(i)
  \/ InterceptMove \/ TouchMove \/ TouchUp
  \/ Detach

Spec == Init /\ [][Next]_vars

-----------------------------------------------------------------------------
\* Every variable holds a value the code can give it; the list keeps its capacity.
TypeOK ==
  /\ selection \in Seq(Photos) /\ Len(selection) <= Capacity
  /\ posted \in Seq(Changes)
  /\ notifies \in BOOLEAN /\ listening \in BOOLEAN /\ progress \in BOOLEAN
  /\ unsettled \in BOOLEAN /\ handling \in BOOLEAN /\ done \in BOOLEAN
  /\ starting \in {"permission", "albums", "done", "failed"}
  /\ chosen \in Albums \cup {None} /\ shown \in Albums \cup {None}
  /\ loads \in Seq(Albums) /\ loaded \in 0..MaxLoads + 1
  /\ checked \subseteq Listed
  /\ strip \in Seq(Photos)
  /\ drawer \in Drawers

\* Where removals are notified, the callbacks that run late, with a list that has
\* moved on and after cells were bound to it, still leave strip and check marks
\* with exactly what is selected, and the Done button exactly if anything is.
DrainedShowsSelection ==
  notifies /\ posted = <<>> =>
    /\ listening => strip = selection /\ checked = Listed \cap Selected
    /\ done <=> selection # <<>>

\* Whatever order callbacks and drags take, a drawer nobody drags is hidden if and
\* only if its strip is empty: getTranslationY never meets the state for which it
\* throws an IllegalStateException.
DrawerMatchesStrip == ~handling => (drawer = "hidden" <=> strip = <<>>) /\ drawer # "settling"

\* The photos listed once no load is under way are those of the album chosen last,
\* unless a load failed or two of them overlapped.
ChosenAlbumIsShown == loads = <<>> /\ ~unsettled => shown = chosen
=============================================================================
