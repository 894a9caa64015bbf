------------------------- MODULE PhotoPickerProofs -------------------------
(***************************************************************************)
(* For any albums, photos and capacity: once the callbacks have run, what  *)
(* the picker shows is what is selected; its drawer is hidden exactly when *)
(* its strip is empty; and the album it lists is the one chosen last.      *)
(***************************************************************************)
EXTENDS PhotoPicker, SequenceTheorems, TLAPS

-----------------------------------------------------------------------------
(* The inductive invariant.                                                *)

\* No photo is selected twice: a click on a selected photo removes it.
NoneTwice == \A i, j \in DOMAIN selection : selection[i] = selection[j] => i = j

\* Callback i is the last one that waits for its photo.
LatestOf(i) == \A j \in DOMAIN posted : j > i => posted[j].photo # posted[i].photo
Waiting(p)  == \E i \in DOMAIN posted : posted[i].photo = p

\* The callback that runs last for a photo says what became of it, a photo without
\* one is checked as it is selected, and the strip is as new as the last callback.
CallbacksAreTrue ==
  notifies => \A i \in DOMAIN posted :
    LatestOf(i) => (posted[i].kind = "added" <=> posted[i].photo \in Selected)
ChecksFollow ==
  notifies /\ listening => \A p \in Photos :
    ~Waiting(p) => (p \in checked <=> p \in Listed /\ p \in Selected)
StripFollows == notifies /\ listening /\ posted = <<>> => strip = selection

\* The Done button of a selection is visible or about to be; that of an empty one is
\* gone, or the removal that emptied it is the last callback.
DoneFollows ==
  /\ selection # <<>> => done \/ \E i \in DOMAIN posted : posted[i].kind = "added"
  /\ notifies /\ selection = <<>> =>
       IF posted = <<>> THEN ~done ELSE posted[Len(posted)].kind = "removed"

\* One load is under way at most, of the album chosen last.
LoadsOfChosen ==
  ~unsettled => /\ Len(loads) <= 1
                /\ IF loads = <<>> THEN shown = chosen ELSE loads[1] = chosen

\* Nothing is loaded before there are albums.
NotStarted == starting \in {"permission", "albums"} => loaded = 0

Inv ==
  /\ TypeOK /\ NoneTwice /\ CallbacksAreTrue /\ ChecksFollow /\ StripFollows
  /\ DoneFollows /\ LoadsOfChosen /\ NotStarted /\ DrawerMatchesStrip

-----------------------------------------------------------------------------
(* Lemmas about sequences.                                                 *)

\* What is left of a sequence without its i-th element.
LEMMA WithoutOne ==
  ASSUME NEW S, NEW s \in Seq(S), NEW i \in 1..Len(s)
  PROVE  LET r == RemoveAt(s, i) IN
         /\ r \in Seq(S) /\ Len(r) = Len(s) - 1
         /\ \A k \in 1..Len(r) : r[k] = IF k < i THEN s[k] ELSE s[k + 1]
  <1> DEFINE a == SubSeq(s, 1, i - 1)
             b == SubSeq(s, i + 1, Len(s))
  <1>1. Len(s) \in Nat /\ \A k \in 1..Len(s) : s[k] \in S
    OBVIOUS
  <1>2. /\ a \in Seq(S) /\ Len(a) = i - 1
        /\ \A k \in 1..(i - 1) : a[k] = s[k]
    <2>1. \A k \in 1..(i - 1) : s[k] \in S
      BY <1>1
    <2> QED BY <1>1, <2>1, SubSeqProperties
  <1>3. /\ b \in Seq(S) /\ Len(b) = Len(s) - i
        /\ \A k \in 1..(Len(s) - i) : b[k] = s[i + k]
    <2>1. \A k \in (i + 1)..Len(s) : s[k] \in S
      BY <1>1
    <2> QED BY <1>1, <2>1, SubSeqProperties
  <1> HIDE DEF a, b
  <1>4. /\ a \o b \in Seq(S) /\ Len(a \o b) = Len(a) + Len(b)
        /\ \A k \in 1..(Len(a) + Len(b)) : (a \o b)[k] = IF k <= Len(a) THEN a[k] ELSE b[k - Len(a)]
    BY <1>2, <1>3, ConcatProperties
  <1>5. RemoveAt(s, i) = a \o b
    BY DEF RemoveAt, a, b
  <1> DEFINE r == a \o b
  <1>6. r \in Seq(S) /\ Len(r) = Len(s) - 1
    BY <1>1, <1>2, <1>3, <1>4
  <1>7. ASSUME NEW k \in 1..Len(r) PROVE r[k] = IF k < i THEN s[k] ELSE s[k + 1]
    <2>1. r[k] = IF k <= Len(a) THEN a[k] ELSE b[k - Len(a)]
      BY <1>1, <1>2, <1>3, <1>4, <1>6
    <2> HIDE DEF r
    <2>2. CASE k < i
      <3>1. k <= Len(a) /\ k \in 1..(i - 1)
        BY <1>1, <1>2, <1>6, <2>2
      <3> QED BY <1>2, <2>1, <2>2, <3>1
    <2>3. CASE k >= i
      <3>1. ~(k <= Len(a)) /\ k - Len(a) \in 1..(Len(s) - i) /\ i + (k - Len(a)) = k + 1
        BY <1>1, <1>2, <1>6, <2>3
      <3>2. b[k - Len(a)] = s[i + (k - Len(a))]
        BY <1>3, <3>1
      <3> QED BY <2>1, <2>3, <3>1, <3>2
    <2> QED BY <1>1, <1>6, <2>2, <2>3
  <1> QED BY <1>5, <1>6, <1>7

\* A sequence without repetitions from which an element is removed has all the others,
\* and no repetitions.
LEMMA WithoutPhoto ==
  ASSUME NEW S, NEW s \in Seq(S), NEW i \in 1..Len(s),
         \A j, k \in 1..Len(s) : s[j] = s[k] => j = k
  PROVE  LET r == RemoveAt(s, i) IN
         /\ ToSet(r) = ToSet(s) \ {s[i]}
         /\ \A j, k \in 1..Len(r) : r[j] = r[k] => j = k
  <1> DEFINE r == RemoveAt(s, i)
  <1>1. /\ Len(s) \in Nat /\ r \in Seq(S) /\ Len(r) = Len(s) - 1
        /\ \A k \in 1..Len(r) : r[k] = IF k < i THEN s[k] ELSE s[k + 1]
    BY WithoutOne
  <1> HIDE DEF r
  <1>2. DOMAIN r = 1..Len(r) /\ DOMAIN s = 1..Len(s)
    BY <1>1
  <1>3. ASSUME NEW k \in 1..Len(r) PROVE r[k] \in ToSet(s) \ {s[i]}
    <2>1. /\ (IF k < i THEN k ELSE k + 1) \in 1..Len(s)
          /\ (IF k < i THEN k ELSE k + 1) # i
          /\ r[k] = s[IF k < i THEN k ELSE k + 1]
      BY <1>1
    <2> QED BY <1>2, <2>1 DEF ToSet
  <1>4. ASSUME NEW k \in 1..Len(s), s[k] # s[i] PROVE s[k] \in ToSet(r)
    <2>1. CASE k < i
      <3>1. k \in 1..Len(r) /\ r[k] = s[k]
        BY <1>1, <2>1
      <3> QED BY <1>2, <3>1 DEF ToSet
    <2>2. CASE k > i
      <3>1. k - 1 \in 1..Len(r) /\ r[k - 1] = s[k]
        BY <1>1, <2>2
      <3> QED BY <1>2, <3>1 DEF ToSet
    <2> QED BY <1>4, <2>1, <2>2
  <1>5. ToSet(r) = ToSet(s) \ {s[i]}
    BY <1>2, <1>3, <1>4 DEF ToSet
  <1>6. ASSUME NEW j \in 1..Len(r), NEW k \in 1..Len(r), r[j] = r[k] PROVE j = k
    <2>1. /\ (IF j < i THEN j ELSE j + 1) \in 1..Len(s) /\ (IF k < i THEN k ELSE k + 1) \in 1..Len(s)
          /\ r[j] = s[IF j < i THEN j ELSE j + 1] /\ r[k] = s[IF k < i THEN k ELSE k + 1]
      BY <1>1
    <2>2. (IF j < i THEN j ELSE j + 1) = (IF k < i THEN k ELSE k + 1)
      BY <1>6, <2>1
    <2> QED BY <2>2
  <1> QED BY <1>5, <1>6 DEF r

\* What is in a sequence with one more element.
LEMMA WithPhoto ==
  ASSUME NEW S, NEW s \in Seq(S), NEW p \in S
  PROVE  LET r == Append(s, p) IN
         /\ r \in Seq(S) /\ Len(r) = Len(s) + 1 /\ r[Len(s) + 1] = p
         /\ \A k \in 1..Len(s) : r[k] = s[k]
         /\ ToSet(r) = ToSet(s) \cup {p}
  <1> DEFINE r == Append(s, p)
  <1>1. /\ Len(s) \in Nat /\ r \in Seq(S) /\ Len(r) = Len(s) + 1 /\ r[Len(s) + 1] = p
        /\ \A k \in 1..Len(s) : r[k] = s[k]
        /\ DOMAIN r = 1..Len(r) /\ DOMAIN s = 1..Len(s)
    OBVIOUS
  <1> HIDE DEF r
  <1>2. \A k \in 1..Len(r) : k \in 1..Len(s) \/ k = Len(s) + 1
    BY <1>1
  <1>3. Len(s) + 1 \in 1..Len(r) /\ \A k \in 1..Len(s) : k \in 1..Len(r)
    BY <1>1
  <1>4. ToSet(r) = ToSet(s) \cup {p}
    BY <1>1, <1>2, <1>3 DEF ToSet
  <1> QED BY <1>1, <1>4 DEF r

-----------------------------------------------------------------------------
(* The initial state, and the types.                                       *)

\* Before the permission is answered nothing is selected, loaded or shown.
LEMMA Starts == Init => Inv
  <1> SUFFICES ASSUME Init PROVE Inv
    OBVIOUS
  <1>1. /\ selection \in Seq(Photos) /\ Len(selection) = 0
        /\ posted \in Seq(Changes) /\ Len(posted) = 0
        /\ loads \in Seq(Albums) /\ Len(loads) = 0
        /\ strip \in Seq(Photos)
    BY DEF Init
  <1>2. /\ notifies \in BOOLEAN /\ listening \in BOOLEAN /\ progress \in BOOLEAN
        /\ unsettled \in BOOLEAN /\ handling \in BOOLEAN /\ done \in BOOLEAN
    BY Zenon DEF Init
  <1>3. TypeOK
    BY <1>1, <1>2, PickerAssumption DEF Init, TypeOK, Drawers
  <1>4. NoneTwice /\ CallbacksAreTrue
    BY <1>1 DEF NoneTwice, CallbacksAreTrue
  <1>5. ChecksFollow
    BY DEF Init, ChecksFollow, Listed
  <1>6. StripFollows /\ DoneFollows /\ LoadsOfChosen /\ NotStarted /\ DrawerMatchesStrip
    BY <1>1 DEF Init, StripFollows, DoneFollows, LoadsOfChosen, NotStarted, DrawerMatchesStrip
  <1> QED BY <1>3, <1>4, <1>5, <1>6 DEF Inv

-----------------------------------------------------------------------------
(* The list and its callbacks.                                             *)

\* A callback is posted behind the others: it is the last one of its photo, and the
\* other photos keep theirs.
LEMMA Posted ==
  ASSUME TypeOK, NEW kind \in {"added", "removed"}, NEW p \in Photos, Dispatch(kind, p)
  PROVE  /\ posted' \in Seq(Changes) /\ posted' # <<>>
         /\ posted'[Len(posted')] = [kind |-> kind, photo |-> p]
         /\ \A i \in DOMAIN posted : i \in DOMAIN posted' /\ posted'[i] = posted[i]
         /\ \A i \in DOMAIN posted' : i \in DOMAIN posted \/ i = Len(posted')
         /\ Len(posted') \in DOMAIN posted' /\ \A i \in DOMAIN posted : i < Len(posted')
  <1> DEFINE c == [kind |-> kind, photo |-> p]
  <1>1. c \in Changes
    BY DEF Changes
  <1>2. posted \in Seq(Changes) /\ posted' = Append(posted, c)
    BY DEF TypeOK, Dispatch
  <1> HIDE DEF c
  <1>3. /\ Len(posted) \in Nat /\ posted' \in Seq(Changes) /\ Len(posted') = Len(posted) + 1
        /\ posted'[Len(posted) + 1] = c /\ \A i \in 1..Len(posted) : posted'[i] = posted[i]
    BY <1>1, <1>2, WithPhoto
  <1>4. DOMAIN posted = 1..Len(posted) /\ DOMAIN posted' = 1..Len(posted')
    BY <1>2, <1>3
  <1>5. posted' # <<>>
    BY <1>3
  <1> QED BY <1>3, <1>4, <1>5 DEF c

\* Every change of the list that is posted leaves the invariants of the callbacks.
LEMMA PostedIsTrue ==
  ASSUME Inv, NEW kind \in {"added", "removed"}, NEW p \in Photos, Dispatch(kind, p),
         IF kind = "added" THEN Selected' = Selected \cup {p} ELSE Selected' = Selected \ {p},
         UNCHANGED <<notifies, listening, checked, shown>>
  PROVE  CallbacksAreTrue' /\ ChecksFollow'
  <1> DEFINE last == Len(posted')
  <1>1. /\ posted' # <<>> /\ last \in DOMAIN posted'
        /\ posted'[last] = [kind |-> kind, photo |-> p]
        /\ \A i \in DOMAIN posted : i \in DOMAIN posted' /\ posted'[i] = posted[i]
        /\ \A i \in DOMAIN posted' : i \in DOMAIN posted \/ i = last
        /\ \A i \in DOMAIN posted : i < last
    BY Posted DEF Inv
  <1> HIDE DEF last
  <1>2. posted'[last].kind = kind /\ posted'[last].photo = p
    BY <1>1
  <1>3. \A q \in Photos : q # p => (q \in Selected' <=> q \in Selected)
    OBVIOUS
  <1>4. p \in Selected' <=> kind = "added"
    OBVIOUS
  <1>5. ASSUME notifies', NEW i \in DOMAIN posted', LatestOf(i)'
        PROVE  posted'[i].kind = "added" <=> posted'[i].photo \in Selected'
    <2>1. CASE i = last
      BY <1>2, <1>4, <2>1
    <2>2. CASE i \in DOMAIN posted /\ i # last
      <3>1. posted'[i].photo # p
        BY <1>1, <1>2, <1>5, <2>2 DEF LatestOf
      <3>2. LatestOf(i)
        BY <1>1, <1>5, <2>2 DEF LatestOf
      <3>3. posted[i].kind = "added" <=> posted[i].photo \in Selected
        BY <1>5, <2>2, <3>2 DEF Inv, CallbacksAreTrue
      <3>4. posted[i].photo \in Selected' <=> posted[i].photo \in Selected
        BY <1>1, <2>2, <3>1
      <3> QED BY <1>1, <2>2, <3>3, <3>4
    <2> QED BY <1>1, <2>1, <2>2
  <1>6. ASSUME notifies', listening', NEW q \in Photos, ~Waiting(q)'
        PROVE  q \in checked' <=> q \in Listed' /\ q \in Selected'
    <2>1. q # p
      BY <1>1, <1>2, <1>6 DEF Waiting
    <2>2. ~Waiting(q)
      BY <1>1, <1>6 DEF Waiting
    <2>3. q \in checked <=> q \in Listed /\ q \in Selected
      BY <1>6, <2>2 DEF Inv, ChecksFollow
    <2> QED BY <1>3, <2>1, <2>3 DEF Listed
  <1> QED BY <1>5, <1>6 DEF CallbacksAreTrue, ChecksFollow

\* add(): the list has one more photo, which it did not have, and its callback.
LEMMA AddKeepsInv ==
  ASSUME Inv, NEW p \in Photos, p \notin Selected, Add(p),
         UNCHANGED <<notifies, listening, albumVars, checked, stripVars, done>>
  PROVE  Inv'
  <1>0. /\ TypeOK /\ selection \in Seq(Photos) /\ Len(selection) <= Capacity
        /\ Len(selection) \in Nat /\ DOMAIN selection = 1..Len(selection)
        /\ Capacity \in Nat
    BY PickerAssumption DEF Inv, TypeOK
  <1>f. /\ UNCHANGED <<notifies, listening, starting, progress, chosen, loads, loaded,
                       unsettled, shown, checked, strip, drawer, handling, done>>
        /\ Listed' = Listed
    BY DEF albumVars, stripVars, Listed
  <1>1. CASE UNCHANGED <<selection, posted>>
    <2>1. Selected' = Selected
      BY <1>1 DEF Selected
    <2> QED BY <1>1, <1>f, <2>1 DEF Inv, TypeOK, NoneTwice, CallbacksAreTrue, LatestOf,
      ChecksFollow, Waiting, StripFollows, DoneFollows, LoadsOfChosen, NotStarted, DrawerMatchesStrip
  <1>2. CASE /\ Len(selection) # Capacity
             /\ selection' = Append(selection, p) /\ Dispatch("added", p)
    <2>1. /\ selection' \in Seq(Photos) /\ Len(selection') = Len(selection) + 1
          /\ selection'[Len(selection) + 1] = p
          /\ \A k \in 1..Len(selection) : selection'[k] = selection[k]
          /\ Selected' = Selected \cup {p}
      <3> DEFINE r == Append(selection, p)
      <3>1. /\ r \in Seq(Photos) /\ Len(r) = Len(selection) + 1 /\ r[Len(selection) + 1] = p
            /\ \A k \in 1..Len(selection) : r[k] = selection[k]
            /\ ToSet(r) = ToSet(selection) \cup {p}
        BY <1>0, WithPhoto
      <3>2. selection' = r
        BY <1>2
      <3> HIDE DEF r
      <3>3. Selected' = ToSet(r)
        BY <3>2 DEF Selected, ToSet
      <3> QED BY <3>1, <3>2, <3>3, Zenon DEF Selected
    <2>2. Len(selection') <= Capacity /\ DOMAIN selection' = 1..Len(selection')
          /\ selection' # <<>>
      <3> DEFINE n == Len(selection)
      <3>0. n # Capacity /\ n \in Nat /\ Capacity \in Nat /\ n <= Capacity
        BY <1>0, <1>2, Zenon
      <3>1. Len(selection) < Capacity
        <4> HIDE DEF n
        <4>1. n < Capacity
          BY <3>0
        <4> QED BY <4>1 DEF n
      <3>2. Len(selection') <= Capacity /\ Len(selection') # 0
        BY <1>0, <2>1, <3>1, SMTT(30)
      <3> QED BY <2>1, <3>2, SMTT(30)
    <2>3. /\ posted' \in Seq(Changes) /\ posted' # <<>>
          /\ Len(posted') \in DOMAIN posted'
          /\ posted'[Len(posted')] = [kind |-> "added", photo |-> p]
      BY <1>0, <1>2, Posted
    <2>4. CallbacksAreTrue' /\ ChecksFollow'
      BY <1>2, <1>f, <2>1, PostedIsTrue
    <2>5. TypeOK'
      BY <1>0, <1>f, <2>1, <2>2, <2>3, Zenon DEF TypeOK
    <2>6. NoneTwice'
      <3>1. \A k \in 1..Len(selection) : selection'[k] # p
        BY <1>0, <2>1 DEF Selected, ToSet
      <3>2. \A k \in 1..Len(selection') : k \in 1..Len(selection) \/ k = Len(selection) + 1
        BY <1>0, <2>1
      <3> QED BY <1>0, <2>1, <2>2, <3>1, <3>2 DEF Inv, NoneTwice
    <2>7. DoneFollows'
      BY <2>2, <2>3 DEF DoneFollows
    <2>8. StripFollows' /\ LoadsOfChosen' /\ NotStarted' /\ DrawerMatchesStrip'
      BY <1>f, <2>3 DEF Inv, StripFollows, LoadsOfChosen, NotStarted, DrawerMatchesStrip
    <2> QED BY <2>4, <2>5, <2>6, <2>7, <2>8 DEF Inv
  <1> QED BY <1>1, <1>2 DEF Add

\* remove(Object): the list has one photo less, and its callback where the platform
\* gives it one.
LEMMA RemoveKeepsInv ==
  ASSUME Inv, NEW p \in Photos, RemovePhoto(p),
         UNCHANGED <<notifies, listening, albumVars, checked, stripVars, done>>
  PROVE  Inv'
  <1>0. /\ TypeOK /\ selection \in Seq(Photos) /\ Len(selection) <= Capacity
        /\ Len(selection) \in Nat /\ DOMAIN selection = 1..Len(selection)
        /\ Capacity \in Nat /\ \A j, k \in 1..Len(selection) : selection[j] = selection[k] => j = k
    BY PickerAssumption DEF Inv, TypeOK, NoneTwice
  <1>f. /\ UNCHANGED <<notifies, listening, starting, progress, chosen, loads, loaded,
                       unsettled, shown, checked, strip, drawer, handling, done>>
        /\ Listed' = Listed
    BY DEF albumVars, stripVars, Listed
  <1>1. PICK i \in 1..Len(selection) : selection[i] = p /\ selection' = RemoveAt(selection, i)
    BY <1>0 DEF RemovePhoto
  <1>2. /\ selection' \in Seq(Photos) /\ Len(selection') = Len(selection) - 1
        /\ Selected' = Selected \ {p}
        /\ \A j, k \in 1..Len(selection') : selection'[j] = selection'[k] => j = k
    <2> DEFINE r == RemoveAt(selection, i)
    <2>1. r \in Seq(Photos) /\ Len(r) = Len(selection) - 1
      BY <1>0, WithoutOne, Zenon
    <2>2. /\ ToSet(r) = ToSet(selection) \ {selection[i]}
          /\ \A j, k \in 1..Len(r) : r[j] = r[k] => j = k
      BY <1>0, WithoutPhoto, Zenon
    <2>3. selection' = r
      BY <1>1
    <2> HIDE DEF r
    <2>4. Selected' = ToSet(r)
      BY <2>3 DEF Selected, ToSet
    <2> QED BY <1>1, <2>1, <2>2, <2>3, <2>4, Zenon DEF Selected
  <1>3. Len(selection') <= Capacity /\ DOMAIN selection' = 1..Len(selection') /\ selection # <<>>
    BY <1>0, <1>1, <1>2
  <1>4. NoneTwice'
    BY <1>2, <1>3 DEF NoneTwice
  <1>5. CASE notifies /\ Dispatch("removed", p)
    <2>3. /\ posted' \in Seq(Changes) /\ posted' # <<>>
          /\ Len(posted') \in DOMAIN posted'
          /\ posted'[Len(posted')] = [kind |-> "removed", photo |-> p]
          /\ \A k \in DOMAIN posted : k \in DOMAIN posted' /\ posted'[k] = posted[k]
      BY <1>0, <1>5, Posted
    <2>4. CallbacksAreTrue' /\ ChecksFollow'
      BY <1>2, <1>5, <1>f, PostedIsTrue
    <2>5. TypeOK'
      BY <1>0, <1>f, <1>2, <1>3, <2>3, Zenon DEF TypeOK
    <2>6. done' \/ \E k \in DOMAIN posted' : posted'[k].kind = "added"
      BY <1>3, <1>f, <2>3 DEF Inv, DoneFollows
    <2>7. DoneFollows'
      BY <2>3, <2>6 DEF DoneFollows
    <2>8. StripFollows' /\ LoadsOfChosen' /\ NotStarted' /\ DrawerMatchesStrip'
      BY <1>f, <2>3 DEF Inv, StripFollows, LoadsOfChosen, NotStarted, DrawerMatchesStrip
    <2> QED BY <1>4, <2>4, <2>5, <2>7, <2>8 DEF Inv
  <1>6. CASE ~notifies /\ UNCHANGED posted
    <2>1. TypeOK'
      BY <1>0, <1>6, <1>f, <1>2, <1>3, Zenon DEF TypeOK
    <2>2. CallbacksAreTrue' /\ ChecksFollow' /\ StripFollows'
      BY <1>6, <1>f DEF CallbacksAreTrue, ChecksFollow, StripFollows
    <2>3. DoneFollows'
      BY <1>3, <1>6, <1>f DEF Inv, DoneFollows
    <2>4. LoadsOfChosen' /\ NotStarted' /\ DrawerMatchesStrip'
      BY <1>f DEF Inv, LoadsOfChosen, NotStarted, DrawerMatchesStrip
    <2> QED BY <1>4, <2>1, <2>2, <2>3, <2>4 DEF Inv
  <1> QED BY <1>5, <1>6 DEF RemovePhoto

\* A callback that runs shows the list as it is by then.
LEMMA RunKeepsInv ==
  ASSUME Inv, RunCallback
  PROVE  Inv'
  <1> DEFINE c == Head(posted)
  <1>0. /\ TypeOK /\ posted \in Seq(Changes) /\ posted # <<>> /\ posted' = Tail(posted)
        /\ UNCHANGED <<selection, notifies, listening, starting, progress, chosen, loads,
                       loaded, unsettled, shown, handling>>
        /\ done' = IF c.kind = "added" THEN TRUE ELSE done /\ selection # <<>>
    BY DEF Inv, TypeOK, RunCallback, albumVars, ActivityListener
  <1>1. /\ c \in Changes /\ c = posted[1] /\ posted' \in Seq(Changes)
        /\ Len(posted) \in Nat \ {0} /\ Len(posted') = Len(posted) - 1
        /\ \A i \in 1..Len(posted') : posted'[i] = posted[i + 1]
        /\ DOMAIN posted = 1..Len(posted) /\ DOMAIN posted' = 1..Len(posted')
    BY <1>0, HeadTailProperties
  <1>2. c.kind \in {"added", "removed"} /\ c.photo \in Photos
    BY <1>1 DEF Changes
  <1>3. Selected' = Selected /\ Listed' = Listed
    BY <1>0 DEF Selected, Listed
  <1> HIDE DEF c
  <1>4. \/ /\ listening /\ strip' = selection
           /\ checked' = IF c.kind = "removed" THEN checked \ {c.photo}
                         ELSE checked \cup ({c.photo} \cap Listed)
           /\ drawer' = IF selection = <<>> THEN "hidden"
                        ELSE IF drawer = "hidden" THEN "partial" ELSE drawer
        \/ ~listening /\ UNCHANGED <<checked, strip, drawer>>
    BY DEF RunCallback, OnSelectionChanged, NotifyPhotos, OnListUpdate, c
  <1>5. done' \in BOOLEAN
    BY <1>0 DEF TypeOK
  <1>6. checked' \subseteq Listed'
    BY <1>0, <1>3, <1>4 DEF TypeOK
  <1>7. strip' \in Seq(Photos) /\ drawer' \in Drawers
    BY <1>0, <1>4 DEF TypeOK, Drawers
  <1>8. TypeOK'
    BY <1>0, <1>1, <1>5, <1>6, <1>7, Zenon DEF TypeOK
  <1>9. CallbacksAreTrue'
    <2> SUFFICES ASSUME notifies', NEW i \in DOMAIN posted', LatestOf(i)'
                 PROVE  posted'[i].kind = "added" <=> posted'[i].photo \in Selected'
      BY DEF CallbacksAreTrue
    <2>1. i + 1 \in DOMAIN posted /\ posted'[i] = posted[i + 1] /\ i \in Nat
      BY <1>1
    <2>2. ASSUME NEW j \in DOMAIN posted, j > i + 1 PROVE posted[j].photo # posted[i + 1].photo
      <3>1. j - 1 \in DOMAIN posted' /\ posted'[j - 1] = posted[j] /\ j - 1 > i
        BY <1>1, <2>1, <2>2
      <3> QED BY <2>1, <3>1 DEF LatestOf
    <2>3. LatestOf(i + 1)
      BY <2>2 DEF LatestOf
    <2> QED BY <1>0, <1>3, <2>1, <2>3 DEF Inv, CallbacksAreTrue
  <1>10. ChecksFollow'
    <2> SUFFICES ASSUME notifies', listening', NEW q \in Photos, ~Waiting(q)'
                 PROVE  q \in checked' <=> q \in Listed' /\ q \in Selected'
      BY DEF ChecksFollow
    <2>1. ASSUME NEW j \in DOMAIN posted, j > 1 PROVE posted[j].photo # q
      <3>1. j - 1 \in DOMAIN posted' /\ posted'[j - 1] = posted[j]
        BY <1>1, <2>1
      <3> QED BY <3>1 DEF Waiting
    <2>2. CASE q = c.photo
      <3>1. 1 \in DOMAIN posted /\ LatestOf(1)
        BY <1>1, <2>1, <2>2 DEF LatestOf
      <3>2. c.kind = "added" <=> q \in Selected
        BY <1>0, <1>1, <2>2, <3>1 DEF Inv, CallbacksAreTrue
      <3>3. checked \subseteq Listed
        BY <1>0 DEF TypeOK
      <3>4. CASE c.kind = "added"
        <4>1. checked' = checked \cup ({q} \cap Listed)
          BY <1>0, <1>4, <2>2, <3>4
        <4> QED BY <1>3, <3>2, <3>3, <3>4, <4>1
      <3>5. CASE c.kind = "removed"
        <4>1. checked' = checked \ {q}
          BY <1>0, <1>4, <2>2, <3>5
        <4> QED BY <1>3, <3>2, <3>5, <4>1
      <3> QED BY <1>2, <3>4, <3>5
    <2>3. CASE q # c.photo
      <3>1. ~Waiting(q)
        <4> SUFFICES ASSUME NEW j \in DOMAIN posted PROVE posted[j].photo # q
          BY DEF Waiting
        <4>1. j = 1 \/ j > 1
          BY <1>1
        <4> QED BY <1>1, <2>1, <2>3, <4>1
      <3>2. q \in checked <=> q \in Listed /\ q \in Selected
        BY <1>0, <3>1 DEF Inv, ChecksFollow
      <3>3. q \in checked' <=> q \in checked
        BY <1>0, <1>4, <2>3
      <3> QED BY <1>3, <3>2, <3>3
    <2> QED BY <2>2, <2>3
  <1>11. StripFollows'
    BY <1>0, <1>4 DEF StripFollows
  <1>12. DoneFollows'
    <2>1. ASSUME selection # <<>>
          PROVE  done' \/ \E i \in DOMAIN posted' : posted'[i].kind = "added"
      <3>1. CASE c.kind = "added"
        BY <1>0, <3>1
      <3>2. CASE c.kind = "removed" /\ done
        BY <1>0, <2>1, <3>2
      <3>3. CASE c.kind = "removed" /\ ~done
        <4>1. PICK j \in DOMAIN posted : posted[j].kind = "added"
          BY <2>1, <3>3 DEF Inv, DoneFollows
        <4>2. j # 1
          BY <1>1, <3>3, <4>1
        <4>3. j - 1 \in DOMAIN posted' /\ posted'[j - 1] = posted[j]
          BY <1>1, <4>2
        <4> QED BY <4>1, <4>3
      <3> QED BY <1>2, <3>1, <3>2, <3>3
    <2>2. ASSUME notifies, selection = <<>>
          PROVE  IF posted' = <<>> THEN ~done' ELSE posted'[Len(posted')].kind = "removed"
      <3>1. posted[Len(posted)].kind = "removed"
        BY <1>0, <2>2 DEF Inv, DoneFollows
      <3>2. CASE Len(posted) = 1
        <4>1. posted' = <<>> /\ c.kind = "removed"
          BY <1>1, <3>1, <3>2
        <4> QED BY <1>0, <2>2, <4>1
      <3>3. CASE Len(posted) > 1
        <4>1. Len(posted') \in 1..Len(posted') /\ Len(posted') + 1 = Len(posted) /\ posted' # <<>>
          BY <1>1, <3>3
        <4>2. posted'[Len(posted')] = posted[Len(posted)]
          BY <1>1, <4>1
        <4> QED BY <3>1, <4>1, <4>2
      <3> QED BY <1>1, <3>2, <3>3
    <2> QED BY <1>0, <2>1, <2>2 DEF DoneFollows
  <1>13. LoadsOfChosen' /\ NotStarted' /\ NoneTwice'
    BY <1>0 DEF Inv, LoadsOfChosen, NotStarted, NoneTwice
  <1>14. DrawerMatchesStrip'
    BY <1>0, <1>4 DEF Inv, DrawerMatchesStrip
  <1> QED BY <1>8, <1>9, <1>10, <1>11, <1>12, <1>13, <1>14 DEF Inv

-----------------------------------------------------------------------------
(* The albums.                                                             *)

\* onItemSelected begins a load of the album that is chosen with it.
LEMMA SelectKeepsInv ==
  ASSUME Inv, NEW a \in Albums, SelectAlbum(a), loaded <= MaxLoads,
         starting' = "done", progress' \in BOOLEAN,
         UNCHANGED <<listVars, shown, checked, stripVars, done>>
  PROVE  Inv'
  <1>0. /\ TypeOK /\ loads \in Seq(Albums) /\ loaded \in Nat /\ MaxLoads \in Nat
        /\ Len(loads) \in Nat /\ unsettled \in BOOLEAN
    BY PickerAssumption DEF Inv, TypeOK
  <1>1. /\ UNCHANGED <<selection, posted, notifies, listening, shown, checked, strip,
                       drawer, handling, done>>
        /\ Listed' = Listed /\ Selected' = Selected
    BY DEF listVars, stripVars, Listed, Selected
  <1>2. /\ chosen' = a /\ loaded' \in 0..(MaxLoads + 1)
        /\ loads' = Append(loads, a) /\ loads' \in Seq(Albums)
        /\ unsettled' = (unsettled \/ loads # <<>>)
    BY <1>0 DEF SelectAlbum
  <1>3. unsettled' \in BOOLEAN
    BY <1>2
  <1>4. TypeOK'
    BY <1>0, <1>1, <1>2, <1>3, Zenon DEF TypeOK
  <1>5. LoadsOfChosen'
    <2>1. ~unsettled' => loads = <<>>
      BY <1>2
    <2>2. loads = <<>> => Len(loads') = 1 /\ loads' # <<>> /\ loads'[1] = a
      BY <1>0, <1>2
    <2> QED BY <1>2, <2>1, <2>2 DEF LoadsOfChosen
  <1>6. NoneTwice' /\ CallbacksAreTrue' /\ ChecksFollow' /\ StripFollows' /\ DoneFollows'
    BY <1>1 DEF Inv, NoneTwice, CallbacksAreTrue, LatestOf, ChecksFollow, Waiting,
      StripFollows, DoneFollows
  <1>7. NotStarted' /\ DrawerMatchesStrip'
    BY <1>1 DEF Inv, NotStarted, DrawerMatchesStrip
  <1> QED BY <1>4, <1>5, <1>6, <1>7 DEF Inv

\* A load that ends, in whichever order, is no longer under way; if it was the only
\* one and is shown, what is shown was chosen last.
LEMMA LoadKeepsInv ==
  ASSUME Inv, NEW i \in DOMAIN loads, LoadEnds(i) \/ LoadFails(i)
  PROVE  Inv'
  <1>0. /\ TypeOK /\ loads \in Seq(Albums) /\ DOMAIN loads = 1..Len(loads) /\ Len(loads) \in Nat
        /\ i \in 1..Len(loads)
    BY DEF Inv, TypeOK
  <1>1. /\ UNCHANGED <<selection, posted, notifies, listening, starting, progress, chosen,
                       loaded, strip, drawer, handling, done>>
        /\ Selected' = Selected /\ loads' = RemoveAt(loads, i)
    BY DEF LoadEnds, LoadFails, listVars, stripVars, Selected
  <1>2. loads' \in Seq(Albums) /\ Len(loads') = Len(loads) - 1
    <2> DEFINE r == RemoveAt(loads, i)
    <2>1. r \in Seq(Albums) /\ Len(r) = Len(loads) - 1
      BY <1>0, WithoutOne, Zenon
    <2> HIDE DEF r
    <2> QED BY <1>1, <2>1 DEF r
  <1>3. NoneTwice' /\ CallbacksAreTrue' /\ StripFollows' /\ DoneFollows' /\ NotStarted'
        /\ DrawerMatchesStrip'
    BY <1>1 DEF Inv, NoneTwice, CallbacksAreTrue, LatestOf, StripFollows, DoneFollows,
      NotStarted, DrawerMatchesStrip
  <1>4. CASE LoadEnds(i)
    <2>1. shown' = loads[i] /\ shown' \in Albums /\ unsettled' = unsettled
      BY <1>0, <1>4 DEF LoadEnds
    <2>2. Listed' = PhotosOf[shown'] /\ checked' = PhotosOf[shown'] \cap Selected
      BY <1>4, <2>1, PickerAssumption DEF LoadEnds, Listed
    <2>3. TypeOK'
      BY <1>0, <1>1, <1>2, <2>1, <2>2, Zenon DEF TypeOK
    <2>4. ChecksFollow'
      BY <1>1, <2>2 DEF ChecksFollow
    <2>5. LoadsOfChosen'
      <3> SUFFICES ASSUME ~unsettled PROVE Len(loads') = 0 /\ shown' = chosen
        BY <1>1, <1>2, <2>1 DEF LoadsOfChosen
      <3>1. Len(loads) <= 1 /\ (loads # <<>> => loads[1] = chosen)
        BY DEF Inv, LoadsOfChosen
      <3>2. i = 1 /\ Len(loads) = 1 /\ loads # <<>>
        BY <1>0, <3>1
      <3> QED BY <1>2, <2>1, <3>1, <3>2
    <2> QED BY <1>3, <2>3, <2>4, <2>5 DEF Inv
  <1>5. CASE LoadFails(i)
    <2>1. UNCHANGED <<shown, checked>> /\ unsettled' = TRUE
      BY <1>5 DEF LoadFails
    <2>2. Listed' = Listed
      BY <2>1 DEF Listed
    <2>3. TypeOK'
      BY <1>0, <1>1, <1>2, <2>1, <2>2, Zenon DEF TypeOK
    <2>4. ChecksFollow' /\ LoadsOfChosen'
      BY <1>1, <2>1, <2>2 DEF Inv, ChecksFollow, Waiting, LoadsOfChosen
    <2> QED BY <1>3, <2>3, <2>4 DEF Inv
  <1> QED BY <1>4, <1>5

-----------------------------------------------------------------------------
(* The specification.                                                      *)

\* What a step that touches neither list nor albums leaves to be shown.
LEMMA DrawerKeepsInv ==
  ASSUME Inv, UNCHANGED <<selection, posted, notifies, albumVars, checked, strip, done>>,
         listening' \in BOOLEAN, listening' => listening,
         handling' \in BOOLEAN, drawer' \in Drawers, DrawerMatchesStrip'
  PROVE  Inv'
  <1>1. /\ UNCHANGED <<selection, posted, notifies, starting, progress, chosen, loads,
                       loaded, unsettled, shown, checked, strip, done>>
        /\ Listed' = Listed /\ Selected' = Selected
    BY DEF albumVars, Listed, Selected
  <1>2. TypeOK'
    BY <1>1, Zenon DEF Inv, TypeOK
  <1>3. NoneTwice' /\ CallbacksAreTrue' /\ ChecksFollow' /\ StripFollows' /\ DoneFollows'
    BY <1>1 DEF Inv, NoneTwice, CallbacksAreTrue, LatestOf, ChecksFollow, Waiting,
      StripFollows, DoneFollows
  <1>4. LoadsOfChosen' /\ NotStarted'
    BY <1>1 DEF Inv, LoadsOfChosen, NotStarted
  <1> QED BY <1>2, <1>3, <1>4 DEF Inv

\* Inv is inductive.
LEMMA Invariant == Spec => []Inv
  <1>1. Inv /\ [Next]_vars => Inv'
    <2> SUFFICES ASSUME Inv, [Next]_vars PROVE Inv'
      OBVIOUS
    <2>0. /\ TypeOK /\ listening \in BOOLEAN /\ handling \in BOOLEAN /\ drawer \in Drawers
          /\ loaded \in Nat /\ loaded <= MaxLoads + 1 /\ MaxLoads \in Nat
      BY PickerAssumption DEF Inv, TypeOK
    <2>1. ASSUME NEW p \in Photos, ClickPhoto(p) PROVE Inv'
      <3>1. UNCHANGED <<notifies, listening, albumVars, checked, stripVars, done>>
        BY <2>1 DEF ClickPhoto
      <3> QED BY <2>1, <3>1, AddKeepsInv, RemoveKeepsInv DEF ClickPhoto
    <2>2. ASSUME NEW p \in Photos, ClickSelection(p) PROVE Inv'
      <3>1. UNCHANGED <<notifies, listening, albumVars, checked, stripVars, done>>
        BY <2>2 DEF ClickSelection
      <3> QED BY <2>2, <3>1, RemoveKeepsInv DEF ClickSelection
    <2>3. CASE RunCallback
      BY <2>3, RunKeepsInv
    <2>4. CASE AnswerPermission
      <3>1. /\ UNCHANGED <<selection, posted, notifies, listening, chosen, loads, loaded,
                           unsettled, shown, checked, strip, drawer, handling, done>>
            /\ starting = "permission" /\ starting' \in {"albums", "failed"}
        BY <2>4 DEF AnswerPermission, listVars, stripVars
      <3>2. progress' \in BOOLEAN
        BY <2>0, <2>4, Zenon DEF AnswerPermission, TypeOK
      <3>3. TypeOK'
        BY <2>0, <3>1, <3>2 DEF TypeOK, Listed
      <3>4. NoneTwice' /\ CallbacksAreTrue' /\ ChecksFollow' /\ StripFollows' /\ DoneFollows'
        BY <3>1 DEF Inv, NoneTwice, CallbacksAreTrue, LatestOf, ChecksFollow, Waiting,
          StripFollows, DoneFollows, Listed, Selected
      <3>5. LoadsOfChosen' /\ NotStarted' /\ DrawerMatchesStrip'
        BY <3>1 DEF Inv, LoadsOfChosen, NotStarted, DrawerMatchesStrip
      <3> QED BY <3>3, <3>4, <3>5 DEF Inv
    <2>5. CASE AlbumsLoaded
      <3>1. /\ starting = "albums" /\ progress' = FALSE /\ loaded = 0
            /\ UNCHANGED <<listVars, shown, checked, stripVars, done>>
        BY <2>5 DEF AlbumsLoaded, Inv, NotStarted
      <3>2. progress' \in BOOLEAN
        BY <3>1
      <3>3. ASSUME NEW a \in Albums, starting' = "done", SelectAlbum(a) PROVE Inv'
        BY <2>0, <3>1, <3>2, <3>3, SelectKeepsInv
      <3>4. CASE starting' = "failed" /\ UNCHANGED <<chosen, loads, loaded, unsettled>>
        <4>1. UNCHANGED <<selection, posted, notifies, listening, shown, checked, strip,
                          drawer, handling, done>>
          BY <3>1 DEF listVars, stripVars
        <4>2. TypeOK'
          BY <2>0, <3>2, <3>4, <4>1 DEF TypeOK, Listed
        <4>3. NoneTwice' /\ CallbacksAreTrue' /\ ChecksFollow' /\ StripFollows' /\ DoneFollows'
          BY <4>1 DEF Inv, NoneTwice, CallbacksAreTrue, LatestOf, ChecksFollow, Waiting,
            StripFollows, DoneFollows, Listed, Selected
        <4>4. LoadsOfChosen' /\ NotStarted' /\ DrawerMatchesStrip'
          BY <3>4, <4>1 DEF Inv, LoadsOfChosen, NotStarted, DrawerMatchesStrip
        <4> QED BY <4>2, <4>3, <4>4 DEF Inv
      <3> QED BY <2>5, <3>3, <3>4 DEF AlbumsLoaded
    <2>6. ASSUME NEW a \in Albums, ChooseAlbum(a) PROVE Inv'
      <3>1. /\ starting' = "done" /\ loaded < MaxLoads /\ SelectAlbum(a)
            /\ UNCHANGED <<listVars, shown, checked, stripVars, done>> /\ progress' = progress
        BY <2>6 DEF ChooseAlbum
      <3>2. progress' \in BOOLEAN
        BY <2>0, <3>1, Zenon DEF TypeOK
      <3>3. loaded <= MaxLoads
        BY <2>0, <3>1
      <3> QED BY <3>1, <3>2, <3>3, SelectKeepsInv
    <2>7. ASSUME NEW i \in DOMAIN loads, LoadEnds(i) \/ LoadFails(i) PROVE Inv'
      BY <2>7, LoadKeepsInv
    <2>8. CASE InterceptMove
      <3>1. DrawerMatchesStrip' /\ handling' \in BOOLEAN
        BY <2>8 DEF InterceptMove, DrawerMatchesStrip
      <3> QED BY <2>0, <2>8, <3>1, DrawerKeepsInv DEF InterceptMove, listVars
    <2>9. CASE TouchMove
      <3>1. DrawerMatchesStrip' /\ handling' \in BOOLEAN /\ drawer' \in Drawers
        BY <2>0, <2>9 DEF TouchMove, DrawerMatchesStrip, Drawers
      <3> QED BY <2>0, <2>9, <3>1, DrawerKeepsInv DEF TouchMove, listVars
    <2>10. CASE TouchUp
      <3>1. DrawerMatchesStrip' /\ handling' \in BOOLEAN /\ drawer' \in Drawers
        BY <2>10 DEF TouchUp, DrawerMatchesStrip, Drawers
      <3> QED BY <2>0, <2>10, <3>1, DrawerKeepsInv DEF TouchUp, listVars
    <2>11. CASE Detach
      <3>1. UNCHANGED <<strip, drawer, handling>> /\ listening' = FALSE
        BY <2>11 DEF Detach, stripVars
      <3>2. DrawerMatchesStrip' /\ handling' \in BOOLEAN /\ listening' \in BOOLEAN
        BY <2>0, <3>1 DEF Inv, DrawerMatchesStrip
      <3> QED BY <2>0, <2>11, <3>1, <3>2, DrawerKeepsInv DEF Detach
    <2>12. CASE UNCHANGED vars
      <3>1. UNCHANGED <<selection, posted, notifies, listening, albumVars, checked, strip,
                        drawer, handling, done>>
        BY <2>12 DEF vars, listVars, stripVars
      <3>2. DrawerMatchesStrip'
        BY <3>1 DEF Inv, DrawerMatchesStrip
      <3> QED BY <2>0, <3>1, <3>2, DrawerKeepsInv
    <2> QED BY <2>1, <2>2, <2>3, <2>4, <2>5, <2>6, <2>7, <2>8, <2>9, <2>10, <2>11, <2>12
      DEF Next
  <1> QED BY Starts, <1>1, PTL DEF Spec

\* The variables of picker and activity stay what the code can make of them, and the
\* list within its capacity.
THEOREM TypeCorrect == Spec => []TypeOK
  <1>1. Inv => TypeOK
    BY DEF Inv
  <1> QED BY Invariant, <1>1, PTL

\* The callbacks that read the list late leave strip, check marks and Done button as
\* the list is, in whatever order cells were bound and the callbacks ran.
THEOREM ShowsSelection == Spec => []DrainedShowsSelection
  <1>1. Inv => DrainedShowsSelection
    <2> SUFFICES ASSUME Inv, notifies, posted = <<>>
                 PROVE  /\ listening => strip = selection /\ checked = Listed \cap Selected
                        /\ done <=> selection # <<>>
      BY DEF DrainedShowsSelection
    <2>1. listening => strip = selection
      BY DEF Inv, StripFollows
    <2>2. ASSUME listening PROVE checked = Listed \cap Selected
      <3>1. \A p \in Photos : p \in checked <=> p \in Listed /\ p \in Selected
        BY <2>2 DEF Inv, ChecksFollow, Waiting
      <3>2. checked \subseteq Listed /\ Listed \subseteq Photos
        BY DEF Inv, TypeOK, Listed, Photos
      <3> QED BY <3>1, <3>2
    <2>3. done <=> selection # <<>>
      BY DEF Inv, DoneFollows
    <2> QED BY <2>1, <2>2, <2>3
  <1> QED BY Invariant, <1>1, PTL

\* MySelectionViewHelper's state and the strip agree whenever nobody drags.
THEOREM DrawerFollowsStrip == Spec => []DrawerMatchesStrip
  <1>1. Inv => DrawerMatchesStrip
    BY DEF Inv
  <1> QED BY Invariant, <1>1, PTL

\* Loads that do not overlap and do not fail end with the album chosen last.
THEOREM ListsChosenAlbum == Spec => []ChosenAlbumIsShown
  <1>1. Inv => ChosenAlbumIsShown
    BY DEF Inv, LoadsOfChosen, ChosenAlbumIsShown
  <1> QED BY Invariant, <1>1, PTL

=============================================================================
