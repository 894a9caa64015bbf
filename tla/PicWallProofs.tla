---------------------------- MODULE PicWallProofs ----------------------------
(***************************************************************************)
(* For any photos, canvases, limits and random cuts: the picture-wall      *)
(* sampler puts each photo on one leaf, its searches stay within the pool, *)
(* a tree it returns fits the canvas unless the dangling reference has hit *)
(* the tree, and two photos put side by side are the nearest pair left;    *)
(* and each grid generate collects has one slot for each photo.            *)
(*                                                                         *)
(* A photo leaves the pool only for a leaf that has just been made, which  *)
(* takes three facts about the recursion of createNode: the calls still to *)
(* make are for as many photos as are left (CountInv), so a search finds   *)
(* what it looks for (SearchInv); and their nodes are all different and    *)
(* not made yet (ShapeInv), so no leaf is made twice.                      *)
(*                                                                         *)
(* That the pair is the nearest rests on the order of the fractions, which *)
(* comes second, and on what the walk from both ends leaves behind         *)
(* (NearInv).                                                              *)
(*                                                                         *)
(* That a grid has one slot for each photo takes every sampler's pattern,  *)
(* what joining and cutting slots, sorting and filtering keep of it, and   *)
(* that the leaves toSlotList lists are all those of the tree: in a tree   *)
(* under construction only nodes with a cut have children (BranchInv).     *)
(***************************************************************************)
EXTENDS GridsGenerator, SequenceTheorems, FiniteSetTheorems, WellFoundedInduction, TLAPS

\* No photo is listed twice.
NoneTwice(s) == \A i, j \in DOMAIN s : s[i] = s[j] => i = j

\* Where sampleTree can be.
Stages == {"idle", "creating", "recreating", "optimizing", "found", "gaveUp"}

\* A node of a tree. What its target and its ratio are is of no concern here.
IsNode(n) ==
  /\ n = [type |-> n.type, target |-> n.target, photo |-> n.photo, actual |-> n.actual]
  /\ n.type \in {"leaf", "V", "H"}

\* The types. The sorted list is a permutation of the photos once a tree was begun,
\* and every leaf has one of the photos.
TypeOK ==
  /\ photos \in Seq(Fractions)
  /\ stage \in Stages
  /\ stage # "idle" => photos # <<>> /\ mPhotos \in SortedOrders
  /\ pool \in Seq(DOMAIN photos)
  /\ search \in [cut : Cuts, i : Nat, j : Nat, best : [Cuts -> Nat \X Nat]]
  /\ todo \in Seq(Range(todo))
  /\ \A k \in DOMAIN todo : todo[k].node \in Nat \ {0} /\ todo[k].num \in Nat \ {0}
  /\ DOMAIN tree \subseteq Nat \ {0}
  /\ tree = [n \in DOMAIN tree |-> tree[n]]
  /\ \A n \in DOMAIN tree : IsNode(tree[n])
  /\ \A n \in Leaves(tree) : tree[n].photo \in DOMAIN photos
  /\ iterCount \in Nat

\* A search stays within the pool, and a pair it has found is two photos.
SearchInv ==
  /\ pool # <<>> => 1 <= search.i /\ search.i <= search.j /\ search.j <= Len(pool)
  /\ Len(pool) >= 2 => \A c \in Cuts :
       LET b == search.best[c] IN 1 <= b[1] /\ b[1] < b[2] /\ b[2] <= Len(pool)

\* The calls still to make are for as many photos as are left.
CountInv ==
  \E left \in [1 .. Len(todo) + 1 -> 0 .. Len(photos)] :
    /\ left[1] = Len(pool) /\ left[Len(todo) + 1] = 0
    /\ \A k \in 1 .. Len(todo) : left[k] = left[k + 1] + todo[k].num

\* A node, made or still to make, has a parent; the calls are for different nodes
\* that are not made yet; the root is made or to be made.
ShapeInv ==
  /\ \A n \in DOMAIN tree : n # 1 => n \div 2 \in DOMAIN tree
  /\ \A k \in DOMAIN todo : /\ todo[k].node \notin DOMAIN tree
                            /\ todo[k].node # 1 => todo[k].node \div 2 \in DOMAIN tree
  /\ \A k, l \in DOMAIN todo : todo[k].node = todo[l].node => k = l
  /\ stage # "idle" => 1 \in DOMAIN tree \/ \E k \in DOMAIN todo : todo[k].node = 1
  /\ stage \notin {"creating", "recreating"} => todo = <<>>

\* The photos that are left are those on no leaf; no photo is on two.
PlacedInv ==
  /\ NoneTwice(pool)
  /\ \A m, n \in Leaves(tree) : tree[m].photo = tree[n].photo => m = n
  /\ stage # "idle" => Range(pool) = DOMAIN photos \ {tree[n].photo : n \in Leaves(tree)}

\* Unless the reference has dangled, a leaf has its photo's ratio, and a root that
\* was measured has the ratio of its leaves.
RatioInv ==
  /\ stage \in {"creating", "recreating"} \/ realAt \in {Nowhere, 1} =>
       \A n \in Leaves(tree) : tree[n].actual = photos[tree[n].photo]
  /\ stage \in {"optimizing", "found"} /\ realAt \in {Nowhere, 1} => RealRatio = TrueRatio

\* The adjustments are counted below their limit.
LoopInv == iterCount < MaxOptIterations

\* The inductive invariant.
Inv == /\ TypeOK /\ SearchInv /\ CountInv /\ ShapeInv /\ PlacedInv
       /\ RatioInv /\ LoopInv /\ FoundTreeFits

\* vector::erase of one position: what stood behind it moves up by one.
LEMMA WithoutOne ==
  ASSUME NEW S, NEW s \in Seq(S), NEW i \in 1..Len(s)
  PROVE  LET r == RemoveAt(s, i) IN
         /\ r \in Seq(S) /\ Len(r) = Len(s) - 1
         /\ \A k \in 1..Len(r) : r[k] = IF k < i THEN s[k] ELSE s[k + 1]
  <1> DEFINE a == SubSeq(s, 1, i - 1)
             b == SubSeq(s, i + 1, Len(s))
  <1>1. Len(s) \in Nat /\ \A k \in 1..Len(s) : s[k] \in S
    OBVIOUS
  <1>2. /\ a \in Seq(S) /\ Len(a) = i - 1
        /\ \A k \in 1..(i - 1) : a[k] = s[k]
    <2>1. \A k \in 1..(i - 1) : s[k] \in S
      BY <1>1
    <2> QED BY <1>1, <2>1, SubSeqProperties
  <1>3. /\ b \in Seq(S) /\ Len(b) = Len(s) - i
        /\ \A k \in 1..(Len(s) - i) : b[k] = s[i + k]
    <2>1. \A k \in (i + 1)..Len(s) : s[k] \in S
      BY <1>1
    <2> QED BY <1>1, <2>1, SubSeqProperties
  <1> HIDE DEF a, b
  <1>4. /\ a \o b \in Seq(S) /\ Len(a \o b) = Len(a) + Len(b)
        /\ \A k \in 1..(Len(a) + Len(b)) : (a \o b)[k] = IF k <= Len(a) THEN a[k] ELSE b[k - Len(a)]
    BY <1>2, <1>3, ConcatProperties
  <1>5. RemoveAt(s, i) = a \o b
    BY DEF RemoveAt, a, b
  <1> DEFINE r == a \o b
  <1>6. r \in Seq(S) /\ Len(r) = Len(s) - 1
    BY <1>1, <1>2, <1>3, <1>4
  <1>7. ASSUME NEW k \in 1..Len(r) PROVE r[k] = IF k < i THEN s[k] ELSE s[k + 1]
    <2>1. r[k] = IF k <= Len(a) THEN a[k] ELSE b[k - Len(a)]
      BY <1>1, <1>2, <1>3, <1>4, <1>6
    <2> HIDE DEF r
    <2>2. CASE k < i
      <3>1. k <= Len(a) /\ k \in 1..(i - 1)
        BY <1>1, <1>2, <1>6, <2>2
      <3> QED BY <1>2, <2>1, <2>2, <3>1
    <2>3. CASE k >= i
      <3>1. ~(k <= Len(a)) /\ k - Len(a) \in 1..(Len(s) - i) /\ i + (k - Len(a)) = k + 1
        BY <1>1, <1>2, <1>6, <2>3
      <3>2. b[k - Len(a)] = s[i + (k - Len(a))]
        BY <1>3, <3>1
      <3> QED BY <2>1, <2>3, <3>1, <3>2
    <2> QED BY <1>1, <1>6, <2>2, <2>3
  <1> QED BY <1>5, <1>6, <1>7

\* If no photo is listed twice, erasing a position erases just its photo.
LEMMA OneErased ==
  ASSUME NEW S, NEW s \in Seq(S), NoneTwice(s), NEW i \in 1..Len(s)
  PROVE  LET r == RemoveAt(s, i) IN
         /\ r \in Seq(S) /\ Len(r) = Len(s) - 1 /\ NoneTwice(r)
         /\ Range(r) = Range(s) \ {s[i]}
  <1> DEFINE r == RemoveAt(s, i)
  <1>1. /\ r \in Seq(S) /\ Len(r) = Len(s) - 1 
        /\ \A k \in 1..Len(r) : r[k] = IF k < i THEN s[k] ELSE s[k + 1]
    BY WithoutOne
  <1> HIDE DEF r
  <1>0. /\ Len(r) \in Nat /\ Len(s) \in Nat
        /\ DOMAIN r = 1..Len(r) /\ DOMAIN s = 1..Len(s)
    BY <1>1
  <1>a. \A x, y \in 1..Len(s) : s[x] = s[y] => x = y
    BY <1>0 DEF NoneTwice
  <1>2. NoneTwice(r)
    <2> SUFFICES ASSUME NEW x \in 1..Len(r), NEW y \in 1..Len(r), r[x] = r[y] PROVE x = y
      BY <1>0 DEF NoneTwice
    <2>1. /\ r[x] = IF x < i THEN s[x] ELSE s[x + 1]
          /\ r[y] = IF y < i THEN s[y] ELSE s[y + 1]
      BY <1>1
    <2>2. /\ x \in 1..Len(s) /\ x + 1 \in 1..Len(s)
          /\ y \in 1..Len(s) /\ y + 1 \in 1..Len(s)
      BY <1>0, <1>1
    <2> DEFINE u == IF x < i THEN x ELSE x + 1
               v == IF y < i THEN y ELSE y + 1
    <2>3. s[u] = s[v] /\ u \in 1..Len(s) /\ v \in 1..Len(s)
      BY <2>1, <2>2
    <2>4. u = v
      BY <2>3, <1>a
    <2> QED
      BY <2>4
  <1>3. ASSUME NEW k \in 1..Len(r) PROVE r[k] \in Range(s) \ {s[i]}
    <2>1. /\ r[k] = IF k < i THEN s[k] ELSE s[k + 1]
          /\ k \in 1..Len(s) /\ k + 1 \in 1..Len(s)
      BY <1>0, <1>1
    <2> QED
      BY <2>1, <1>0, <1>a DEF Range
  <1>4. ASSUME NEW k \in 1..Len(s), k # i PROVE s[k] \in Range(r)
    <2>1. CASE k < i
      BY <2>1, <1>4, <1>0, <1>1 DEF Range
    <2>2. CASE k > i
      <3>1. k - 1 \in 1..Len(r) /\ r[k - 1] = s[k]
        BY <2>2, <1>0, <1>1
      <3> QED
        BY <3>1, <1>0 DEF Range
    <2> QED
      BY <1>4, <2>1, <2>2
  <1>5. Range(r) = Range(s) \ {s[i]}
    <2>1. Range(r) \subseteq Range(s) \ {s[i]}
      BY <1>0, <1>3 DEF Range
    <2>2. Range(s) \ {s[i]} \subseteq Range(r)
      BY <1>0, <1>4 DEF Range
    <2> QED
      BY <2>1, <2>2
  <1> QED
    BY <1>1, <1>2, <1>5 DEF r

\* The two erasures of findTwoImagesFor, the second one corrected, erase the photos at
\* both positions and no other.
LEMMA TwoErased ==
  ASSUME NEW S, NEW s \in Seq(S), NoneTwice(s), NEW i \in 1..Len(s), NEW j \in 1..Len(s), i < j
  PROVE  LET r == EraseTwo(s, i, j) IN
         /\ r \in Seq(S) /\ Len(r) = Len(s) - 2 /\ NoneTwice(r)
         /\ Range(r) = Range(s) \ {s[i], s[j]}
  <1> DEFINE a == RemoveAt(s, i)
  <1>1. /\ a \in Seq(S) /\ Len(a) = Len(s) - 1 /\ NoneTwice(a)
        /\ Range(a) = Range(s) \ {s[i]}
    BY OneErased
  <1>3. /\ j - 1 \in 1..Len(a) /\ a[j - 1] = s[j]
    <2>1. j - 1 \in 1..Len(a) /\ ~(j - 1 < i) /\ j - 1 + 1 = j
      BY <1>1
    <2>2. \A k \in 1..Len(a) : a[k] = IF k < i THEN s[k] ELSE s[k + 1]
      BY WithoutOne
    <2> QED
      BY <2>1, <2>2
  <1> HIDE DEF a
  <1>2. LET r == RemoveAt(a, j - 1) IN
         /\ r \in Seq(S) /\ Len(r) = Len(a) - 1 /\ NoneTwice(r)
         /\ Range(r) = Range(a) \ {a[j - 1]}
    BY <1>1, <1>3, OneErased
  <1> QED
    BY <1>1, <1>2, <1>3 DEF EraseTwo, a

\* The calls a call makes come before those that were still to make.
LEMMA Pushed ==
  ASSUME NEW S, NEW s \in Seq(S), s # <<>>, NEW c \in Seq(S)
  PROVE  LET r == c \o Tail(s) IN
         /\ r \in Seq(S) /\ Len(r) = Len(c) + Len(s) - 1
         /\ \A k \in 1..Len(r) :
              r[k] = IF k <= Len(c) THEN c[k] ELSE s[k - Len(c) + 1]
  <1>1. /\ Tail(s) \in Seq(S) /\ Len(Tail(s)) = Len(s) - 1
        /\ \A k \in 1..Len(Tail(s)) : Tail(s)[k] = s[k + 1]
    BY HeadTailProperties
  <1> DEFINE u == Tail(s)
  <1> HIDE DEF u
  <1>2. Len(c) \in Nat /\ Len(s) \in Nat
    OBVIOUS
  <1>3. /\ c \o u \in Seq(S) /\ Len(c \o u) = Len(c) + Len(u)
        /\ \A k \in 1..Len(c) + Len(u) : (c \o u)[k] = IF k <= Len(c) THEN c[k] ELSE u[k - Len(c)]
    BY <1>1, ConcatProperties DEF u
  <1> QED
    BY <1>1, <1>2, <1>3 DEF u
-----------------------------------------------------------------------------

\* The type of the search.
searchType == [cut : Cuts, i : Nat, j : Nat, best : [Cuts -> Nat \X Nat]]

\* A step that changes nothing but the search keeps the invariant if the search
\* remains within the pool.
LEMMA OnlySearches ==
  ASSUME Inv, UNCHANGED <<callVars, pool, todo, tree, oddSeed, countVars>>,
         search' \in searchType, SearchInv'
  PROVE  Inv'
  <1>0. /\ photos' = photos /\ canvas' = canvas /\ mPhotos' = mPhotos /\ pool' = pool
        /\ todo' = todo /\ tree' = tree /\ iterCount' = iterCount /\ realAt' = realAt
        /\ stage' = stage
    BY DEF callVars, countVars
  <1> USE DEF Inv
  <1>1. TypeOK'
    BY <1>0, SMTT(30) DEF TypeOK, SortedOrders, Before, Leaves, IsLeaf, searchType
  <1>2. CountInv'
    BY <1>0 DEF CountInv
  <1>3. ShapeInv'
    BY <1>0 DEF ShapeInv
  <1>4. PlacedInv'
    BY <1>0 DEF PlacedInv, Leaves, IsLeaf
  <1>5. RatioInv' /\ FoundTreeFits'
    BY <1>0 DEF RatioInv, RealRatio, TrueRatio, FoundTreeFits, Leaves, IsLeaf, Fits
  <1>6. LoopInv'
    BY <1>0 DEF LoopInv
  <1> QED
    BY <1>1, <1>2, <1>3, <1>4, <1>5, <1>6

\* The bounds of the pool and of the list of calls.
LEMMA PoolLen == TypeOK => /\ Len(pool) \in Nat /\ DOMAIN pool = 1..Len(pool)
                           /\ pool # <<>> => Len(pool) >= 1
                           /\ Len(todo) \in Nat /\ DOMAIN todo = 1..Len(todo)
                           /\ todo # <<>> => Len(todo) >= 1 /\ Head(todo) = todo[1]
  BY SMTT(30) DEF TypeOK

\* The pool has the photos the innermost call is to place: the counts of the calls
\* add up to what is left.
LEMMA EnoughLeft ==
  ASSUME TypeOK, CountInv, todo # <<>>
  PROVE  Len(pool) >= Head(todo).num
  <1>1. PICK left \in [1 .. Len(todo) + 1 -> 0 .. Len(photos)] :
          /\ left[1] = Len(pool) /\ left[Len(todo) + 1] = 0
          /\ \A k \in 1 .. Len(todo) : left[k] = left[k + 1] + todo[k].num
    BY DEF CountInv
  <1>2. 1 \in 1..Len(todo) /\ 2 \in 1..Len(todo) + 1 /\ Head(todo) = todo[1]
    BY PoolLen
  <1>3. todo[1].num \in Nat
    BY <1>2, PoolLen DEF TypeOK
  <1>4. left[1] = left[1 + 1] + todo[1].num /\ left[1 + 1] \in 0 .. Len(photos)
    BY <1>1, <1>2
  <1> QED
    BY <1>1, <1>2, <1>3, <1>4

\* A turn of the binary search stays between its bounds: it goes on only while there
\* is a position between them.
LEMMA BisectStep ==
  ASSUME Inv, Bisect
  PROVE  Inv'
  <1>1. Head(todo).num = 1 /\ todo # <<>> /\ search.i + 1 < search.j /\ pool' = pool
    BY DEF Bisect, Placing
  <1>2. Len(pool) \in Nat /\ Len(pool) >= 1 /\ pool # <<>>
    BY <1>1, EnoughLeft, PoolLen DEF Inv
  <1>3. /\ search.i \in Nat /\ search.j \in Nat /\ 1 <= search.i /\ search.i <= search.j
        /\ search.j <= Len(pool) /\ search \in searchType
    BY <1>2 DEF Inv, TypeOK, SearchInv, searchType
  <1> DEFINE mid == (search.i + search.j) \div 2
  <1>4. mid \in Nat /\ search.i < mid /\ mid < search.j
    BY <1>1, <1>3
  <1>5. \/ search' = [search EXCEPT !.i = mid, !.j = mid]
        \/ search' = [search EXCEPT !.j = mid - 1]
        \/ search' = [search EXCEPT !.i = mid + 1]
    BY DEF Bisect
  <1> HIDE DEF mid
  <1>9. PICK i \in {search.i, mid, mid + 1}, j \in {search.j, mid, mid - 1} :
          search' = [search EXCEPT !.i = i, !.j = j] /\ i <= j
    <2>1. mid <= mid /\ search.i <= mid - 1 /\ mid + 1 <= search.j
      BY <1>3, <1>4
    <2>2. CASE search' = [search EXCEPT !.i = mid, !.j = mid]
      BY <2>1, <2>2
    <2>3. CASE search' = [search EXCEPT !.j = mid - 1]
      <3>1. search' = [search EXCEPT !.i = search.i, !.j = mid - 1]
        BY <1>3, <2>3 DEF searchType
      <3> QED
        BY <2>1, <3>1
    <2>4. CASE search' = [search EXCEPT !.i = mid + 1]
      <3>1. search' = [search EXCEPT !.i = mid + 1, !.j = search.j]
        BY <1>3, <2>4 DEF searchType
      <3> QED
        BY <2>1, <3>1
    <2> QED
      BY <1>5, <2>2, <2>3, <2>4
  <1>10. i \in Nat /\ j \in Nat /\ 1 <= i /\ j <= Len(pool)
    BY <1>2, <1>3, <1>4
  <1>6. search' \in searchType
    BY <1>3, <1>9, <1>10 DEF searchType
  <1>7. /\ search'.best = search.best
        /\ 1 <= search'.i /\ search'.i <= search'.j /\ search'.j <= Len(pool)
    BY <1>3, <1>9, <1>10 DEF searchType
  <1>8. SearchInv'
    BY <1>1, <1>7 DEF Inv, SearchInv
  <1> QED
    BY <1>6, <1>8, OnlySearches DEF Bisect

\* A turn of a walk takes a pair whose positions differ, and then moves one of them.
LEMMA WalkStep ==
  ASSUME Inv, Walk
  PROVE  Inv'
  <1>1. Head(todo).num = 2 /\ todo # <<>> /\ search.i < search.j /\ pool' = pool
    BY DEF Walk, Placing
  <1>2. Len(pool) \in Nat /\ Len(pool) >= 2 /\ pool # <<>>
    BY <1>1, EnoughLeft, PoolLen DEF Inv
  <1>3. /\ search.i \in Nat /\ search.j \in Nat /\ 1 <= search.i /\ search.i <= search.j
        /\ search.j <= Len(pool) /\ search \in searchType /\ search.cut \in Cuts
    BY <1>2 DEF Inv, TypeOK, SearchInv, searchType
  <1> DEFINE pair == <<search.i, search.j>>
             c == search.cut
  <1>4. PICK p \in {pair, search.best[c]}, i \in {search.i, search.i + 1},
             j \in {search.i, search.j, search.j - 1} :
          /\ search' = [search EXCEPT !.best[c] = p, !.i = i, !.j = j]
          /\ i <= j
    <2>1. CASE Sum(c, pair) = Aim(c)
      <3>1. search' = [search EXCEPT !.best[c] = pair, !.j = search.i]
        BY <2>1 DEF Walk
      <3>2. search' = [search EXCEPT !.best[c] = pair, !.i = search.i, !.j = search.i]
        BY <3>1, <1>3 DEF searchType
      <3> QED
        BY <3>2, <1>3
    <2>2. CASE Sum(c, pair) # Aim(c)
      <3>1. \E upper \in BOOLEAN : search' = [search EXCEPT !.best[c] = Nearer(c, pair, @),
                                         !.i = IF upper THEN @ ELSE @ + 1,
                                         !.j = IF upper THEN @ - 1 ELSE @]
        BY <2>2 DEF Walk, LeavesUpperEnd
      <3>2. Nearer(c, pair, search.best[c]) \in {pair, search.best[c]}
        BY DEF Nearer
      <3>3. PICK upper \in BOOLEAN :
              search' = [search EXCEPT !.best[c] = Nearer(c, pair, @),
                                       !.i = IF upper THEN @ ELSE @ + 1,
                                       !.j = IF upper THEN @ - 1 ELSE @]
        BY <3>1
      <3>4. CASE upper
        <4>1. search' = [search EXCEPT !.best[c] = Nearer(c, pair, search.best[c]),
                                       !.i = search.i, !.j = search.j - 1]
          BY <3>3, <3>4
        <4>2. search.i <= search.j - 1
          BY <1>1, <1>3
        <4> HIDE DEF pair, c
        <4> QED
          BY <4>1, <4>2, <3>2
      <3>5. CASE ~upper
        <4>1. search' = [search EXCEPT !.best[c] = Nearer(c, pair, search.best[c]),
                                       !.i = search.i + 1, !.j = search.j]
          BY <3>3, <3>5
        <4>2. search.i + 1 <= search.j
          BY <1>1, <1>3
        <4> HIDE DEF pair, c
        <4> QED
          BY <4>1, <4>2, <3>2
      <3> QED
        BY <3>4, <3>5
    <2> QED
      BY <2>1, <2>2
  <1>5. /\ p \in Nat \X Nat /\ 1 <= p[1] /\ p[1] < p[2] /\ p[2] <= Len(pool)
    BY <1>1, <1>2, <1>3, <1>4 DEF searchType, Inv, SearchInv
  <1>6. i \in Nat /\ j \in Nat /\ 1 <= i /\ j <= Len(pool)
    BY <1>1, <1>2, <1>3, <1>4
  <1>7. search' \in searchType
    BY <1>3, <1>4, <1>5, <1>6 DEF searchType
  <1>8. /\ search'.i = i /\ search'.j = j
        /\ \A d \in Cuts : search'.best[d] = IF d = c THEN p ELSE search.best[d]
    BY <1>3, <1>4 DEF searchType
  <1>9. SearchInv'
    BY <1>1, <1>2, <1>4, <1>5, <1>6, <1>8 DEF Inv, SearchInv
  <1> QED
    BY <1>7, <1>9, OnlySearches DEF Walk

\* The second walk begins at both ends again; the pair found by the first is kept.
LEMMA TurnWalkStep ==
  ASSUME Inv, TurnWalk
  PROVE  Inv'
  <1>1. /\ Head(todo).num = 2 /\ todo # <<>> /\ pool' = pool
        /\ search' = [search EXCEPT !.cut = "H", !.i = 1, !.j = Len(pool)]
    BY DEF TurnWalk, Placing
  <1>2. Len(pool) \in Nat /\ Len(pool) >= 2 /\ search \in searchType
    BY <1>1, EnoughLeft, PoolLen DEF Inv, TypeOK, searchType
  <1>3. search' \in searchType /\ search'.best = search.best
        /\ search'.i = 1 /\ search'.j = Len(pool)
    BY <1>1, <1>2 DEF searchType, Cuts
  <1>4. SearchInv'
    BY <1>1, <1>2, <1>3 DEF Inv, SearchInv
  <1> QED
    BY <1>3, <1>4, OnlySearches DEF TurnWalk

-----------------------------------------------------------------------------

\* What a call of createNode adds to the tree: its node, and perhaps both children.
Fresh(nodes) ==
  LET c == Head(todo).node IN
  /\ nodes = [n \in DOMAIN nodes |-> nodes[n]]
  /\ c \in DOMAIN nodes /\ DOMAIN nodes \subseteq {c, 2 * c, 2 * c + 1}
  /\ \A n \in DOMAIN nodes : IsNode(nodes[n])

\* Neither the node of the innermost call nor its children are in the tree, nor are they
\* the nodes of other calls: their parents are made before them.
LEMMA FreshNodes ==
  ASSUME TypeOK, ShapeInv, todo # <<>>
  PROVE  LET c == Head(todo).node IN
         /\ c \in Nat \ {0} /\ 2 * c \in Nat \ {0} /\ 2 * c + 1 \in Nat \ {0}
         /\ c \notin DOMAIN tree /\ 2 * c \notin DOMAIN tree /\ 2 * c + 1 \notin DOMAIN tree
         /\ \A k \in 2..Len(todo) : todo[k].node \notin {c, 2 * c, 2 * c + 1}
  <1> DEFINE c == Head(todo).node
  <1>1. /\ 1 \in DOMAIN todo /\ c = todo[1].node /\ Len(todo) \in Nat
        /\ \A k \in 2..Len(todo) : k \in DOMAIN todo /\ k # 1
    BY PoolLen
  <1>2. c \in Nat \ {0} /\ c \notin DOMAIN tree
    BY <1>1 DEF TypeOK, ShapeInv
  <1> HIDE DEF c
  <1>3. /\ (2 * c) \div 2 = c /\ (2 * c + 1) \div 2 = c /\ 2 * c # 1 /\ 2 * c + 1 # 1
        /\ 2 * c \in Nat \ {0} /\ 2 * c + 1 \in Nat \ {0}
    BY <1>2
  <1>4. 2 * c \notin DOMAIN tree /\ 2 * c + 1 \notin DOMAIN tree
    BY <1>2, <1>3 DEF ShapeInv
  <1>5. ASSUME NEW k \in 2..Len(todo) PROVE todo[k].node \notin {c, 2 * c, 2 * c + 1}
    <2>1. todo[k].node # c
      BY <1>1 DEF ShapeInv
    <2>2. todo[k].node # 1 => todo[k].node \div 2 # c
      BY <1>1, <1>2 DEF ShapeInv
    <2> QED
      BY <2>1, <2>2, <1>3
  <1> QED
    BY <1>2, <1>3, <1>4, <1>5 DEF c

\* A call adds its nodes and changes no other.
LEMMA PlacedTree ==
  ASSUME TypeOK, ShapeInv, todo # <<>>, NEW nodes, NEW calls, NEW left, Fresh(nodes),
         Place(nodes, calls, left)
  PROVE  /\ DOMAIN tree' = DOMAIN tree \cup DOMAIN nodes
         /\ DOMAIN tree \cap DOMAIN nodes = {}
         /\ tree' = [n \in DOMAIN tree' |-> tree'[n]]
         /\ \A n \in DOMAIN tree : tree'[n] = tree[n]
         /\ \A n \in DOMAIN nodes : tree'[n] = nodes[n]
         /\ Leaves(tree)' = Leaves(tree) \cup Leaves(nodes)
  <1>1. DOMAIN tree \cap DOMAIN nodes = {}
    BY FreshNodes DEF Fresh
  <1>2. tree' = [n \in DOMAIN tree \cup DOMAIN nodes |->
                   IF n \in DOMAIN tree THEN tree[n] ELSE nodes[n]]
    BY DEF Place
  <1>3. /\ DOMAIN tree' = DOMAIN tree \cup DOMAIN nodes
        /\ tree' = [n \in DOMAIN tree' |-> tree'[n]]
        /\ \A n \in DOMAIN tree : tree'[n] = tree[n]
        /\ \A n \in DOMAIN nodes : tree'[n] = nodes[n]
    BY <1>1, <1>2
  <1>4. Leaves(tree)' = Leaves(tree) \cup Leaves(nodes)
    BY <1>3 DEF Leaves, IsLeaf
  <1> QED
    BY <1>1, <1>3, <1>4

\* The next call's search begins at both ends of what is left.
LEMMA PlacedSearch ==
  ASSUME NEW S, NEW left \in Seq(S), search' = WholePool(left), pool' = left
  PROVE  search' \in searchType /\ SearchInv'
  <1>1. Len(left) \in Nat /\ (left # <<>> => Len(left) >= 1)
    OBVIOUS
  <1>2. /\ search'.i = 1 /\ search'.j = Len(left)
        /\ \A c \in Cuts : search'.best[c] = <<1, Len(left)>>
    BY DEF WholePool
  <1>3. search' \in searchType
    BY <1>1 DEF WholePool, searchType, Cuts
  <1>4. SearchInv'
    BY <1>1, <1>2 DEF SearchInv
  <1> QED
    BY <1>3, <1>4

\* A call that puts photos of the pool on leaves of its own and takes just those out of
\* the pool keeps the invariant, if the calls it leaves are counted and placed well.
LEMMA PlaceStep ==
  ASSUME Inv, todo # <<>>, NEW nodes, NEW calls, NEW left, Fresh(nodes),
         Place(nodes, calls, left),
         \A n \in Leaves(nodes) : /\ nodes[n].photo \in Range(pool)
                                  /\ nodes[n].actual = photos[nodes[n].photo],
         \A m, n \in Leaves(nodes) : nodes[m].photo = nodes[n].photo => m = n,
         left \in Seq(DOMAIN photos), NoneTwice(left),
         Range(left) = Range(pool) \ {nodes[n].photo : n \in Leaves(nodes)},
         todo' \in Seq(Range(todo')),
         \A k \in DOMAIN todo' : todo'[k].node \in Nat \ {0} /\ todo'[k].num \in Nat \ {0},
         CountInv', ShapeInv'
  PROVE  Inv'
  <1>0. /\ photos' = photos /\ canvas' = canvas /\ mPhotos' = mPhotos /\ pool' = left
        /\ search' = WholePool(left)
        /\ iterCount' = iterCount /\ realAt' = realAt /\ stage' = stage
    BY DEF Place, callVars, countVars
  <1>1. TypeOK /\ ShapeInv /\ stage \in {"creating", "recreating"}
    BY DEF Inv, ShapeInv
  <1>2. /\ DOMAIN tree' = DOMAIN tree \cup DOMAIN nodes
        /\ DOMAIN tree \cap DOMAIN nodes = {}
        /\ tree' = [n \in DOMAIN tree' |-> tree'[n]]
        /\ \A n \in DOMAIN tree : tree'[n] = tree[n]
        /\ \A n \in DOMAIN nodes : tree'[n] = nodes[n]
        /\ Leaves(tree)' = Leaves(tree) \cup Leaves(nodes)
    BY <1>1, PlacedTree
  <1>3. /\ Leaves(nodes) \subseteq DOMAIN nodes /\ Leaves(tree) \subseteq DOMAIN tree
        /\ Range(pool) \subseteq DOMAIN photos
    BY <1>1 DEF Leaves, TypeOK, Range
  <1>4. search' \in searchType /\ SearchInv'
    BY <1>0, PlacedSearch
  <1>5. TypeOK'
    <2>1. DOMAIN tree' \subseteq Nat \ {0} /\ \A n \in DOMAIN tree' : IsNode(tree'[n])
      BY <1>1, <1>2, FreshNodes DEF Fresh, TypeOK
    <2>2. \A n \in Leaves(tree)' : tree'[n].photo \in DOMAIN photos
      BY <1>1, <1>2, <1>3 DEF TypeOK
    <2>3. SortedOrders' = SortedOrders
      BY <1>0 DEF SortedOrders, Before
    <2>4. stage' # "idle" => photos' # <<>> /\ mPhotos' \in SortedOrders'
      BY <1>0, <1>1, <2>3 DEF TypeOK
    <2>5. photos' \in Seq(Fractions) /\ stage' \in Stages /\ iterCount' \in Nat
      BY <1>0, <1>1 DEF TypeOK
    <2> HIDE DEF Fresh
    <2> QED
      BY <1>0, <1>2, <1>4, <2>1, <2>2, <2>4, <2>5 DEF TypeOK, searchType
  <1>6. PlacedInv'
    <2>1. \A n \in Leaves(tree) : tree[n].photo \notin Range(pool)
      BY <1>1 DEF Inv, PlacedInv
    <2>2. \A m, n \in Leaves(tree)' : tree'[m].photo = tree'[n].photo => m = n
      BY <1>2, <1>3, <2>1 DEF Inv, PlacedInv
    <2>3. {tree'[n].photo : n \in Leaves(tree)'}
            = {tree[n].photo : n \in Leaves(tree)} \cup {nodes[n].photo : n \in Leaves(nodes)}
      BY <1>2, <1>3
    <2>4. Range(left) = DOMAIN photos \ {tree'[n].photo : n \in Leaves(tree)'}
      BY <1>1, <2>3 DEF Inv, PlacedInv
    <2> QED
      BY <1>0, <2>2, <2>4 DEF PlacedInv
  <1>7. RatioInv'
    <2>1. \A n \in Leaves(tree)' : tree'[n].actual = photos[tree'[n].photo]
      BY <1>1, <1>2, <1>3 DEF Inv, RatioInv
    <2> QED
      BY <1>0, <1>1, <2>1 DEF RatioInv
  <1>8. LoopInv' /\ FoundTreeFits'
    BY <1>0, <1>1 DEF Inv, LoopInv, FoundTreeFits
  <1> QED
    BY <1>4, <1>5, <1>6, <1>7, <1>8 DEF Inv

\* A call that makes no calls is removed from the list.
LEMMA Popped ==
  ASSUME TypeOK, todo # <<>>, todo' = <<>> \o Tail(todo)
  PROVE  /\ todo' \in Seq(Range(todo')) /\ Len(todo') = Len(todo) - 1
         /\ DOMAIN todo' = 1..Len(todo) - 1
         /\ \A k \in 1..Len(todo) - 1 : todo'[k] = todo[k + 1]
  <1>1. todo \in Seq(Range(todo)) /\ <<>> \in Seq(Range(todo)) /\ Len(<<>>) = 0
    BY DEF TypeOK
  <1> DEFINE r == <<>> \o Tail(todo)
  <1>2. /\ r \in Seq(Range(todo)) /\ Len(r) = Len(<<>>) + Len(todo) - 1
        /\ \A k \in 1..Len(r) :
             r[k] = IF k <= Len(<<>>) THEN <<>>[k] ELSE todo[k - Len(<<>>) + 1]
    <2> HIDE DEF r
    <2> QED
      BY <1>1, Pushed DEF r
  <1> HIDE DEF r
  <1>3. Len(todo) \in Nat
    BY PoolLen
  <1>4. Len(r) = Len(todo) - 1 /\ DOMAIN r = 1..Len(todo) - 1
    BY <1>1, <1>2, <1>3
  <1>5. \A k \in 1..Len(todo) - 1 : r[k] = todo[k + 1]
    BY <1>1, <1>2, <1>3, <1>4
  <1>6. r \in Seq(Range(r))
    BY <1>2, SeqOfRange
  <1> QED
    BY <1>4, <1>5, <1>6 DEF r

\* The calls that remain are calls.
LEMMA PoppedType ==
  ASSUME TypeOK, todo # <<>>, todo' = <<>> \o Tail(todo)
  PROVE  /\ todo' \in Seq(Range(todo'))
         /\ \A k \in DOMAIN todo' : todo'[k].node \in Nat \ {0} /\ todo'[k].num \in Nat \ {0}
  <1>1. /\ todo' \in Seq(Range(todo'))
        /\ DOMAIN todo' = 1..Len(todo) - 1
        /\ \A k \in 1..Len(todo) - 1 : todo'[k] = todo[k + 1]
    BY Popped
  <1>2. \A k \in 1..Len(todo) - 1 : k + 1 \in DOMAIN todo
    BY PoolLen
  <1> QED
    BY <1>1, <1>2 DEF TypeOK

\* A call that takes its number of photos leaves the others theirs.
LEMMA PopCount ==
  ASSUME TypeOK, CountInv, todo # <<>>, todo' = <<>> \o Tail(todo), photos' = photos,
         Len(pool') = Len(pool) - Head(todo).num
  PROVE  CountInv'
  <1>1. PICK left \in [1 .. Len(todo) + 1 -> 0 .. Len(photos)] :
          /\ left[1] = Len(pool) /\ left[Len(todo) + 1] = 0
          /\ \A k \in 1 .. Len(todo) : left[k] = left[k + 1] + todo[k].num
    BY DEF CountInv
  <1>2. Len(todo') = Len(todo) - 1 /\ \A k \in 1..Len(todo) - 1 : todo'[k] = todo[k + 1]
    BY Popped
  <1>3. Len(todo) \in Nat /\ Len(todo) >= 1 /\ 1 \in DOMAIN todo /\ Head(todo) = todo[1]
    BY PoolLen
  <1>4. todo[1].num \in Nat
    BY <1>3 DEF TypeOK
  <1> DEFINE rest == [k \in 1..Len(todo) |-> left[k + 1]]
  <1>5. rest \in [1..Len(todo) -> 0..Len(photos)]
    BY <1>1, <1>3
  <1>6. rest[1] = Len(pool') /\ rest[Len(todo)] = 0
    <2> DEFINE last == Len(todo)
    <2> HIDE DEF last
    <2>1. rest[1] = left[1 + 1] /\ rest[last] = left[last + 1]
      BY <1>3 DEF last
    <2> HIDE DEF rest
    <2>2. left[1] = left[1 + 1] + todo[1].num /\ left[1 + 1] \in 0..Len(photos)
      <3>1. 1 \in 1..Len(todo) /\ 1 + 1 \in 1..Len(todo) + 1
        BY <1>3
      <3> QED
        BY <1>1, <3>1
    <2> QED
      BY <2>1, <2>2, <1>1, <1>3, <1>4 DEF last
  <1>7. ASSUME NEW k \in 1..Len(todo) - 1
        PROVE  rest[k] = rest[k + 1] + todo'[k].num
    <2>1. /\ k \in 1..Len(todo) /\ k + 1 \in 1..Len(todo)
          /\ left[k + 1] = left[k + 1 + 1] + todo[k + 1].num
      BY <1>1, <1>3
    <2> QED
      BY <2>1, <1>2
  <1>8. Len(todo') + 1 = Len(todo) /\ Len(todo') = Len(todo) - 1
    BY <1>2, <1>3
  <1> HIDE DEF rest
  <1>9. /\ rest \in [1..Len(todo') + 1 -> 0..Len(photos')]
        /\ rest[1] = Len(pool') /\ rest[Len(todo') + 1] = 0
        /\ \A k \in 1..Len(todo') : rest[k] = rest[k + 1] + todo'[k].num
    <2>1. 1..Len(todo') + 1 = 1..Len(todo) /\ 1..Len(todo') = 1..Len(todo) - 1
      BY <1>8
    <2> QED
      BY <2>1, <1>5, <1>6, <1>7, <1>8
  <1> QED
    BY <1>9 DEF CountInv

\* A call that has added its nodes leaves calls whose nodes have parents.
LEMMA PopShape ==
  ASSUME TypeOK, ShapeInv, todo # <<>>, NEW nodes, NEW left, Fresh(nodes),
         Place(nodes, <<>>, left)
  PROVE  ShapeInv'
  <1> DEFINE c == Head(todo).node
  <1>1. /\ DOMAIN tree' = DOMAIN tree \cup DOMAIN nodes
        /\ c \in DOMAIN nodes /\ DOMAIN nodes \subseteq {c, 2 * c, 2 * c + 1}
    BY PlacedTree DEF Fresh
  <1>2. /\ DOMAIN todo' = 1..Len(todo) - 1
        /\ \A k \in 1..Len(todo) - 1 : todo'[k] = todo[k + 1]
    BY Popped DEF Place
  <1>3. /\ Len(todo) \in Nat /\ DOMAIN todo = 1..Len(todo) /\ 1 \in DOMAIN todo
        /\ Head(todo) = todo[1]
    BY PoolLen
  <1>4. /\ c \in Nat \ {0}
        /\ \A k \in 2..Len(todo) : todo[k].node \notin {c, 2 * c, 2 * c + 1}
    BY FreshNodes
  <1>5. stage' = stage
    BY DEF Place, countVars
  <1>6. c # 1 => c \div 2 \in DOMAIN tree
    BY <1>3 DEF ShapeInv
  <1> HIDE DEF c
  <1>7. \A n \in DOMAIN tree' : n # 1 => n \div 2 \in DOMAIN tree'
    <2>1. (2 * c) \div 2 = c /\ (2 * c + 1) \div 2 = c
      BY <1>4
    <2> QED
      BY <2>1, <1>1, <1>6 DEF ShapeInv
  <1>8. \A k \in DOMAIN todo' :
          /\ todo'[k].node \notin DOMAIN tree'
          /\ todo'[k].node # 1 => todo'[k].node \div 2 \in DOMAIN tree'
    <2> SUFFICES ASSUME NEW k \in 1..Len(todo) - 1
                 PROVE  /\ todo[k + 1].node \notin DOMAIN tree'
                        /\ todo[k + 1].node # 1 => todo[k + 1].node \div 2 \in DOMAIN tree'
      BY <1>2
    <2>1. k + 1 \in 2..Len(todo) /\ k + 1 \in DOMAIN todo
      BY <1>3
    <2> QED
      BY <2>1, <1>1, <1>4 DEF ShapeInv
  <1>9. \A k, l \in DOMAIN todo' : todo'[k].node = todo'[l].node => k = l
    <2> SUFFICES ASSUME NEW k \in 1..Len(todo) - 1, NEW l \in 1..Len(todo) - 1,
                        todo[k + 1].node = todo[l + 1].node
                 PROVE  k = l
      BY <1>2
    <2>1. k + 1 \in DOMAIN todo /\ l + 1 \in DOMAIN todo
      BY <1>3
    <2>2. k + 1 = l + 1
      BY <2>1 DEF ShapeInv
    <2> QED
      BY <2>2
  <1>10. stage \in {"creating", "recreating"}
    BY DEF ShapeInv
  <1>11. 1 \in DOMAIN tree' \/ \E k \in DOMAIN todo' : todo'[k].node = 1
    <2>1. CASE 1 \in DOMAIN tree
      BY <2>1, <1>1
    <2>2. ASSUME NEW k \in DOMAIN todo, todo[k].node = 1
          PROVE  1 \in DOMAIN tree' \/ \E x \in DOMAIN todo' : todo'[x].node = 1
      <3>1. CASE k = 1
        BY <2>2, <3>1, <1>1, <1>3 DEF c
      <3>2. CASE k # 1
        <4>1. k - 1 \in 1..Len(todo) - 1 /\ k - 1 + 1 = k
          BY <3>2, <1>3
        <4>2. todo'[k - 1] = todo[k - 1 + 1] /\ k - 1 \in DOMAIN todo'
          BY <4>1, <1>2
        <4> QED
          BY <4>1, <4>2, <2>2
      <3> QED
        BY <3>1, <3>2
    <2> QED
      BY <2>1, <2>2, <1>10 DEF ShapeInv
  <1> QED
    BY <1>5, <1>7, <1>8, <1>9, <1>10, <1>11 DEF ShapeInv

\* A leaf gets the photo that was found, which leaves the pool.
LEMMA CreateLeafStep ==
  ASSUME Inv, CreateLeaf
  PROVE  Inv'
  <1> DEFINE c == Head(todo).node
             nodes == [n \in {c} |-> Node("leaf", Target, pool[Finder])]
             left == RemoveAt(pool, Finder)
  <1>1. /\ todo # <<>> /\ Head(todo).num = 1 /\ Place(nodes, <<>>, left)
    BY DEF CreateLeaf, Placing
  <1>2. TypeOK /\ CountInv /\ ShapeInv
    BY DEF Inv
  <1>3. Len(pool) \in Nat /\ Len(pool) >= 1 /\ pool # <<>> /\ DOMAIN pool = 1..Len(pool)
    BY <1>1, <1>2, EnoughLeft, PoolLen
  <1>4. Finder \in 1..Len(pool)
    BY <1>2, <1>3 DEF Inv, SearchInv, TypeOK, Finder
  <1>5. pool \in Seq(DOMAIN photos) /\ NoneTwice(pool) /\ DOMAIN photos = 1..Len(photos)
        /\ Len(photos) \in Nat
    BY <1>2 DEF Inv, TypeOK, PlacedInv
  <1>6. /\ left \in Seq(DOMAIN photos) /\ Len(left) = Len(pool) - 1 /\ NoneTwice(left)
        /\ Range(left) = Range(pool) \ {pool[Finder]}
    BY <1>4, <1>5, OneErased
  <1>7. pool[Finder] \in Range(pool) /\ pool[Finder] # 0
    BY <1>3, <1>4, <1>5 DEF Range
  <1>8. /\ nodes = [n \in DOMAIN nodes |-> nodes[n]] /\ DOMAIN nodes = {c}
        /\ nodes[c] = [type |-> "leaf", target |-> Target, photo |-> pool[Finder],
                       actual |-> photos[pool[Finder]]]
    BY <1>7 DEF Node
  <1> HIDE DEF nodes, left, c
  <1>9. Fresh(nodes) /\ Leaves(nodes) = {c}
    BY <1>8 DEF Fresh, IsNode, Leaves, IsLeaf, c
  <1>10. {nodes[n].photo : n \in Leaves(nodes)} = {pool[Finder]}
    BY <1>8, <1>9
  <1>11. todo' = <<>> \o Tail(todo) /\ photos' = photos /\ pool' = left
    BY <1>1 DEF Place, callVars
  <1>12. CountInv'
    BY <1>1, <1>2, <1>6, <1>11, PopCount
  <1>13. ShapeInv'
    BY <1>1, <1>2, <1>9, PopShape
  <1>14. /\ todo' \in Seq(Range(todo'))
         /\ \A k \in DOMAIN todo' : todo'[k].node \in Nat \ {0} /\ todo'[k].num \in Nat \ {0}
    BY <1>1, <1>2, <1>11, PoppedType
  <1> QED
    BY <1>1, <1>6, <1>7, <1>8, <1>9, <1>10, <1>12, <1>13, <1>14, PlaceStep

\* The two leaves get the photos of the pair that was found, which leave the pool.
LEMMA CreatePairStep ==
  ASSUME Inv, CreatePair
  PROVE  Inv'
  <1> DEFINE c == Head(todo).node
             two == FoundTwo
             child(k) == Node("leaf", ChildTarget(Head(todo).target, two.type), pool[k])
             nodes == [n \in {c, 2 * c, 2 * c + 1} |->
                         CASE n = c         -> Node(two.type, Head(todo).target, 0)
                           [] n = 2 * c     -> child(two.i)
                           [] n = 2 * c + 1 -> child(two.j)]
             left == EraseTwo(pool, two.i, two.j)
  <1>1. /\ todo # <<>> /\ Head(todo).num = 2 /\ Place(nodes, <<>>, left)
    BY DEF CreatePair, PlacePair, Placing
  <1>2. TypeOK /\ CountInv /\ ShapeInv
    BY DEF Inv
  <1>3. Len(pool) \in Nat /\ Len(pool) >= 2 /\ DOMAIN pool = 1..Len(pool)
    BY <1>1, <1>2, EnoughLeft, PoolLen
  <1>4. /\ two.i \in 1..Len(pool) /\ two.j \in 1..Len(pool) /\ two.i < two.j
        /\ two.type \in {"V", "H"}
    <2>1. \A d \in Cuts : /\ search.best[d][1] \in 1..Len(pool)
                          /\ search.best[d][2] \in 1..Len(pool)
                          /\ search.best[d][1] < search.best[d][2]
      BY <1>2, <1>3, SMTT(30) DEF Inv, SearchInv, TypeOK
    <2>2. \E d \in Cuts : two = [type |-> d, i |-> search.best[d][1], j |-> search.best[d][2]]
      BY DEF FoundTwo, Cuts
    <2> QED
      BY <2>1, <2>2 DEF Cuts
  <1>5. pool \in Seq(DOMAIN photos) /\ NoneTwice(pool) /\ DOMAIN photos = 1..Len(photos)
        /\ Len(photos) \in Nat
    BY <1>2 DEF Inv, TypeOK, PlacedInv
  <1> HIDE DEF two
  <1>6. /\ left \in Seq(DOMAIN photos) /\ Len(left) = Len(pool) - 2 /\ NoneTwice(left)
        /\ Range(left) = Range(pool) \ {pool[two.i], pool[two.j]}
    <2> DEFINE i == two.i
               j == two.j
    <2>1. pool \in Seq(DOMAIN photos) /\ NoneTwice(pool)
      BY <1>5
    <2>2. i \in 1..Len(pool) /\ j \in 1..Len(pool) /\ i < j
      BY <1>4
    <2> HIDE DEF i, j
    <2>3. LET r == EraseTwo(pool, i, j) IN
          /\ r \in Seq(DOMAIN photos) /\ Len(r) = Len(pool) - 2 /\ NoneTwice(r)
          /\ Range(r) = Range(pool) \ {pool[i], pool[j]}
      BY <2>1, <2>2, TwoErased
    <2> QED
      BY <2>3 DEF i, j
  <1>7. \A k \in 1..Len(pool) : pool[k] \in Range(pool) /\ pool[k] # 0
    BY <1>3, <1>5, SMTT(30) DEF Range
  <1>8. c \in Nat \ {0} /\ c # 2 * c /\ c # 2 * c + 1 /\ 2 * c # 2 * c + 1
    BY <1>1, <1>2, FreshNodes
  <1> HIDE DEF c
  <1>9. /\ nodes = [n \in DOMAIN nodes |-> nodes[n]] /\ DOMAIN nodes = {c, 2 * c, 2 * c + 1}
        /\ nodes[c] = Node(two.type, Head(todo).target, 0)
        /\ nodes[2 * c] = child(two.i)
        /\ nodes[2 * c + 1] = child(two.j)
    BY <1>8
  <1>10. ASSUME NEW k \in 1..Len(pool)
         PROVE  /\ IsNode(child(k)) /\ child(k).type = "leaf" /\ child(k).photo = pool[k]
                /\ child(k).actual = photos[pool[k]]
    BY <1>7 DEF Node, IsNode
  <1>11. IsNode(nodes[c]) /\ nodes[c].type # "leaf"
    BY <1>4, <1>9 DEF Node, IsNode
  <1>16. /\ IsNode(nodes[2 * c]) /\ nodes[2 * c].type = "leaf"
         /\ nodes[2 * c].photo = pool[two.i] /\ nodes[2 * c].actual = photos[pool[two.i]]
         /\ IsNode(nodes[2 * c + 1]) /\ nodes[2 * c + 1].type = "leaf"
         /\ nodes[2 * c + 1].photo = pool[two.j] /\ nodes[2 * c + 1].actual = photos[pool[two.j]]
    BY <1>4, <1>9, <1>10
  <1> HIDE DEF nodes, left, child
  <1>12. Fresh(nodes) /\ Leaves(nodes) = {2 * c, 2 * c + 1}
    <2>1. Leaves(nodes) = {2 * c, 2 * c + 1}
      BY <1>9, <1>11, <1>16 DEF Leaves, IsLeaf
    <2> QED
      BY <2>1, <1>9, <1>11, <1>16 DEF Fresh, c
  <1>13. /\ {nodes[n].photo : n \in Leaves(nodes)} = {pool[two.i], pool[two.j]}
         /\ \A n \in Leaves(nodes) : /\ nodes[n].photo \in Range(pool)
                                     /\ nodes[n].actual = photos[nodes[n].photo]
    BY <1>4, <1>7, <1>12, <1>16
  <1>14. \A m, n \in Leaves(nodes) : nodes[m].photo = nodes[n].photo => m = n
    <2>1. pool[two.i] # pool[two.j]
      BY <1>3, <1>4, <1>5 DEF NoneTwice
    <2> QED
      BY <2>1, <1>12, <1>16
  <1>15. todo' = <<>> \o Tail(todo) /\ photos' = photos /\ pool' = left
    BY <1>1 DEF Place, callVars
  <1>17. CountInv'
    BY <1>1, <1>2, <1>6, <1>15, PopCount
  <1>18. ShapeInv'
    BY <1>1, <1>2, <1>12, PopShape
  <1>19. /\ todo' \in Seq(Range(todo'))
         /\ \A k \in DOMAIN todo' : todo'[k].node \in Nat \ {0} /\ todo'[k].num \in Nat \ {0}
    BY <1>1, <1>2, <1>15, PoppedType
  <1> QED
    BY <1>1, <1>6, <1>12, <1>13, <1>14, <1>17, <1>18, <1>19, PlaceStep

-----------------------------------------------------------------------------

\* The two calls of a division: for the children, with the photos shared out.
TwoCalls(a, b) ==
  /\ todo' = <<a, b>> \o Tail(todo)
  /\ a.node = 2 * Head(todo).node /\ b.node = 2 * Head(todo).node + 1
  /\ a.num \in Nat \ {0} /\ b.num \in Nat \ {0} /\ a.num + b.num = Head(todo).num

\* The list of calls after a division.
LEMMA PushedCalls ==
  ASSUME TypeOK, ShapeInv, todo # <<>>, NEW a, NEW b, TwoCalls(a, b)
  PROVE  /\ todo' \in Seq(Range(todo')) /\ Len(todo') = Len(todo) + 1
         /\ DOMAIN todo' = 1..Len(todo) + 1
         /\ todo'[1] = a /\ todo'[2] = b
         /\ \A k \in 3..Len(todo) + 1 : todo'[k] = todo[k - 1]
         /\ \A k \in DOMAIN todo' : todo'[k].node \in Nat \ {0} /\ todo'[k].num \in Nat \ {0}
  <1> DEFINE S == Range(todo) \cup {a, b}
             r == <<a, b>> \o Tail(todo)
  <1>1. todo \in Seq(S)
    BY SeqMonotonic DEF TypeOK
  <1>2. <<a, b>> \in Seq(S) /\ Len(<<a, b>>) = 2 /\ <<a, b>>[1] = a /\ <<a, b>>[2] = b
    OBVIOUS
  <1> HIDE DEF S
  <1>3. /\ r \in Seq(S) /\ Len(r) = Len(<<a, b>>) + Len(todo) - 1
        /\ \A k \in 1..Len(r) :
             r[k] = IF k <= Len(<<a, b>>) THEN <<a, b>>[k] ELSE todo[k - Len(<<a, b>>) + 1]
    <2> HIDE DEF r
    <2> QED
      BY <1>1, <1>2, Pushed DEF r
  <1>4. Len(todo) \in Nat /\ Len(todo) >= 1
    BY PoolLen
  <1> HIDE DEF r
  <1>5. Len(r) = Len(todo) + 1 /\ DOMAIN r = 1..Len(todo) + 1
    BY <1>2, <1>3, <1>4
  <1>6. r[1] = a /\ r[2] = b
    BY <1>2, <1>3, <1>4, <1>5
  <1>7. \A k \in 3..Len(todo) + 1 : r[k] = todo[k - 1]
    BY <1>2, <1>3, <1>4, <1>5
  <1>8. r \in Seq(Range(r))
    BY <1>3, SeqOfRange
  <1>9. ASSUME NEW k \in 1..Len(todo) + 1
        PROVE  r[k].node \in Nat \ {0} /\ r[k].num \in Nat \ {0}
    <2>1. CASE k \in {1, 2}
      <3>1. /\ a.node \in Nat \ {0} /\ b.node \in Nat \ {0}
            /\ a.num \in Nat \ {0} /\ b.num \in Nat \ {0}
        BY FreshNodes DEF TwoCalls
      <3> QED
        BY <2>1, <3>1, <1>6
    <2>2. CASE k \in 3..Len(todo) + 1
      <3>1. r[k] = todo[k - 1] /\ k - 1 \in DOMAIN todo
        BY <2>2, <1>4, <1>7, PoolLen
      <3> QED
        BY <3>1 DEF TypeOK
    <2> QED
      BY <2>1, <2>2, <1>4
  <1>10. todo' = r
    BY DEF TwoCalls, r
  <1> QED
    BY <1>5, <1>6, <1>7, <1>8, <1>9, <1>10

\* The two calls of a division are for as many photos as the call was.
LEMMA TwoCallsCount ==
  ASSUME TypeOK, ShapeInv, CountInv, todo # <<>>, NEW a, NEW b, TwoCalls(a, b),
         photos' = photos, pool' = pool
  PROVE  CountInv'
  <1>1. PICK left \in [1 .. Len(todo) + 1 -> 0 .. Len(photos)] :
          /\ left[1] = Len(pool) /\ left[Len(todo) + 1] = 0
          /\ \A k \in 1 .. Len(todo) : left[k] = left[k + 1] + todo[k].num
    BY DEF CountInv
  <1> DEFINE L == Len(todo)
             more == [k \in 1..L + 2 |->
                        IF k = 1 THEN left[1]
                        ELSE IF k = 2 THEN left[1] - a.num ELSE left[k - 1]]
  <1>2. L \in Nat /\ L >= 1 /\ Head(todo) = todo[1] /\ 1 \in 1..L /\ 1 + 1 \in 1..L + 1
    BY PoolLen
  <1>3. /\ Len(todo') = L + 1 /\ todo'[1] = a /\ todo'[2] = b
        /\ \A k \in 3..L + 1 : todo'[k] = todo[k - 1]
    BY PushedCalls
  <1>4. a.num \in Nat \ {0} /\ b.num \in Nat \ {0} /\ a.num + b.num = todo[1].num
    BY <1>2 DEF TwoCalls
  <1>5. /\ left[1] = left[2] + todo[1].num
        /\ \A k \in 1..L + 1 : left[k] \in 0..Len(photos)
    <2>1. left[1] = left[1 + 1] + todo[1].num
      BY <1>1, <1>2
    <2> QED
      BY <2>1, <1>1
  <1> HIDE DEF L
  <1>6. Len(photos) \in Nat
    BY DEF TypeOK
  <1>7. left[1] - a.num \in 0..Len(photos) /\ left[1] - a.num = left[2] + b.num
    BY <1>2, <1>4, <1>5, <1>6, SMTT(30)
  <1>8. ASSUME NEW k \in 1..L + 2 PROVE more[k] \in 0..Len(photos)
    <2>1. CASE k = 1
      BY <2>1, <1>2, <1>5
    <2>2. CASE k = 2
      BY <2>2, <1>2, <1>7
    <2>3. CASE k \in 3..L + 2
      BY <2>3, <1>2, <1>5
    <2> QED
      BY <1>2, <2>1, <2>2, <2>3
  <1>9. more \in [1..L + 2 -> 0..Len(photos)]
    BY <1>8
  <1>10. more[1] = Len(pool) /\ more[L + 2] = 0
    <2> DEFINE last == L + 2
    <2>1. last \in 1..L + 2 /\ last # 1 /\ last # 2 /\ last - 1 = L + 1
      BY <1>2
    <2> HIDE DEF last
    <2>2. more[last] = left[L + 1]
      BY <2>1
    <2> QED
      BY <2>2, <1>1, <1>2 DEF last, L
  <1>11. ASSUME NEW k \in 1..L + 1 PROVE more[k] = more[k + 1] + todo'[k].num
    <2>0. more[1] = left[1] /\ more[2] = left[1] - a.num
      BY <1>2
    <2>1. CASE k = 1
      <3>1. more[k + 1] = left[1] - a.num /\ more[k] = left[1] /\ todo'[k].num = a.num
        BY <2>0, <2>1, <1>3
      <3> HIDE DEF more
      <3> QED
        BY <3>1, <1>2, <1>4, <1>5, <1>6
    <2>2. CASE k = 2
      <3>1. more[3] = left[2]
        BY <1>2
      <3>2. more[k + 1] = left[2] /\ more[k] = left[1] - a.num /\ todo'[k].num = b.num
        BY <2>0, <2>2, <3>1, <1>3
      <3> HIDE DEF more
      <3> QED
        BY <3>2, <1>7
    <2>3. CASE k \in 3..L + 1
      <3>1. more[k] = left[k - 1] /\ more[k + 1] = left[k]
        BY <2>3, <1>2
      <3>2. left[k - 1] = left[k - 1 + 1] + todo[k - 1].num
        BY <2>3, <1>1, <1>2, SMTT(30) DEF L
      <3> HIDE DEF more
      <3>3. k - 1 + 1 = k
        BY <2>3
      <3> QED
        BY <2>3, <3>1, <3>2, <3>3, <1>3
    <2> QED
      BY <1>2, <2>1, <2>2, <2>3
  <1> HIDE DEF more
  <1>12. /\ more \in [1..Len(todo') + 1 -> 0..Len(photos')]
         /\ more[1] = Len(pool') /\ more[Len(todo') + 1] = 0
         /\ \A k \in 1..Len(todo') : more[k] = more[k + 1] + todo'[k].num
    <2>1. Len(todo') + 1 = L + 2 /\ Len(todo') = L + 1
      BY <1>2, <1>3
    <2> QED
      BY <2>1, <1>9, <1>10, <1>11
  <1> QED
    BY <1>12 DEF CountInv

\* The two calls of a division are for nodes that have a parent and are not made yet.
LEMMA TwoCallsShape ==
  ASSUME TypeOK, ShapeInv, todo # <<>>, NEW a, NEW b, TwoCalls(a, b), NEW nodes, NEW left,
         Fresh(nodes), DOMAIN nodes = {Head(todo).node}, Place(nodes, <<a, b>>, left)
  PROVE  ShapeInv'
  <1> DEFINE c == Head(todo).node
             L == Len(todo)
  <1>1. DOMAIN tree' = DOMAIN tree \cup {c}
    BY PlacedTree
  <1>2. /\ DOMAIN todo' = 1..L + 1 /\ todo'[1] = a /\ todo'[2] = b
        /\ \A k \in 3..L + 1 : todo'[k] = todo[k - 1]
    BY PushedCalls
  <1>3. /\ L \in Nat /\ L >= 1 /\ DOMAIN todo = 1..L /\ 1 \in DOMAIN todo /\ Head(todo) = todo[1]
    BY PoolLen
  <1>4. /\ c \in Nat \ {0} /\ c \notin DOMAIN tree
        /\ 2 * c \notin DOMAIN tree /\ 2 * c + 1 \notin DOMAIN tree
        /\ \A k \in 2..L : todo[k].node \notin {c, 2 * c, 2 * c + 1}
    BY FreshNodes
  <1>5. stage' = stage
    BY DEF Place, countVars
  <1>6. c # 1 => c \div 2 \in DOMAIN tree
    BY <1>3 DEF ShapeInv
  <1>7. a.node = 2 * c /\ b.node = 2 * c + 1
    BY DEF TwoCalls
  <1>8. c = todo[1].node
    BY <1>3
  <1> HIDE DEF c, L
  <1>9. /\ (2 * c) \div 2 = c /\ (2 * c + 1) \div 2 = c /\ 2 * c # 2 * c + 1
        /\ 2 * c # 1 /\ 2 * c # c /\ 2 * c + 1 # c
    BY <1>4
  <1>10. ASSUME NEW k \in 1..L + 1
         PROVE  \/ k = 1 /\ todo'[k].node = 2 * c
                \/ k = 2 /\ todo'[k].node = 2 * c + 1
                \/ /\ k - 1 \in 2..L /\ k - 1 \in DOMAIN todo
                   /\ todo'[k].node = todo[k - 1].node
    BY <1>2, <1>3, <1>7
  <1>11. \A n \in DOMAIN tree' : n # 1 => n \div 2 \in DOMAIN tree'
    BY <1>1, <1>6 DEF ShapeInv
  <1>12. ASSUME NEW k \in 1..L + 1
         PROVE  /\ todo'[k].node \notin DOMAIN tree'
                /\ todo'[k].node # 1 => todo'[k].node \div 2 \in DOMAIN tree'
    <2>1. CASE k - 1 \in 2..L /\ k - 1 \in DOMAIN todo /\ todo'[k].node = todo[k - 1].node
      <3>1. /\ todo[k - 1].node \notin DOMAIN tree
            /\ todo[k - 1].node # 1 => todo[k - 1].node \div 2 \in DOMAIN tree
        BY <2>1 DEF ShapeInv
      <3>2. todo[k - 1].node # c
        BY <1>4, <2>1
      <3> QED
        BY <1>1, <2>1, <3>1, <3>2
    <2>2. CASE todo'[k].node = 2 * c \/ todo'[k].node = 2 * c + 1
      <3>1. todo'[k].node \notin DOMAIN tree /\ todo'[k].node # c
        BY <1>4, <1>9, <2>2
      <3>2. todo'[k].node \div 2 = c
        BY <1>9, <2>2
      <3> QED
        BY <1>1, <3>1, <3>2
    <2> QED
      BY <1>10, <2>1, <2>2
  <1>13. ASSUME NEW k \in 1..L + 1, NEW l \in 1..L + 1, todo'[k].node = todo'[l].node
         PROVE  k = l
    <2>0. \A x \in 1..L + 1 : x \notin {1, 2} => todo'[x].node \notin {2 * c, 2 * c + 1}
      BY <1>4, <1>10
    <2>1. CASE k \in {1, 2} \/ l \in {1, 2}
      <3>1. todo'[1].node = 2 * c /\ todo'[2].node = 2 * c + 1
        BY <1>2, <1>7
      <3> QED
        BY <2>0, <2>1, <3>1, <1>9, <1>13
    <2>2. CASE k \notin {1, 2} /\ l \notin {1, 2}
      <3>1. /\ k - 1 \in DOMAIN todo /\ l - 1 \in DOMAIN todo
            /\ todo[k - 1].node = todo[l - 1].node
        BY <2>2, <1>10, <1>13
      <3>2. k - 1 = l - 1
        BY <3>1 DEF ShapeInv
      <3> QED
        BY <3>2
    <2> QED
      BY <2>1, <2>2
  <1>14. stage \in {"creating", "recreating"}
    BY DEF ShapeInv
  <1>15. 1 \in DOMAIN tree' \/ \E k \in DOMAIN todo' : todo'[k].node = 1
    <2>1. CASE 1 \in DOMAIN tree
      BY <2>1, <1>1
    <2>2. ASSUME NEW k \in DOMAIN todo, todo[k].node = 1
          PROVE  1 \in DOMAIN tree' \/ \E x \in DOMAIN todo' : todo'[x].node = 1
      <3>1. CASE k = 1
        BY <2>2, <3>1, <1>1, <1>8
      <3>2. CASE k # 1
        <4>1. PICK x \in 3..L + 1 : x - 1 = k
          <5>1. k + 1 \in 3..L + 1 /\ (k + 1) - 1 = k
            BY <3>2, <1>3
          <5> QED
            BY <5>1
        <4>2. todo'[x] = todo[x - 1] /\ x \in DOMAIN todo'
          BY <1>2, <1>3
        <4> QED
          BY <4>1, <4>2, <2>2
      <3> QED
        BY <3>1, <3>2
    <2> QED
      BY <2>1, <2>2, <1>14 DEF ShapeInv
  <1> QED
    BY <1>2, <1>5, <1>11, <1>12, <1>13, <1>14, <1>15 DEF ShapeInv

\* A division places no photo.
LEMMA CreateDivisionStep ==
  ASSUME Inv, CreateDivision
  PROVE  Inv'
  <1> DEFINE c == Head(todo)
             few == c.num \div 2
  <1>1. todo # <<>> /\ c.num > 2
    BY DEF CreateDivision
  <1>2. PICK type \in {"V", "H"},
             target \in {ChildTarget(c.target, "V"), ChildTarget(c.target, "H")} :
          Place([n \in {c.node} |-> Node(type, c.target, 0)],
                <<[node |-> 2 * c.node, target |-> target, num |-> few],
                  [node |-> 2 * c.node + 1, target |-> target, num |-> c.num - few]>>,
                pool)
    BY DEF CreateDivision
  <1> DEFINE nodes == [n \in {c.node} |-> Node(type, c.target, 0)]
             a == [node |-> 2 * c.node, target |-> target, num |-> few]
             b == [node |-> 2 * c.node + 1, target |-> target, num |-> c.num - few]
  <1>3. TypeOK /\ CountInv /\ ShapeInv /\ PlacedInv
    BY DEF Inv
  <1>4. c.num \in Nat \ {0}
    BY <1>1, <1>3, PoolLen DEF TypeOK
  <1>5. few \in Nat \ {0} /\ c.num - few \in Nat \ {0} /\ few + (c.num - few) = c.num
    <2> DEFINE num == c.num
    <2>1. num \in Nat /\ num > 2 /\ few = num \div 2
      BY <1>1, <1>4
    <2> HIDE DEF num
    <2>2. num \div 2 \in Nat \ {0} /\ num - num \div 2 \in Nat \ {0}
          /\ num \div 2 + (num - num \div 2) = num
      BY <2>1
    <2> QED
      BY <2>2 DEF num
  <1>6. TwoCalls(a, b)
    BY <1>2, <1>5 DEF TwoCalls, Place
  <1>7. /\ nodes = [n \in DOMAIN nodes |-> nodes[n]] /\ DOMAIN nodes = {c.node}
        /\ nodes[c.node] = Node(type, c.target, 0)
    OBVIOUS
  <1>8. IsNode(Node(type, c.target, 0)) /\ Node(type, c.target, 0).type # "leaf"
    BY DEF IsNode, Node
  <1>9. Place(nodes, <<a, b>>, pool)
    BY <1>2
  <1> HIDE DEF nodes, a, b
  <1>10. Fresh(nodes) /\ Leaves(nodes) = {}
    BY <1>7, <1>8 DEF Fresh, Leaves, IsLeaf
  <1>11. /\ photos' = photos /\ pool' = pool
         /\ pool \in Seq(DOMAIN photos) /\ NoneTwice(pool)
         /\ Range(pool) = Range(pool) \ {nodes[n].photo : n \in Leaves(nodes)}
    BY <1>3, <1>9, <1>10 DEF Place, callVars, TypeOK, PlacedInv
  <1>12. CountInv'
    BY <1>1, <1>3, <1>6, <1>11, TwoCallsCount
  <1>13. ShapeInv'
    BY <1>1, <1>3, <1>6, <1>7, <1>9, <1>10, TwoCallsShape
  <1>14. /\ todo' \in Seq(Range(todo'))
         /\ \A k \in DOMAIN todo' : todo'[k].node \in Nat \ {0} /\ todo'[k].num \in Nat \ {0}
    BY <1>1, <1>3, <1>6, PushedCalls
  <1> HIDE DEF c, few
  <1> QED
    BY <1>1, <1>9, <1>10, <1>11, <1>12, <1>13, <1>14, PlaceStep

-----------------------------------------------------------------------------

\* A tree in which only targets, ratios and cuts are others.
SameShape(t, u) ==
  /\ DOMAIN u = DOMAIN t /\ u = [n \in DOMAIN u |-> u[n]]
  /\ \A n \in DOMAIN t : /\ IsNode(u[n]) /\ u[n].photo = t[n].photo
                         /\ u[n].type = "leaf" <=> t[n].type = "leaf"

\* It has the same leaves.
LEMMA SameLeaves ==
  ASSUME NEW t, NEW u, SameShape(t, u)
  PROVE  Leaves(u) = Leaves(t)
  BY DEF SameShape, Leaves, IsLeaf

\* What is said of places, counts and photos outlasts measuring and adjusting.
LEMMA Relabelled ==
  ASSUME Inv, UNCHANGED <<callVars, pool, search, todo>>, todo = <<>>, stage # "idle",
         SameShape(tree, tree'), stage' \in {"optimizing", "found", "gaveUp"},
         iterCount' \in Nat
  PROVE  TypeOK' /\ SearchInv' /\ CountInv' /\ ShapeInv' /\ PlacedInv'
  <1>1. /\ photos' = photos /\ canvas' = canvas /\ mPhotos' = mPhotos /\ pool' = pool
        /\ search' = search /\ todo' = todo
    BY DEF callVars
  <1>2. Leaves(tree)' = Leaves(tree)
    BY SameLeaves
  <1>3. /\ DOMAIN tree' = DOMAIN tree /\ tree' = [n \in DOMAIN tree' |-> tree'[n]]
        /\ \A n \in DOMAIN tree : IsNode(tree'[n]) /\ tree'[n].photo = tree[n].photo
    BY DEF SameShape
  <1>4. Leaves(tree) \subseteq DOMAIN tree
    BY DEF Leaves
  <1>5. TypeOK'
    <2>1. SortedOrders' = SortedOrders
      BY <1>1 DEF SortedOrders, Before
    <2> QED
      BY <1>1, <1>2, <1>3, <1>4, <2>1 DEF Inv, TypeOK, Stages
  <1>6. SearchInv'
    BY <1>1 DEF Inv, SearchInv
  <1>7. CountInv'
    BY <1>1 DEF Inv, CountInv
  <1>8. ShapeInv'
    BY <1>1, <1>3 DEF Inv, ShapeInv
  <1>9. PlacedInv'
    <2>1. {tree'[n].photo : n \in Leaves(tree)'} = {tree[n].photo : n \in Leaves(tree)}
      BY <1>2, <1>3, <1>4
    <2>2. \A m, n \in Leaves(tree)' : tree'[m].photo = tree'[n].photo => m = n
      BY <1>2, <1>3, <1>4 DEF Inv, PlacedInv
    <2> QED
      BY <1>1, <2>1, <2>2 DEF Inv, PlacedInv
  <1> QED
    BY <1>5, <1>6, <1>7, <1>8, <1>9

\* calculateAspectRatioAt leaves a leaf its own ratio.
LEMMA RatiosOfLeaves ==
  ASSUME NEW type, NEW leaf
  PROVE  /\ DOMAIN RatiosOf(type, leaf) = DOMAIN type
         /\ \A n \in DOMAIN type \cap DOMAIN leaf : RatiosOf(type, leaf)[n] = leaf[n]
  BY DEF RatiosOf

\* Measuring a tree changes ratios only: without a dangling reference the leaves' remain,
\* and the root's is that of its leaves.
LEMMA MeasuredNodes ==
  ASSUME NEW t, t = [n \in DOMAIN t |-> t[n]], \A n \in DOMAIN t : IsNode(t[n]), NEW at
  PROVE  LET u == Measured(t, at)
             leaf == [n \in Leaves(t) |-> t[n].actual]
         IN /\ SameShape(t, u) /\ Types(u) = Types(t)
            /\ at \in {Nowhere, 1} => \A n \in Leaves(t) : u[n].actual = t[n].actual
            /\ at \in {Nowhere, 1} /\ 1 \in DOMAIN t =>
                 u[1].actual = RatiosOf(Types(t), leaf)[1]
  <1> DEFINE leaf == [n \in Leaves(t) |-> t[n].actual]
             ar == RatiosOf(Types(t), leaf)
             c == Calculated(t)
             u == Measured(t, at)
  <1>1. Leaves(t) \subseteq DOMAIN t /\ DOMAIN Types(t) = DOMAIN t
    BY DEF Leaves, Types
  <1>2. \A n \in Leaves(t) : ar[n] = t[n].actual
    <2> HIDE DEF ar, leaf
    <2>1. \A n \in Leaves(t) : n \in DOMAIN Types(t) \cap DOMAIN leaf /\ leaf[n] = t[n].actual
      BY <1>1 DEF leaf
    <2> QED
      BY <2>1, RatiosOfLeaves DEF ar
  <1>3. c = [n \in DOMAIN t |-> [t[n] EXCEPT !.actual = ar[n]]]
    BY DEF Calculated
  <1> HIDE DEF ar, c
  <1>4. /\ DOMAIN c = DOMAIN t
        /\ \A n \in DOMAIN t : c[n] = [type |-> t[n].type, target |-> t[n].target,
                                       photo |-> t[n].photo, actual |-> ar[n]]
    BY <1>3 DEF IsNode
  <1>5. u = c \/ \E r : u = [c EXCEPT ![at].actual = r]
    BY DEF Measured, c
  <1>6. at \in {Nowhere, 1} => u = c
    BY DEF Measured, c
  <1> HIDE DEF u
  <1>7. /\ DOMAIN u = DOMAIN t /\ u = [n \in DOMAIN u |-> u[n]]
        /\ \A n \in DOMAIN t : \E r : u[n] = [type |-> t[n].type, target |-> t[n].target,
                                              photo |-> t[n].photo, actual |-> r]
    <2>1. CASE u = c
      <3>1. c = [n \in DOMAIN c |-> c[n]]
        BY <1>3
      <3> QED
        BY <2>1, <3>1, <1>4
    <2>2. ASSUME NEW r, u = [c EXCEPT ![at].actual = r]
          PROVE  /\ DOMAIN u = DOMAIN t /\ u = [n \in DOMAIN u |-> u[n]]
                 /\ \A n \in DOMAIN t : \E x : u[n] = [type |-> t[n].type, target |-> t[n].target,
                                                       photo |-> t[n].photo, actual |-> x]
      <3>1. u = [n \in DOMAIN c |-> IF n = at THEN [c[n] EXCEPT !.actual = r] ELSE c[n]]
        BY <2>2
      <3>2. \A n \in DOMAIN t : u[n] = [type |-> t[n].type, target |-> t[n].target,
                                        photo |-> t[n].photo,
                                        actual |-> IF n = at THEN r ELSE ar[n]]
        BY <3>1, <1>4
      <3> QED
        BY <3>1, <3>2, <1>4
    <2> QED
      BY <1>5, <2>1, <2>2
  <1>8. SameShape(t, u)
    BY <1>7 DEF SameShape, IsNode
  <1>9. Types(u) = Types(t)
    BY <1>7 DEF Types
  <1>10. at \in {Nowhere, 1} => \A n \in Leaves(t) : u[n].actual = t[n].actual
    BY <1>1, <1>2, <1>4, <1>6
  <1>11. at \in {Nowhere, 1} /\ 1 \in DOMAIN t => u[1].actual = ar[1]
    BY <1>4, <1>6
  <1> QED
    BY <1>8, <1>9, <1>10, <1>11 DEF u, ar

\* The ratio of the photos on the leaves depends on the cuts and the leaves alone.
LEMMA TrueRatioIs ==
  ASSUME Leaves(tree)' = Leaves(tree), Types(tree') = Types(tree), photos' = photos,
         \A n \in Leaves(tree) : tree'[n].photo = tree[n].photo
  PROVE  TrueRatio' = TrueRatio
  <1>1. [n \in Leaves(tree)' |-> photos'[tree'[n].photo]]
          = [n \in Leaves(tree) |-> photos[tree[n].photo]]
    OBVIOUS
  <1> QED
    BY <1>1 DEF TrueRatio

\* After the first measuring the root has the ratio of the photos on the leaves.
LEMMA MeasureTreeStep ==
  ASSUME Inv, MeasureTree
  PROVE  Inv'
  <1>1. /\ stage \in {"creating", "recreating"} /\ todo = <<>>
        /\ tree' = Measured(tree, realAt') /\ stage' \in {"gaveUp", "optimizing"}
        /\ UNCHANGED <<callVars, pool, search, todo, iterCount, oddSeed>>
    BY DEF MeasureTree, Measure
  <1>2. /\ tree = [n \in DOMAIN tree |-> tree[n]] /\ \A n \in DOMAIN tree : IsNode(tree[n])
        /\ iterCount' \in Nat
    BY <1>1 DEF Inv, TypeOK
  <1> DEFINE leaf == [n \in Leaves(tree) |-> tree[n].actual]
  <1>3. /\ SameShape(tree, tree') /\ Types(tree') = Types(tree)
        /\ realAt' \in {Nowhere, 1} => \A n \in Leaves(tree) : tree'[n].actual = tree[n].actual
        /\ realAt' \in {Nowhere, 1} /\ 1 \in DOMAIN tree =>
             tree'[1].actual = RatiosOf(Types(tree), leaf)[1]
    BY <1>1, <1>2, MeasuredNodes
  <1>4. TypeOK' /\ SearchInv' /\ CountInv' /\ ShapeInv' /\ PlacedInv'
    BY <1>1, <1>2, <1>3, Relabelled
  <1>5. /\ Leaves(tree)' = Leaves(tree) /\ photos' = photos
        /\ \A n \in Leaves(tree) : tree'[n].photo = tree[n].photo
    BY <1>1, <1>3, SameLeaves DEF callVars, SameShape, Leaves
  <1>6. TrueRatio' = TrueRatio
    BY <1>3, <1>5, TrueRatioIs
  <1>7. \A n \in Leaves(tree) : tree[n].actual = photos[tree[n].photo]
    BY <1>1 DEF Inv, RatioInv
  <1>8. RatiosOf(Types(tree), leaf)[1] = TrueRatio
    <2>1. leaf = [n \in Leaves(tree) |-> photos[tree[n].photo]]
      BY <1>7
    <2> QED
      BY <2>1 DEF TrueRatio
  <1>9. 1 \in DOMAIN tree
    BY <1>1 DEF Inv, ShapeInv
  <1>10. RatioInv'
    BY <1>1, <1>3, <1>5, <1>6, <1>7, <1>8, <1>9 DEF RatioInv, RealRatio
  <1>11. FoundTreeFits' /\ LoopInv'
    BY <1>1 DEF Inv, FoundTreeFits, LoopInv
  <1> QED
    BY <1>4, <1>10, <1>11 DEF Inv

\* adjustAspectRatioAt changes cuts and targets, never whether a node is a leaf.
LEMMA AdjustedNodes ==
  ASSUME NEW t, t = [n \in DOMAIN t |-> t[n]], \A n \in DOMAIN t : IsNode(t[n])
  PROVE  LET u == AdjustedTree(t) IN
         /\ SameShape(t, u) /\ u = [n \in DOMAIN u |-> u[n]]
         /\ \A n \in DOMAIN t : u[n].actual = t[n].actual
  <1> DEFINE target == Targets(t)
             u == AdjustedTree(t)
  <1> HIDE DEF target
  <1>1. u = [n \in DOMAIN t |-> [t[n] EXCEPT !.target = target[n],
                                             !.type = CutFor(t[n], target[n])]]
    BY DEF AdjustedTree, target
  <1> HIDE DEF u
  <1>2. ASSUME NEW n \in DOMAIN t
        PROVE  u[n] = [type |-> CutFor(t[n], target[n]), target |-> target[n],
                       photo |-> t[n].photo, actual |-> t[n].actual]
    <2> DEFINE x == target[n]
               cut == CutFor(t[n], target[n])
    <2>1. u[n] = [t[n] EXCEPT !.target = x, !.type = cut]
      BY <1>1
    <2>2. PICK a, g, p, r : t[n] = [type |-> a, target |-> g, photo |-> p, actual |-> r]
      BY DEF IsNode
    <2> HIDE DEF x, cut
    <2>3. [t[n] EXCEPT !.target = x, !.type = cut]
            = [type |-> cut, target |-> x, photo |-> p, actual |-> r]
      <3> DEFINE q == [t[n] EXCEPT !.target = x]
      <3>1. q = [type |-> a, target |-> x, photo |-> p, actual |-> r]
        BY <2>2
      <3>2. [t[n] EXCEPT !.target = x, !.type = cut] = [q EXCEPT !.type = cut]
        BY Zenon
      <3> HIDE DEF q
      <3>3. [q EXCEPT !.type = cut] = [type |-> cut, target |-> x, photo |-> p, actual |-> r]
        BY <3>1
      <3> QED
        BY <3>2, <3>3
    <2>4. t[n].photo = p /\ t[n].actual = r
      BY <2>2
    <2> QED
      BY <2>1, <2>3, <2>4 DEF x, cut
  <1>3. ASSUME NEW n \in DOMAIN t
        PROVE  /\ CutFor(t[n], target[n]) \in {"leaf", "V", "H"}
               /\ CutFor(t[n], target[n]) = "leaf" <=> t[n].type = "leaf"
    BY DEF CutFor, IsNode
  <1>4. DOMAIN u = DOMAIN t /\ u = [n \in DOMAIN u |-> u[n]]
    BY <1>1
  <1>5. ASSUME NEW n \in DOMAIN t
        PROVE  /\ IsNode(u[n]) /\ u[n].photo = t[n].photo /\ u[n].actual = t[n].actual
               /\ u[n].type = "leaf" <=> t[n].type = "leaf"
    <2>1. \A a, b, p, r : a \in {"leaf", "V", "H"} =>
            IsNode([type |-> a, target |-> b, photo |-> p, actual |-> r])
      BY DEF IsNode
    <2> DEFINE m == [type |-> CutFor(t[n], target[n]), target |-> target[n],
                     photo |-> t[n].photo, actual |-> t[n].actual]
    <2>2. IsNode(m)
      BY <2>1, <1>3
    <2>3. /\ m.photo = t[n].photo /\ m.actual = t[n].actual
          /\ m.type = CutFor(t[n], target[n])
      OBVIOUS
    <2>4. u[n] = m
      BY <1>2
    <2> HIDE DEF m
    <2> QED
      BY <2>2, <2>3, <2>4, <1>3
  <1> QED
    BY <1>4, <1>5 DEF SameShape, u

\* A sorted list has every photo, once.
LEMMA Sorted ==
  ASSUME TypeOK, photos # <<>>, NEW s \in SortedOrders
  PROVE  /\ s \in Seq(DOMAIN photos) /\ Len(s) = Len(photos) /\ NoneTwice(s)
         /\ Range(s) = DOMAIN photos
  <1>1. /\ s \in [DOMAIN photos -> DOMAIN photos]
        /\ \A a, b \in DOMAIN s : s[a] = s[b] => a = b
        /\ \A t \in DOMAIN photos : \E x \in DOMAIN photos : s[x] = t
    BY DEF SortedOrders, Bijection, Injection, Surjection, IsInjective
  <1>2. DOMAIN photos = 1..Len(photos) /\ Len(photos) \in Nat
    BY DEF TypeOK
  <1>3. s \in UNION {[1..n -> DOMAIN photos] : n \in Nat}
    <2> DEFINE N == Len(photos)
               D == DOMAIN photos
    <2>1. N \in Nat /\ s \in [1..N -> D]
      BY <1>1, <1>2
    <2> HIDE DEF N, D
    <2>2. s \in UNION {[1..n -> D] : n \in Nat}
      BY <2>1
    <2> QED
      BY <2>2 DEF D
  <1>4. s \in Seq(DOMAIN photos)
    BY <1>3, SeqDef
  <1>5. DOMAIN s = 1..Len(s) /\ Len(s) \in Nat /\ DOMAIN s = 1..Len(photos)
    BY <1>1, <1>2, <1>4
  <1>6. Len(s) = Len(photos)
    <2> DEFINE N == Len(photos)
               M == Len(s)
    <2>1. N \in Nat /\ M \in Nat /\ 1..N = 1..M
      BY <1>2, <1>5
    <2> HIDE DEF N, M
    <2>2. N \in 1..N \/ N = 0
      BY <2>1
    <2>3. M \in 1..M \/ M = 0
      BY <2>1
    <2>4. N <= M /\ M <= N
      BY <2>1, <2>2, <2>3
    <2> QED
      BY <2>1, <2>4, SMTT(30) DEF N, M
  <1> QED
    BY <1>1, <1>4, <1>6 DEF NoneTwice, Range

\* createTree begins with all photos in the pool and one call for all of them.
LEMMA Created ==
  ASSUME TypeOK, photos # <<>>, photos' = photos, canvas' = canvas, mPhotos' \in SortedOrders,
         CreateTree(mPhotos'), stage' \in {"creating", "recreating"}, iterCount' = 0
  PROVE  Inv'
  <1>1. /\ pool' = mPhotos' /\ search' = WholePool(mPhotos') /\ tree' = <<>>
        /\ todo' = <<[node |-> 1, target |-> canvas, num |-> Len(photos)]>>
    BY DEF CreateTree
  <1>2. /\ pool' \in Seq(DOMAIN photos) /\ Len(pool') = Len(photos) /\ NoneTwice(pool')
        /\ Range(pool') = DOMAIN photos
    BY <1>1, Sorted
  <1>3. Len(photos) \in Nat \ {0} /\ photos \in Seq(Fractions)
    BY DEF TypeOK
  <1>4. DOMAIN tree' = {} /\ tree' = [n \in DOMAIN tree' |-> tree'[n]]
    BY <1>1
  <1>5. Leaves(tree)' = {}
    BY <1>4 DEF Leaves
  <1> DEFINE root == [node |-> 1, target |-> canvas, num |-> Len(photos)]
  <1>6. /\ Len(todo') = 1 /\ DOMAIN todo' = {1} /\ todo'[1] = root
        /\ todo' \in Seq(Range(todo'))
    <2>1. <<root>> \in Seq({root})
      OBVIOUS
    <2>2. todo' \in Seq(Range(todo'))
      BY <1>1, <2>1, SeqOfRange
    <2> QED
      BY <1>1, <2>2
  <1>7. root.node = 1 /\ root.num = Len(photos)
    OBVIOUS
  <1> HIDE DEF root
  <1>8. search' \in searchType /\ SearchInv'
    BY <1>1, <1>2, PlacedSearch
  <1>9. TypeOK'
    <2>1. SortedOrders' = SortedOrders
      BY DEF SortedOrders, Before
    <2>2. stage' \in Stages
      BY DEF Stages
    <2>3. \A k \in DOMAIN todo' : todo'[k].node \in Nat \ {0} /\ todo'[k].num \in Nat \ {0}
      BY <1>3, <1>6, <1>7
    <2> QED
      BY <1>2, <1>3, <1>4, <1>5, <1>6, <1>8, <2>1, <2>2, <2>3 DEF TypeOK, searchType
  <1>10. CountInv'
    <2> DEFINE left == [k \in 1..2 |-> IF k = 1 THEN Len(photos) ELSE 0]
    <2>1. /\ left \in [1..2 -> 0..Len(photos)]
          /\ left[1] = Len(photos) /\ left[2] = 0
      BY <1>3
    <2> HIDE DEF left
    <2>2. /\ left \in [1..Len(todo') + 1 -> 0..Len(photos')]
          /\ left[1] = Len(pool') /\ left[Len(todo') + 1] = 0
          /\ \A k \in 1..Len(todo') : left[k] = left[k + 1] + todo'[k].num
      BY <2>1, <1>2, <1>3, <1>6, <1>7
    <2> QED
      BY <2>2 DEF CountInv
  <1>11. ShapeInv'
    BY <1>4, <1>6, <1>7 DEF ShapeInv
  <1>12. PlacedInv'
    BY <1>2, <1>5 DEF PlacedInv
  <1>13. RatioInv' /\ FoundTreeFits'
    BY <1>5 DEF RatioInv, FoundTreeFits
  <1>14. LoopInv'
    BY PicWallAssumption DEF LoopInv
  <1> QED
    BY <1>8, <1>9, <1>10, <1>11, <1>12, <1>13, <1>14 DEF Inv

\* An adjustment measures the tree again, or begins another one.
LEMMA AdjustTreeStep ==
  ASSUME Inv, AdjustTree
  PROVE  Inv'
  <1> DEFINE t == AdjustedTree(tree)
  <1>1. /\ stage = "optimizing" /\ iterCount < MaxOptIterations
        /\ UNCHANGED <<callVars, reSampleCount, oddSeed, realAt>>
    BY DEF AdjustTree
  <1>2. CASE CreateTree(mPhotos) /\ iterCount' = 0 /\ stage' = "recreating"
    <2>1. /\ TypeOK /\ photos # <<>> /\ photos' = photos /\ canvas' = canvas
          /\ mPhotos' = mPhotos /\ mPhotos' \in SortedOrders
      BY <1>1 DEF Inv, TypeOK, callVars
    <2> QED
      BY <1>2, <2>1, Created
  <1>3. CASE /\ tree' = Measured(t, realAt) /\ iterCount' = iterCount + 1
             /\ iterCount + 1 < MaxOptIterations
             /\ UNCHANGED <<pool, search, todo, stage>>
    <2>1. /\ tree = [n \in DOMAIN tree |-> tree[n]] /\ \A n \in DOMAIN tree : IsNode(tree[n])
          /\ iterCount' \in Nat /\ todo = <<>> /\ 1 \in DOMAIN tree
      BY <1>1, <1>3 DEF Inv, TypeOK, ShapeInv
    <2>2. /\ SameShape(tree, t) /\ t = [n \in DOMAIN t |-> t[n]]
          /\ \A n \in DOMAIN tree : t[n].actual = tree[n].actual
      BY <2>1, AdjustedNodes
    <2> HIDE DEF t
    <2>3. \A n \in DOMAIN t : IsNode(t[n])
      BY <2>2 DEF SameShape
    <2> DEFINE leaf == [n \in Leaves(t) |-> t[n].actual]
    <2>4. /\ SameShape(t, tree') /\ Types(tree') = Types(t)
          /\ realAt \in {Nowhere, 1} => \A n \in Leaves(t) : tree'[n].actual = t[n].actual
          /\ realAt \in {Nowhere, 1} /\ 1 \in DOMAIN t =>
               tree'[1].actual = RatiosOf(Types(t), leaf)[1]
      BY <1>3, <2>2, <2>3, MeasuredNodes
    <2>5. SameShape(tree, tree')
      BY <2>2, <2>4 DEF SameShape
    <2>6. TypeOK' /\ SearchInv' /\ CountInv' /\ ShapeInv' /\ PlacedInv'
      BY <1>1, <1>3, <2>1, <2>5, Relabelled
    <2>7. /\ Leaves(tree)' = Leaves(tree) /\ Leaves(t) = Leaves(tree) /\ DOMAIN t = DOMAIN tree
          /\ Leaves(tree) \subseteq DOMAIN tree /\ photos' = photos
          /\ realAt' = realAt /\ stage' = stage
          /\ \A n \in Leaves(tree) : tree'[n].photo = tree[n].photo
      BY <1>1, <1>3, <2>2, <2>5, SameLeaves DEF callVars, SameShape, Leaves
    <2>8. RatioInv'
      <3>1. CASE realAt \in {Nowhere, 1}
        <4>1. \A n \in Leaves(tree) : /\ t[n].actual = photos[tree[n].photo]
                                      /\ tree'[n].actual = photos[tree[n].photo]
          BY <1>1, <2>2, <2>4, <2>7, <3>1 DEF Inv, RatioInv
        <4>2. leaf = [n \in Leaves(tree)' |-> photos'[tree'[n].photo]]
          BY <2>7, <4>1
        <4>3. TrueRatio' = RatiosOf(Types(t), leaf)[1]
          BY <2>4, <4>2 DEF TrueRatio
        <4>4. tree'[1].actual = TrueRatio'
          BY <2>1, <2>4, <2>7, <3>1, <4>3
        <4> QED
          BY <2>7, <4>1, <4>4 DEF RatioInv, RealRatio
      <3>2. CASE realAt \notin {Nowhere, 1}
        BY <1>1, <2>7, <3>2 DEF RatioInv
      <3> QED
        BY <3>1, <3>2
    <2>9. FoundTreeFits' /\ LoopInv'
      BY <1>1, <1>3 DEF FoundTreeFits, LoopInv
    <2> QED
      BY <2>6, <2>8, <2>9 DEF Inv
  <1>4. MaxOptIterations \in Nat /\ iterCount \in Nat
    BY PicWallAssumption DEF Inv, TypeOK
  <1> QED
    BY <1>2, <1>3, <1>4 DEF AdjustTree

\* A tree is returned because it fits: the count of adjustments never reaches its limit
\* where the loop tests it, since it is set back before.
LEMMA ReturnTreeStep ==
  ASSUME Inv, ReturnTree
  PROVE  Inv'
  <1>1. /\ stage = "optimizing" /\ stage' = "found" /\ Fits(RealRatio)
        /\ UNCHANGED <<callVars, pool, search, todo, tree, oddSeed,
                       iterCount, reSampleCount, realAt>>
    BY PicWallAssumption DEF ReturnTree, Inv, LoopInv, TypeOK
  <1>2. todo = <<>> /\ iterCount' \in Nat
    BY <1>1 DEF Inv, ShapeInv, TypeOK
  <1>3. SameShape(tree, tree')
    BY <1>1 DEF Inv, TypeOK, SameShape
  <1>4. TypeOK' /\ SearchInv' /\ CountInv' /\ ShapeInv' /\ PlacedInv'
    BY <1>1, <1>2, <1>3, Relabelled
  <1>5. /\ TrueRatio' = TrueRatio /\ RealRatio' = RealRatio /\ realAt' = realAt
        /\ Leaves(tree)' = Leaves(tree) /\ photos' = photos /\ tree' = tree /\ canvas' = canvas
    BY <1>1 DEF callVars, TrueRatio, RealRatio, Leaves, IsLeaf
  <1>6. RatioInv'
    BY <1>1, <1>5 DEF Inv, RatioInv
  <1>7. FoundTreeFits'
    <2>1. realAt \in {Nowhere, 1} => Fits(TrueRatio)
      BY <1>1 DEF Inv, RatioInv
    <2> QED
      BY <2>1, <1>5 DEF FoundTreeFits, Fits
  <1>8. LoopInv'
    BY <1>1 DEF Inv, LoopInv
  <1> QED
    BY <1>4, <1>6, <1>7, <1>8 DEF Inv

-----------------------------------------------------------------------------

\* Before the first sample nothing is placed.
LEMMA InitInv == Init => Inv
  <1> SUFFICES ASSUME Init PROVE Inv
    OBVIOUS
  <1>1. /\ photos \in Seq(Fractions) /\ pool = <<>> /\ todo = <<>> /\ tree = <<>>
        /\ search = WholePool(<<>>) /\ iterCount = 0 /\ realAt = Nowhere /\ stage = "idle"
    <2>1. photos \in Seq(Positives \cup {Zero})
      BY RequestsAssumption DEF Init, PicWallInit
    <2>2. Positives \cup {Zero} \subseteq Fractions
      BY DEF Positives, Zero, Fractions
    <2>3. photos \in Seq(Fractions)
      BY <2>1, <2>2, SeqMonotonic
    <2> QED
      BY <2>3 DEF Init, PicWallInit
  <1>2. Len(<<>>) = 0 /\ DOMAIN <<>> = {} /\ <<>> = [n \in DOMAIN <<>> |-> <<>>[n]]
    OBVIOUS
  <1>3. Leaves(tree) = {}
    BY <1>1, <1>2 DEF Leaves
  <1>4. search \in searchType
    BY <1>1, <1>2 DEF WholePool, searchType, Cuts
  <1>5. TypeOK
    <2>1. pool \in Seq(DOMAIN photos) /\ todo \in Seq(Range(todo))
      BY <1>1
    <2> QED
      BY <1>1, <1>2, <1>3, <1>4, <2>1 DEF TypeOK, searchType, Stages
  <1>6. SearchInv
    BY <1>1, <1>2 DEF SearchInv
  <1>7. CountInv
    <2> DEFINE left == [k \in 1..1 |-> 0]
    <2>1. left \in [1..1 -> 0..Len(photos)] /\ left[1] = 0
      BY <1>1
    <2> HIDE DEF left
    <2>2. /\ left \in [1..Len(todo) + 1 -> 0..Len(photos)]
          /\ left[1] = Len(pool) /\ left[Len(todo) + 1] = 0
          /\ \A k \in 1..Len(todo) : left[k] = left[k + 1] + todo[k].num
      BY <1>1, <1>2, <2>1
    <2> QED
      BY <2>2 DEF CountInv
  <1>8. ShapeInv /\ PlacedInv
    BY <1>1, <1>2, <1>3 DEF ShapeInv, PlacedInv, NoneTwice
  <1>9. RatioInv /\ FoundTreeFits /\ LoopInv
    BY <1>1, <1>3, PicWallAssumption DEF RatioInv, FoundTreeFits, LoopInv
  <1> QED
    BY <1>5, <1>6, <1>7, <1>8, <1>9 DEF Inv

\* The rest of generate does not touch the sampler.
LEMMA Unchanged ==
  ASSUME Inv, UNCHANGED picWallVars
  PROVE  Inv'
  <1>1. /\ UNCHANGED <<callVars, pool, todo, tree, oddSeed, countVars>> /\ search' = search
        /\ pool' = pool
    BY DEF picWallVars
  <1>2. search' \in searchType /\ SearchInv'
    BY <1>1 DEF Inv, TypeOK, searchType, SearchInv
  <1> QED
    BY <1>1, <1>2, OnlySearches

\* A new sample begins anew whatever the last one left.
LEMMA BeginTreeStep ==
  ASSUME Inv, BeginTree
  PROVE  Inv'
  <1>1. /\ photos # <<>> /\ mPhotos' \in SortedOrders /\ CreateTree(mPhotos')
        /\ iterCount' = 0 /\ stage' = "creating" /\ photos' = photos /\ canvas' = canvas
    BY DEF BeginTree, Running, SampleTree
  <1> QED
    BY <1>1, Created DEF Inv

\* Every step keeps the invariant.
LEMMA StepInv == Inv /\ [Next]_vars => Inv'
  <1> SUFFICES ASSUME Inv, [Next]_vars PROVE Inv'
    OBVIOUS
  <1>1. CASE BeginTree
    BY <1>1, BeginTreeStep
  <1>2. CASE PicWallRuns
    <2>1. PicWallStep
      BY <1>2 DEF PicWallRuns
    <2> QED
      BY <2>1, BisectStep, WalkStep, TurnWalkStep, CreateLeafStep, CreatePairStep,
         CreateDivisionStep, MeasureTreeStep, AdjustTreeStep, ReturnTreeStep DEF PicWallStep
  <1>3. CASE GenerateDefaults \/ SampleOneBig \/ EndPicWall \/ FilterGrids \/ Returned
                \/ UNCHANGED vars
    <2>1. UNCHANGED picWallVars
      BY <1>3 DEF GenerateDefaults, SampleOneBig, EndPicWall, FilterGrids, Returned, vars
    <2> QED
      BY <2>1, Unchanged, SMTT(30)
  <1> QED
    BY <1>1, <1>2, <1>3 DEF Next

\* The invariant holds in every state, for any photos, canvases and limits.
THEOREM Invariant == Spec => []Inv
  BY InitInv, StepInv, PTL DEF Spec

\* If the pool has the photos that are on no leaf, and no photo is on two leaves or
\* listed twice, each photo is in one place.
LEMMA PlacedOnce == Inv => EachPhotoPlacedOnce
  <1> SUFFICES ASSUME Inv, stage # "idle", NEW p \in DOMAIN photos
               PROVE  Cardinality({n \in Leaves(tree) : tree[n].photo = p})
                        + Cardinality({i \in DOMAIN pool : pool[i] = p}) = 1
    BY DEF EachPhotoPlacedOnce
  <1> DEFINE A == {n \in Leaves(tree) : tree[n].photo = p}
             B == {i \in DOMAIN pool : pool[i] = p}
  <1>0. PlacedInv
    BY DEF Inv
  <1>1. CASE p \in Range(pool)
    <2>1. PICK i \in DOMAIN pool : pool[i] = p
      BY <1>1 DEF Range
    <2>2. B = {i}
      BY <1>0, <2>1 DEF PlacedInv, NoneTwice
    <2>3. A = {}
      BY <1>0, <1>1 DEF PlacedInv
    <2>4. Cardinality(A) = 0 /\ Cardinality(B) = 1
      BY <2>2, <2>3, FS_Singleton, FS_EmptySet
    <2> HIDE DEF A, B
    <2> QED
      BY <2>4 DEF A, B
  <1>2. CASE p \notin Range(pool)
    <2>1. PICK n \in Leaves(tree) : tree[n].photo = p
      BY <1>0, <1>2 DEF PlacedInv
    <2>2. A = {n}
      BY <1>0, <2>1 DEF PlacedInv
    <2>3. B = {}
      BY <1>2 DEF Range
    <2>4. Cardinality(A) = 1 /\ Cardinality(B) = 0
      BY <2>2, <2>3, FS_Singleton, FS_EmptySet
    <2> HIDE DEF A, B
    <2> QED
      BY <2>4 DEF A, B
  <1> QED
    BY <1>1, <1>2

\* Whatever the photos and the random cuts, while createNode distributes the photos and
\* after it each of them is on one leaf or in the pool, once (PicWallSampler.cpp:357-628).
THEOREM PlacesEachPhotoOnce == Spec => []EachPhotoPlacedOnce
  BY Invariant, PlacedOnce, PTL

\* A tree that sampleTree returns before the reference dangled into it has, computed from
\* the photos on its leaves, the canvas's ratio within the tolerance.
THEOREM ReturnedTreeFits == Spec => []FoundTreeFits
  <1>1. Inv => FoundTreeFits
    BY DEF Inv
  <1> QED
    BY <1>1, Invariant, PTL

\* The sampler's variables have their types in every state.
THEOREM TypeCorrect == Spec => []TypeOK
  <1>1. Inv => TypeOK
    BY DEF Inv
  <1> QED
    BY <1>1, Invariant, PTL

\* The searches index the pool within its bounds, and a best pair is two photos:
\* "assert(best_h_i < best_h_j); assert(best_v_i < best_v_j);".
SearchesFindPhotos ==
  /\ Placing(1) => Finder \in DOMAIN pool
  /\ Placing(2) => \A c \in Cuts :
       LET b == search.best[c] IN b[1] \in DOMAIN pool /\ b[2] \in DOMAIN pool /\ b[1] < b[2]

\* The invariant bounds the searches.
LEMMA SearchesFind == Inv => SearchesFindPhotos
  <1> SUFFICES ASSUME Inv PROVE SearchesFindPhotos
    OBVIOUS
  <1>1. TypeOK /\ SearchInv /\ CountInv
    BY DEF Inv
  <1>2. Len(pool) \in Nat /\ DOMAIN pool = 1..Len(pool)
    BY <1>1, PoolLen
  <1>3. ASSUME Placing(1) PROVE Finder \in DOMAIN pool
    <2>1. Len(pool) >= 1 /\ pool # <<>>
      BY <1>1, <1>2, <1>3, EnoughLeft DEF Placing
    <2> QED
      BY <1>1, <1>2, <2>1 DEF SearchInv, TypeOK, Finder
  <1>4. ASSUME Placing(2), NEW c \in Cuts
        PROVE  /\ search.best[c][1] \in DOMAIN pool /\ search.best[c][2] \in DOMAIN pool
               /\ search.best[c][1] < search.best[c][2]
    <2>1. Len(pool) >= 2
      BY <1>1, <1>4, EnoughLeft DEF Placing
    <2> QED
      BY <1>1, <1>2, <2>1, SMTT(30) DEF SearchInv, TypeOK
  <1> QED
    BY <1>3, <1>4 DEF SearchesFindPhotos

\* findOneImageFor and findTwoImagesFor always find what they were called for, and the
\* assertions of PicWallSampler.cpp:587-588 hold.
THEOREM SearchesReturnPhotos == Spec => []SearchesFindPhotos
  BY Invariant, SearchesFind, PTL

-----------------------------------------------------------------------------
(*****************************************************************************)
(* Fractions                                                                 *)
(*****************************************************************************)

\* Every set of natural numbers has a least one.
LEMMA Least ==
  ASSUME NEW T \in SUBSET Nat, T # {}
  PROVE  \E m \in T : \A k \in T : m <= k
  <1>1. PICK m \in T : \A k \in T : ~(<<k, m>> \in OpToRel(<, Nat))
    BY NatLessThanWellFounded, WFMin
  <1>2. ASSUME NEW k \in T PROVE m <= k
    <2>1. k \in Nat /\ m \in Nat /\ ~(<<k, m>> \in OpToRel(<, Nat))
      BY <1>1
    <2> QED
      BY <2>1 DEF OpToRel
  <1> QED
    BY <1>2

\* d divides n; the numbers that divide both.
Divides(d, n) == \E k \in Nat : n = d * k
CommonDivisors(a, b) == {d \in Nat \ {0} : Divides(d, a) /\ Divides(d, b)}

\* Division with a remainder.
LEMMA DivMod ==
  ASSUME NEW a \in Nat, NEW b \in Nat \ {0}
  PROVE  /\ a \div b \in Nat /\ a % b \in 0..(b - 1)
         /\ a = b * (a \div b) + (a % b)
  <1>1. a \div b \in Nat
   OBVIOUS
  <1>2. a % b \in 0..(b - 1)
   OBVIOUS
  <1>3. a = b * (a \div b) + (a % b)
   OBVIOUS
  <1> QED
    BY <1>1, <1>2, <1>3

\* A step of Euclid's algorithm keeps the common divisors.
LEMMA SameDivisors ==
  ASSUME NEW a \in Nat, NEW b \in Nat \ {0}
  PROVE  CommonDivisors(a, b) = CommonDivisors(b, a % b)
  <1> DEFINE q == a \div b
             r == a % b
  <1>1. q \in Nat /\ r \in Nat /\ a = b * q + r
    BY DivMod
  <1> HIDE DEF q, r
  <1>2. ASSUME NEW d \in Nat \ {0}, NEW k \in Nat, b = d * k
        PROVE  Divides(d, a) <=> Divides(d, r)
    <2>1. ASSUME NEW x \in Nat, a = d * x PROVE Divides(d, r)
      <3>1. r = d * (x - k * q)
        BY <1>1, <1>2, <2>1, SMTT(30)
      <3>2. x - k * q \in Nat
        BY <1>1, <1>2, <2>1, <3>1, SMTT(30)
      <3> QED
        BY <3>1, <3>2 DEF Divides
    <2>2. ASSUME NEW x \in Nat, r = d * x PROVE Divides(d, a)
      <3>1. k * q + x \in Nat
        BY <1>1
      <3>2. a = (d * k) * q + d * x
        BY <1>1, <1>2, <2>2
      <3>3. a = d * (k * q + x)
        BY <1>1, <3>2
      <3> QED
        BY <3>1, <3>3 DEF Divides
    <2> QED
      BY <2>1, <2>2 DEF Divides
  <1>3. ASSUME NEW d \in Nat \ {0}, Divides(d, b) PROVE Divides(d, a) <=> Divides(d, r)
    BY <1>2, <1>3 DEF Divides
  <1> QED
    BY <1>3 DEF CommonDivisors, r

\* What Euclid's algorithm computes.
Equation(f) == f = [p \in Nat \X Nat |-> IF p[2] = 0 THEN p[1] ELSE f[<<p[2], p[1] % p[2]>>]]
Largest(S) == CHOOSE g \in S : \A d \in S : d <= g
GCD == [p \in Nat \X Nat |->
          IF p[1] = 0 /\ p[2] = 0 THEN 0 ELSE Largest(CommonDivisors(p[1], p[2]))]

\* The recursive definition of gcd has a value, the largest common divisor: a function
\* defined on fewer pairs than all of them could not satisfy it.
LEMMA GcdEquation == Equation(gcd)
  <1>1. gcd = CHOOSE f : Equation(f)
    BY DEF gcd, Equation
  <1>2. ASSUME NEW p \in Nat \X Nat
        PROVE GCD[p] = IF p[2] = 0 THEN p[1] ELSE GCD[<<p[2], p[1] % p[2]>>]
    <2> DEFINE a == p[1]
               b == p[2]
    <2>0. a \in Nat /\ b \in Nat
      OBVIOUS
    <2>a. GCD[p] = IF a = 0 /\ b = 0 THEN 0 ELSE Largest(CommonDivisors(a, b))
      BY DEF GCD
    <2> HIDE DEF a, b
    <2>1. CASE a = 0 /\ b = 0
      BY <2>a, <2>1 DEF a, b
    <2>2. CASE a # 0 /\ b = 0
      <3> DEFINE S == CommonDivisors(a, 0)
      <3>1. a \in S
        <4>1. a = a * 1 /\ 0 = a * 0
          BY <2>0
        <4> QED
          BY <2>0, <2>2, <4>1 DEF CommonDivisors, Divides
      <3>2. ASSUME NEW d \in S PROVE d \in Nat /\ d <= a
        <4>1. PICK k \in Nat : a = d * k /\ d \in Nat \ {0}
          BY DEF CommonDivisors, Divides
        <4>2. k >= 1
          BY <4>1, <2>2
        <4> QED
          BY <4>1, <4>2
      <3> HIDE DEF S
      <3>3. Largest(S) = a
        <4>1. \A g \in S : (\A d \in S : d <= g) => g = a
          BY <2>0, <3>1, <3>2
        <4>2. \A d \in S : d <= a
          BY <3>2
        <4> QED
          BY <3>1, <4>1, <4>2 DEF Largest
      <3>4. GCD[p] = a
        BY <2>a, <2>2, <3>3 DEF S
      <3> QED
        BY <2>2, <3>4 DEF a, b
    <2>3. CASE b # 0
      <3> DEFINE r == a % b
      <3>1. r \in Nat
        BY <2>0, <2>3, DivMod
      <3>2. CommonDivisors(a, b) = CommonDivisors(b, r)
        BY <2>0, <2>3, SameDivisors
      <3> HIDE DEF r
      <3>3. GCD[<<b, r>>] = Largest(CommonDivisors(b, r))
        BY <2>0, <2>3, <3>1 DEF GCD
      <3>4. GCD[p] = GCD[<<b, r>>]
        BY <2>a, <2>3, <3>2, <3>3
      <3> QED
        BY <2>3, <3>4 DEF a, b, r
    <2> QED
      BY <2>1, <2>2, <2>3
  <1>3. Equation(GCD)
    <2>1. GCD = [p \in Nat \X Nat |-> GCD[p]]
      BY DEF GCD
    <2> QED
      BY <1>2, <2>1 DEF Equation
  <1> QED
    BY <1>1, <1>3

\* So gcd divides both.
LEMMA GcdDivides ==
  ASSUME NEW a \in Nat, NEW b \in Nat, a # 0 \/ b # 0
  PROVE  gcd[<<a, b>>] \in CommonDivisors(a, b)
  <1> DEFINE Good(y) == \A x \in Nat : x # 0 \/ y # 0 => gcd[<<x, y>>] \in CommonDivisors(x, y)
             Bad == {y \in Nat : ~Good(y)}
  <1>0. ASSUME NEW x \in Nat, NEW y \in Nat
        PROVE  gcd[<<x, y>>] = IF y = 0 THEN x ELSE gcd[<<y, x % y>>]
    BY GcdEquation DEF Equation
  <1>1. Bad = {}
    <2> SUFFICES ASSUME Bad # {} PROVE FALSE
      OBVIOUS
    <2>1. PICK y \in Bad : \A z \in Bad : y <= z
      <3>1. Bad \in SUBSET Nat
        OBVIOUS
      <3> HIDE DEF Bad
      <3> QED
        BY <3>1, Least
    <2>2. PICK x \in Nat : (x # 0 \/ y # 0) /\ gcd[<<x, y>>] \notin CommonDivisors(x, y)
      BY <2>1
    <2>3. y # 0
      <3> SUFFICES ASSUME y = 0 PROVE FALSE
        OBVIOUS
      <3>1. gcd[<<x, y>>] = x
        BY <1>0
      <3>2. x # 0 /\ x = x * 1 /\ 0 = x * 0
        BY <2>2
      <3> QED
        BY <2>2, <3>1, <3>2 DEF CommonDivisors, Divides
    <2> DEFINE r == x % y
    <2>4. /\ y \in Nat /\ r \in Nat /\ r < y
          /\ CommonDivisors(x, y) = CommonDivisors(y, r)
      <3>1. y \in Nat \ {0}
        BY <2>3
      <3> HIDE DEF Bad
      <3>2. r \in 0..(y - 1)
        BY <3>1, DivMod
      <3> QED
        BY <3>1, <3>2, SameDivisors
    <2>5. gcd[<<x, y>>] = gcd[<<y, r>>]
      BY <1>0, <2>3, <2>4
    <2> HIDE DEF r
    <2>6. Good(r)
      <3>1. r \notin Bad
        BY <2>1, <2>4
      <3> QED
        BY <2>4, <3>1
    <2> QED
      BY <2>2, <2>3, <2>4, <2>5, <2>6
  <1>2. Good(b)
    BY <1>1
  <1> QED
    BY <1>2

\* What a fraction is once nothing is asked of its terms but a positive denominator.
Rationals == Int \X (Nat \ {0})

\* A positive factor can be left out of a comparison.
LEMMA Cancel ==
  ASSUME NEW x \in Int, NEW y \in Int, NEW k \in Nat \ {0}, x * k <= y * k
  PROVE  x <= y
  <1> SUFFICES ASSUME y + 1 <= x PROVE FALSE
    OBVIOUS
  <1>1. (y + 1) * k <= x * k
    BY SMTT(20)
  <1> QED
    BY <1>1

\* Dividing by a divisor is exact.
LEMMA ExactQuotient ==
  ASSUME NEW g \in Nat \ {0}, NEW k \in Int, NEW n \in Int, n = g * k
  PROVE  n \div g = k
  <1> DEFINE q == n \div g
             r == n % g
  <1>1. q \in Int /\ r \in 0..(g - 1) /\ n = g * q + r
    BY SMTT(20)
  <1> HIDE DEF q, r
  <1>2. r = g * (k - q)
    BY <1>1
  <1>3. k - q < 1
    <2> SUFFICES ASSUME k - q >= 1 PROVE FALSE
      BY <1>1
    <2>1. g * (k - q) >= g
      BY <1>1
    <2> QED
      BY <1>1, <1>2, <2>1
  <1>4. k - q > -1
    <2> SUFFICES ASSUME k - q <= -1 PROVE FALSE
      BY <1>1
    <2>1. g * (k - q) <= -g
      BY <1>1
    <2> QED
      BY <1>1, <1>2, <2>1
  <1> QED
    BY <1>1, <1>3, <1>4 DEF q

\* Reducing a fraction leaves its value.
LEMMA FracExact ==
  ASSUME NEW n \in Int, NEW d \in Int \ {0}
  PROVE  /\ Frac(n, d) \in Rationals
         /\ Frac(n, d)[1] * d = n * Frac(n, d)[2]
         /\ n > 0 /\ d > 0 => Frac(n, d)[1] > 0
  <1> DEFINE g == gcd[<<Abs(n), Abs(d)>>]
  <1>1. Abs(n) \in Nat /\ Abs(d) \in Nat \ {0}
    BY DEF Abs
  <1>2. g \in CommonDivisors(Abs(n), Abs(d))
    BY <1>1, GcdDivides
  <1>3. PICK x \in Nat, y \in Nat : g \in Nat \ {0} /\ Abs(n) = g * x /\ Abs(d) = g * y
    BY <1>2 DEF CommonDivisors, Divides
  <1> HIDE DEF g
  <1>4. y # 0
    BY <1>1, <1>3
  <1>5. PICK m \in Int : n = g * m /\ m \in {x, -x}
    BY <1>1, <1>3 DEF Abs
  <1>6. CASE d > 0
    <2>1. d = g * y
      BY <1>3, <1>6 DEF Abs
    <2>2. n \div g = m /\ d \div g = y
      BY <1>3, <1>5, <2>1, ExactQuotient
    <2>3. Frac(n, d) = <<m, y>>
      BY <1>6, <2>2 DEF Frac, g
    <2>4. m * d = n * y
      BY <1>3, <1>5, <2>1
    <2>5. n > 0 => m > 0
      BY <1>3, <1>5
    <2> QED
      BY <1>4, <2>3, <2>4, <2>5 DEF Rationals
  <1>7. CASE d < 0
    <2>1. -d = g * y
      BY <1>3, <1>7 DEF Abs
    <2>2. -n = g * (-m)
      BY <1>3, <1>5
    <2>3. (-n) \div g = -m /\ (-d) \div g = y
      BY <1>3, <2>1, <2>2, ExactQuotient
    <2>4. Frac(n, d) = <<-m, y>>
      BY <1>7, <2>3 DEF Frac, g
    <2>5. (-m) * d = n * y
      BY <1>3, <1>5, <2>1
    <2> QED
      BY <1>4, <1>7, <2>4, <2>5 DEF Rationals
  <1> QED
    BY <1>6, <1>7

\* Comparing cross products is transitive.
LEMMA LeqTrans ==
  ASSUME NEW a \in Rationals, NEW b \in Rationals, NEW c \in Rationals, Leq(a, b), Leq(b, c)
  PROVE  Leq(a, c)
  <1>1. PICK a1 \in Int, a2 \in Nat \ {0} : a = <<a1, a2>>
    BY DEF Rationals
  <1>2. PICK b1 \in Int, b2 \in Nat \ {0} : b = <<b1, b2>>
    BY DEF Rationals
  <1>3. PICK c1 \in Int, c2 \in Nat \ {0} : c = <<c1, c2>>
    BY DEF Rationals
  <1>4. a1 * b2 <= b1 * a2 /\ b1 * c2 <= c1 * b2
    BY <1>1, <1>2, <1>3 DEF Leq, Less
  <1>5. (a1 * b2) * c2 <= (b1 * a2) * c2 /\ (b1 * c2) * a2 <= (c1 * b2) * a2
    BY <1>4
  <1>6. (a1 * c2) * b2 <= (c1 * a2) * b2
    BY <1>5
  <1>7. a1 * c2 <= c1 * a2
    BY <1>6, Cancel
  <1> QED
    BY <1>1, <1>3, <1>7 DEF Leq, Less

\* The value of a sum.
LEMMA PlusExact ==
  ASSUME NEW a1 \in Int, NEW a2 \in Nat \ {0}, NEW b1 \in Int, NEW b2 \in Nat \ {0}
  PROVE  \E p1 \in Int, p2 \in Nat \ {0} :
           Plus(<<a1, a2>>, <<b1, b2>>) = <<p1, p2>> /\ p1 * (a2 * b2) = (a1 * b2 + b1 * a2) * p2
  <1> DEFINE n == a1 * b2 + b1 * a2
             d == a2 * b2
  <1>1. n \in Int /\ d \in Int \ {0}
    OBVIOUS
  <1>2. Plus(<<a1, a2>>, <<b1, b2>>) = Frac(n, d)
    BY DEF Plus
  <1> HIDE DEF n, d
  <1>3. Frac(n, d) \in Rationals /\ Frac(n, d)[1] * d = n * Frac(n, d)[2]
    BY <1>1, FracExact
  <1>4. PICK p1 \in Int, p2 \in Nat \ {0} : Frac(n, d) = <<p1, p2>> /\ p1 * d = n * p2
    BY <1>3 DEF Rationals
  <1> QED
    BY <1>2, <1>4 DEF n, d

\* A larger member makes a larger sum.
LEMMA PlusGrows ==
  ASSUME NEW a \in Rationals, NEW b \in Rationals, NEW c \in Rationals, Leq(a, b)
  PROVE  /\ Plus(a, c) \in Rationals /\ Plus(b, c) \in Rationals /\ Plus(c, a) = Plus(a, c)
         /\ Leq(Plus(a, c), Plus(b, c))
  <1>1. PICK a1 \in Int, a2 \in Nat \ {0} : a = <<a1, a2>>
    BY DEF Rationals
  <1>2. PICK b1 \in Int, b2 \in Nat \ {0} : b = <<b1, b2>>
    BY DEF Rationals
  <1>3. PICK c1 \in Int, c2 \in Nat \ {0} : c = <<c1, c2>>
    BY DEF Rationals
  <1>4. a1 * b2 <= b1 * a2
    BY <1>1, <1>2 DEF Leq, Less
  <1>5. PICK p1 \in Int, p2 \in Nat \ {0} :
          Plus(a, c) = <<p1, p2>> /\ p1 * (a2 * c2) = (a1 * c2 + c1 * a2) * p2
    BY <1>1, <1>3, PlusExact
  <1>6. PICK q1 \in Int, q2 \in Nat \ {0} :
          Plus(b, c) = <<q1, q2>> /\ q1 * (b2 * c2) = (b1 * c2 + c1 * b2) * q2
    BY <1>2, <1>3, PlusExact
  <1> DEFINE k == (a2 * c2) * (b2 * c2)
             l == (p2 * q2) * (c2 * c2)
  <1>7. k \in Nat \ {0} /\ l \in Nat
    OBVIOUS
  <1>8. (p1 * q2) * k = (p1 * (a2 * c2)) * (q2 * (b2 * c2))
    OBVIOUS
  <1>9. (q1 * p2) * k = (q1 * (b2 * c2)) * (p2 * (a2 * c2))
    OBVIOUS
  <1>10. ((a1 * c2 + c1 * a2) * p2) * (q2 * (b2 * c2)) + (b1 * a2 - a1 * b2) * l
         = ((b1 * c2 + c1 * b2) * q2) * (p2 * (a2 * c2))
    OBVIOUS
  <1>11. (b1 * a2 - a1 * b2) * l >= 0
    BY <1>4, <1>7
  <1>12. (p1 * q2) * k <= (q1 * p2) * k
    <2> HIDE DEF k, l
    <2> QED
      BY <1>5, <1>6, <1>7, <1>8, <1>9, <1>10, <1>11
  <1>13. p1 * q2 <= q1 * p2
    <2> HIDE DEF k, l
    <2> QED
      BY <1>7, <1>12, Cancel
  <1>14. Plus(c, a) = Plus(a, c)
    <2>1. c1 * a2 + a1 * c2 = a1 * c2 + c1 * a2 /\ c2 * a2 = a2 * c2
      OBVIOUS
    <2> QED
      BY <1>1, <1>3, <2>1 DEF Plus
  <1> QED
    BY <1>5, <1>6, <1>13, <1>14 DEF Leq, Less, Rationals

\* Any two fractions compare.
LEMMA LeqTotal ==
  ASSUME NEW a \in Rationals, NEW b \in Rationals
  PROVE  Leq(a, a) /\ (Leq(a, b) \/ Leq(b, a)) /\ (Less(a, b) => Leq(a, b))
  BY DEF Leq, Less, Rationals

\* Beyond what is aimed at, on either side, the distance grows.
LEMMA DistGrows ==
  ASSUME NEW x \in Rationals, NEW y \in Rationals, NEW t \in Rationals,
         (Leq(t, x) /\ Leq(x, y)) \/ (Leq(x, t) /\ Leq(y, x))
  PROVE  Dist(x, t) \in Rationals /\ Dist(y, t) \in Rationals /\ Leq(Dist(x, t), Dist(y, t))
  <1> DEFINE neg(a) == <<-a[1], a[2]>>
  <1>1. ASSUME NEW a \in Rationals, NEW b \in Rationals
        PROVE  /\ neg(a) \in Rationals /\ Minus(a, b) = Plus(a, neg(b))
               /\ Leq(a, b) => Leq(neg(b), neg(a))
    BY DEF Rationals, Minus, Leq, Less
  <1> HIDE DEF neg
  <1>2. ASSUME NEW a \in Rationals, NEW b \in Rationals, NEW c \in Rationals, Leq(a, b)
        PROVE  /\ Minus(a, c) \in Rationals /\ Minus(b, c) \in Rationals
               /\ Minus(c, a) \in Rationals /\ Minus(c, b) \in Rationals
               /\ Leq(Minus(a, c), Minus(b, c)) /\ Leq(Minus(c, b), Minus(c, a))
    <2>1. Leq(neg(b), neg(a)) /\ neg(a) \in Rationals /\ neg(b) \in Rationals
      BY <1>1, <1>2
    <2>2. /\ Plus(a, neg(c)) \in Rationals /\ Plus(b, neg(c)) \in Rationals
          /\ Leq(Plus(a, neg(c)), Plus(b, neg(c)))
      BY <1>1, <1>2, PlusGrows
    <2>3. /\ Plus(neg(b), c) \in Rationals /\ Plus(neg(a), c) \in Rationals
          /\ Plus(c, neg(b)) = Plus(neg(b), c)
          /\ Leq(Plus(neg(b), c), Plus(neg(a), c))
      BY <2>1, PlusGrows
    <2>4. Leq(neg(a), neg(a)) /\ Plus(c, neg(a)) = Plus(neg(a), c)
      BY <2>1, LeqTotal, PlusGrows
    <2> QED
      BY <1>1, <2>2, <2>3, <2>4
  <1>3. CASE Leq(t, x) /\ Leq(x, y)
    <2>1. Leq(t, y)
      BY <1>3, LeqTrans
    <2>2. Dist(x, t) = Minus(x, t) /\ Dist(y, t) = Minus(y, t)
      BY <1>3, <2>1 DEF Dist, Leq
    <2> QED
      BY <1>2, <1>3, <2>2
  <1>4. CASE Leq(x, t) /\ Leq(y, x)
    <2>1. Leq(Minus(t, x), Minus(t, y)) /\ Minus(t, x) \in Rationals /\ Minus(t, y) \in Rationals
      BY <1>2, <1>4
    <2>2. CASE Less(y, t) /\ Less(x, t)
      BY <2>1, <2>2 DEF Dist
    <2>3. CASE ~Less(x, t)
      <3>1. Leq(t, x) /\ Leq(t, t)
        BY <2>3, LeqTotal DEF Leq
      <3>2. /\ Leq(Minus(x, t), Minus(t, t)) /\ Minus(x, t) \in Rationals
            /\ Minus(t, t) \in Rationals /\ Dist(x, t) = Minus(x, t)
        BY <1>2, <1>4, <2>3 DEF Dist
      <3>3. CASE Less(y, t)
        <4>1. Leq(y, t)
          BY <3>3, LeqTotal
        <4>2. Leq(Minus(t, t), Minus(t, y)) /\ Dist(y, t) = Minus(t, y)
          BY <1>2, <3>3, <4>1 DEF Dist
        <4> QED
          BY <2>1, <3>2, <4>2, LeqTrans
      <3>4. CASE ~Less(y, t)
        <4>1. Leq(t, y)
          BY <3>4 DEF Leq
        <4>2. Leq(x, y)
          BY <1>4, <4>1, LeqTrans
        <4>3. Dist(y, t) = Minus(y, t)
          BY <3>4 DEF Dist
        <4> QED
          BY <1>2, <3>2, <4>2, <4>3
      <3> QED
        BY <3>3, <3>4
    <2>4. CASE ~Less(y, t) /\ Less(x, t)
      <3>1. Leq(t, y)
        BY <2>4 DEF Leq
      <3>2. Leq(t, x)
        BY <3>1, <1>4, LeqTrans
      <3> QED
        BY <2>4, <3>2 DEF Leq
    <2> QED
      BY <2>2, <2>3, <2>4
  <1> QED
    BY <1>3, <1>4

\* The operations on ratios that the sampler needs keep them positive.
LEMMA PositiveRatios ==
  ASSUME NEW a \in Positives
  PROVE  /\ a \in Rationals /\ Recip(a) \in Positives
         /\ Half(a) \in Positives /\ Double(a) \in Positives
  <1>1. PICK a1 \in Nat \ {0}, a2 \in Nat \ {0} : a = <<a1, a2>>
    BY DEF Positives
  <1>2. ASSUME NEW n \in Nat \ {0}, NEW d \in Nat \ {0} PROVE Frac(n, d) \in Positives
    <2>1. Frac(n, d) \in Rationals /\ Frac(n, d)[1] > 0
      BY FracExact
    <2> QED
      BY <2>1 DEF Rationals, Positives
  <1>3. Half(a) = Frac(a1 * 1, a2 * 2) /\ Double(a) = Frac(a1 * 2, a2 * 1)
    BY <1>1 DEF Half, Double, Over, Times
  <1>4. a1 * 1 \in Nat \ {0} /\ a2 * 2 \in Nat \ {0} /\ a1 * 2 \in Nat \ {0} /\ a2 * 1 \in Nat \ {0}
    OBVIOUS
  <1> QED
    BY <1>1, <1>2, <1>3, <1>4 DEF Rationals, Positives, Recip

\* The larger a ratio, the smaller its reciprocal.
LEMMA RecipFalls ==
  ASSUME NEW a \in Positives, NEW b \in Positives, Leq(a, b)
  PROVE  Leq(Recip(b), Recip(a))
  BY DEF Positives, Leq, Less, Recip

-----------------------------------------------------------------------------
(*****************************************************************************)
(* The nearest pair                                                          *)
(*****************************************************************************)

\* The photos left are sorted.
SortedInv == \A k, l \in DOMAIN pool : k < l => Leq(At(k), At(l))

\* What is sampled has a width and a height, and so has what the calls aim at.
RequestInv == /\ \A p \in DOMAIN photos : photos[p] \in Positives \cup {Zero}
              /\ canvas \in Positives
PositiveInv ==
  stage # "idle" => /\ \A p \in DOMAIN photos : photos[p] \in Positives
                    /\ \A k \in DOMAIN todo : todo[k].target \in Positives

\* The pairs a search has left behind: those with a photo outside the window of the walk it
\* is on, and all of them once the walk for a vertical cut is over.
Passed(c, p, q) == IF search.cut = c THEN p < search.i \/ q > search.j ELSE c = "V"
\* How far a pair is from the target.
Off(c, p) == Dist(Sum(c, p), Aim(c))
\* None of them is nearer than the pair the search keeps.
WalkInv ==
  Placing(2) => \A c \in Cuts : \A p, q \in DOMAIN pool :
    p < q /\ Passed(c, p, q) => Leq(Off(c, search.best[c]), Off(c, <<p, q>>))

\* The invariant.
NearInv == SortedInv /\ RequestInv /\ PositiveInv /\ WalkInv

\* In a call for two photos everything is positive.
LEMMA PlacingFacts ==
  ASSUME Inv, NearInv, todo # <<>>
  PROVE  /\ stage \in {"creating", "recreating"} /\ Head(todo) = todo[1] /\ 1 \in DOMAIN todo
         /\ Target \in Positives
         /\ Len(pool) \in Nat /\ DOMAIN pool = 1..Len(pool) /\ Len(pool) >= Head(todo).num
         /\ \A k \in DOMAIN pool : At(k) \in Positives
  <1>1. TypeOK /\ CountInv /\ ShapeInv
    BY DEF Inv
  <1>2. /\ Head(todo) = todo[1] /\ 1 \in DOMAIN todo
        /\ Len(pool) \in Nat /\ DOMAIN pool = 1..Len(pool) /\ Len(pool) >= Head(todo).num
    BY <1>1, PoolLen, EnoughLeft
  <1>3. stage \in {"creating", "recreating"}
    BY <1>1 DEF ShapeInv
  <1>4. \A k \in DOMAIN pool : pool[k] \in DOMAIN photos
    BY <1>1, <1>2 DEF TypeOK
  <1> QED
    BY <1>2, <1>3, <1>4 DEF NearInv, PositiveInv, Target, At

\* What a photo adds to a sum.
Part(c, k) == IF c = "V" THEN At(k) ELSE Recip(At(k))

\* The photos left, in order, add more and more to a sum, or less and less.
LEMMA Parts ==
  ASSUME Inv, NearInv, todo # <<>>, NEW c \in Cuts
  PROVE  /\ Aim(c) \in Rationals
         /\ \A k \in DOMAIN pool : Part(c, k) \in Rationals
         /\ \A k, l \in DOMAIN pool : k < l =>
              IF c = "V" THEN Leq(Part(c, k), Part(c, l)) ELSE Leq(Part(c, l), Part(c, k))
         /\ \A k, l \in DOMAIN pool : Sum(c, <<k, l>>) = Plus(Part(c, k), Part(c, l))
  <1>1. Target \in Positives /\ \A k \in DOMAIN pool : At(k) \in Positives
    BY PlacingFacts
  <1>2. Aim(c) \in Rationals
    BY <1>1, PositiveRatios DEF Aim
  <1>3. ASSUME NEW k \in DOMAIN pool PROVE Part(c, k) \in Rationals
    BY <1>1, PositiveRatios DEF Part
  <1>4. ASSUME NEW k \in DOMAIN pool, NEW l \in DOMAIN pool, k < l
        PROVE  IF c = "V" THEN Leq(Part(c, k), Part(c, l)) ELSE Leq(Part(c, l), Part(c, k))
    <2>1. Leq(At(k), At(l))
      BY <1>4 DEF NearInv, SortedInv
    <2>2. Leq(Recip(At(l)), Recip(At(k)))
      BY <1>1, <2>1, RecipFalls
    <2> QED
      BY <2>1, <2>2 DEF Part
  <1>5. \A k, l \in DOMAIN pool : Sum(c, <<k, l>>) = Plus(Part(c, k), Part(c, l))
    BY DEF Sum, Part, Cuts
  <1> QED
    BY <1>2, <1>3, <1>4, <1>5

\* The sums of two pairs compare like their different members.
LEMMA Sums ==
  ASSUME Inv, NearInv, todo # <<>>, NEW c \in Cuts,
         NEW k \in DOMAIN pool, NEW l \in DOMAIN pool, NEW m \in DOMAIN pool
  PROVE  /\ Sum(c, <<k, m>>) \in Rationals /\ Off(c, <<k, m>>) \in Rationals
         /\ Leq(Part(c, k), Part(c, l)) => /\ Leq(Sum(c, <<k, m>>), Sum(c, <<l, m>>))
                                           /\ Leq(Sum(c, <<m, k>>), Sum(c, <<m, l>>))
  <1>1. /\ Part(c, k) \in Rationals /\ Part(c, l) \in Rationals /\ Part(c, m) \in Rationals
        /\ Aim(c) \in Rationals
    BY Parts
  <1>2. ASSUME NEW x \in DOMAIN pool, NEW y \in DOMAIN pool
        PROVE  Sum(c, <<x, y>>) = Plus(Part(c, x), Part(c, y))
    BY Parts
  <1>3. Sum(c, <<k, m>>) \in Rationals
    BY <1>1, <1>2, LeqTotal, PlusGrows
  <1>4. Off(c, <<k, m>>) \in Rationals
    BY <1>1, <1>3, LeqTotal, DistGrows DEF Off
  <1>5. ASSUME Leq(Part(c, k), Part(c, l))
        PROVE  /\ Leq(Sum(c, <<k, m>>), Sum(c, <<l, m>>))
               /\ Leq(Sum(c, <<m, k>>), Sum(c, <<m, l>>))
    <2>1. /\ Leq(Plus(Part(c, k), Part(c, m)), Plus(Part(c, l), Part(c, m)))
          /\ Plus(Part(c, m), Part(c, k)) = Plus(Part(c, k), Part(c, m))
      BY <1>1, <1>5, PlusGrows
    <2>2. Plus(Part(c, m), Part(c, l)) = Plus(Part(c, l), Part(c, m))
      BY <1>1, LeqTotal, PlusGrows
    <2> QED
      BY <1>2, <2>1, <2>2
  <1> QED
    BY <1>3, <1>4, <1>5

\* No pair that the walk leaves out is nearer than the pair it leaves them out for.
LEMMA LeftOut ==
  ASSUME Inv, NearInv, todo # <<>>, NEW c \in Cuts,
         NEW i \in DOMAIN pool, NEW j \in DOMAIN pool, i < j,
         NEW p \in DOMAIN pool, NEW q \in DOMAIN pool, p < q,
         \/ Sum(c, <<i, j>>) = Aim(c)
         \/ /\ LeavesUpperEnd(c, Less(Aim(c), Sum(c, <<i, j>>)))
            /\ q = j /\ i <= p
         \/ /\ ~LeavesUpperEnd(c, Less(Aim(c), Sum(c, <<i, j>>)))
            /\ p = i /\ q <= j
  PROVE  Leq(Off(c, <<i, j>>), Off(c, <<p, q>>))
  <1> DEFINE x == Sum(c, <<i, j>>)
             y == Sum(c, <<p, q>>)
             t == Aim(c)
  <1>1. x \in Rationals /\ y \in Rationals /\ t \in Rationals
    BY Sums, Parts
  <1>0. DOMAIN pool \subseteq Nat
    BY PlacingFacts
  <1>2. (Leq(t, x) /\ Leq(x, y)) \/ (Leq(x, t) /\ Leq(y, x))
    <2>1. CASE x = t
      BY <1>1, <2>1, LeqTotal
    <2>2. CASE LeavesUpperEnd(c, Less(t, x)) /\ q = j /\ i <= p
      <3>1. p = i \/ i < p
        BY <1>0, <2>2
      <3>2. IF c = "V" THEN Leq(Part(c, i), Part(c, p)) ELSE Leq(Part(c, p), Part(c, i))
        BY <3>1, Parts, LeqTotal
      <3>3. IF c = "V" THEN Leq(x, y) ELSE Leq(y, x)
        BY <2>2, <3>2, Sums
      <3>4. IF c = "V" THEN Leq(t, x) ELSE Leq(x, t)
        BY <1>1, <2>2, LeqTotal DEF LeavesUpperEnd, Leq
      <3> QED
        BY <3>3, <3>4
    <2>3. CASE ~LeavesUpperEnd(c, Less(t, x)) /\ p = i /\ q <= j
      <3>1. q = j \/ q < j
        BY <1>0, <2>3
      <3>2. IF c = "V" THEN Leq(Part(c, q), Part(c, j)) ELSE Leq(Part(c, j), Part(c, q))
        BY <3>1, Parts, LeqTotal
      <3>3. IF c = "V" THEN Leq(y, x) ELSE Leq(x, y)
        BY <2>3, <3>2, Sums
      <3>4. IF c = "V" THEN Leq(x, t) ELSE Leq(t, x)
        <4>1. Less(t, x) \in BOOLEAN
          BY DEF Less
        <4>2. CASE c = "V"
          BY <2>3, <4>1, <4>2 DEF LeavesUpperEnd, Leq
        <4>3. CASE c # "V"
          <5>1. Less(t, x)
            BY <2>3, <4>1, <4>3 DEF LeavesUpperEnd
          <5> QED
            BY <1>1, <4>3, <5>1, LeqTotal
        <4> QED
          BY <4>2, <4>3
      <3> QED
        BY <3>3, <3>4
    <2> QED
      BY <2>1, <2>2, <2>3
  <1> HIDE DEF x, y, t
  <1>3. Leq(Dist(x, t), Dist(y, t))
    BY <1>1, <1>2, DistGrows
  <1> QED
    BY <1>3 DEF Off, x, y, t

\* What the searches for two photos know of the search.
LEMMA WalkFacts ==
  ASSUME Inv, Placing(2)
  PROVE  /\ todo # <<>> /\ Len(pool) \in Nat /\ Len(pool) >= 2 /\ DOMAIN pool = 1..Len(pool)
         /\ search \in searchType /\ search.cut \in Cuts
         /\ search.i \in DOMAIN pool /\ search.j \in DOMAIN pool /\ search.i <= search.j
         /\ \A c \in Cuts : \E k, l \in DOMAIN pool : k < l /\ search.best[c] = <<k, l>>
  <1>1. todo # <<>> /\ Head(todo).num = 2
    BY DEF Placing
  <1>2. Len(pool) \in Nat /\ Len(pool) >= 2 /\ pool # <<>> /\ DOMAIN pool = 1..Len(pool)
    BY <1>1, EnoughLeft, PoolLen DEF Inv
  <1>3. /\ search.i \in Nat /\ search.j \in Nat /\ 1 <= search.i /\ search.i <= search.j
        /\ search.j <= Len(pool) /\ search \in searchType /\ search.cut \in Cuts
    BY <1>2 DEF Inv, TypeOK, SearchInv, searchType
  <1>4. ASSUME NEW c \in Cuts
        PROVE  \E k, l \in DOMAIN pool : k < l /\ search.best[c] = <<k, l>>
    <2> DEFINE b == search.best[c]
    <2>1. /\ b \in Nat \X Nat /\ 1 <= b[1] /\ b[1] < b[2] /\ b[2] <= Len(pool)
      BY <1>2, <1>3 DEF Inv, SearchInv, searchType
    <2> HIDE DEF b
    <2>2. b = <<b[1], b[2]>> /\ b[1] \in DOMAIN pool /\ b[2] \in DOMAIN pool
      BY <1>2, <2>1
    <2> QED
      BY <2>1, <2>2 DEF b
  <1> QED
    BY <1>1, <1>2, <1>3, <1>4

\* The pair that is kept is the nearer of the two.
LEMMA NearerKept ==
  ASSUME NEW c, NEW p, NEW q, Off(c, p) \in Rationals, Off(c, q) \in Rationals
  PROVE  /\ Nearer(c, p, q) \in {p, q}
         /\ Leq(Off(c, Nearer(c, p, q)), Off(c, p)) /\ Leq(Off(c, Nearer(c, p, q)), Off(c, q))
  <1>1. CASE Less(Off(c, p), Off(c, q))
    <2>1. Nearer(c, p, q) = p
      BY <1>1 DEF Nearer, Off
    <2> QED
      BY <1>1, <2>1, LeqTotal
  <1>2. CASE ~Less(Off(c, p), Off(c, q))
    <2>1. Nearer(c, p, q) = q
      BY <1>2 DEF Nearer, Off
    <2> QED
      BY <1>2, <2>1, LeqTotal DEF Leq
  <1> QED
    BY <1>1, <1>2

\* A step of a walk leaves no nearer pair behind.
LEMMA WalkNear ==
  ASSUME Inv, NearInv, Walk
  PROVE  WalkInv'
  <1> DEFINE c == search.cut
             i == search.i
             j == search.j
             b == search.best[c]
             upper == LeavesUpperEnd(c, Less(Aim(c), Sum(c, <<i, j>>)))
             best == Nearer(c, <<i, j>>, b)
  <1>1. /\ Placing(2) /\ i < j
        /\ UNCHANGED <<callVars, pool, todo, tree, oddSeed, countVars>>
    BY DEF Walk
  <1>2. /\ todo # <<>> /\ Len(pool) \in Nat /\ DOMAIN pool = 1..Len(pool)
        /\ search \in searchType /\ c \in Cuts /\ i \in DOMAIN pool /\ j \in DOMAIN pool
        /\ \A d \in Cuts : \E k, l \in DOMAIN pool : k < l /\ search.best[d] = <<k, l>>
    BY <1>1, WalkFacts
  <1>3. \/ Sum(c, <<i, j>>) = Aim(c) /\ search' = [search EXCEPT !.best[c] = <<i, j>>, !.j = i]
        \/ search' = [search EXCEPT !.best[c] = best, !.i = IF upper THEN i ELSE i + 1,
                                    !.j = IF upper THEN j - 1 ELSE j]
    BY DEF Walk
  <1>a. Off(c, b) \in Rationals /\ Off(c, <<i, j>>) \in Rationals
    <2>1. PICK k \in DOMAIN pool, l \in DOMAIN pool : b = <<k, l>>
      BY <1>2
    <2> HIDE DEF b, c, i, j
    <2> QED
      BY <1>2, <2>1, Sums
  <1> HIDE DEF b, c, i, j
  <1>b. /\ best \in {<<i, j>>, b}
        /\ Leq(Off(c, best), Off(c, <<i, j>>)) /\ Leq(Off(c, best), Off(c, b))
    BY <1>a, NearerKept
  <1> HIDE DEF best, upper
  <1>c. PICK to, x, y :
          /\ search' = [search EXCEPT !.best[c] = to, !.i = x, !.j = y]
          /\ \/ Sum(c, <<i, j>>) = Aim(c) /\ to = <<i, j>> /\ x = i /\ y = i
             \/ /\ to = best /\ x = IF upper THEN i ELSE i + 1
                /\ y = IF upper THEN j - 1 ELSE j
    <2>1. CASE /\ Sum(c, <<i, j>>) = Aim(c)
               /\ search' = [search EXCEPT !.best[c] = <<i, j>>, !.j = i]
      <3>1. search' = [search EXCEPT !.best[c] = <<i, j>>, !.i = i, !.j = i]
        BY <1>2, <2>1 DEF searchType, i
      <3> QED
        BY <2>1, <3>1
    <2> QED
      BY <1>3, <2>1
  <1>4. /\ search'.cut = c /\ search'.i = x /\ search'.j = y /\ search'.best[c] = to
        /\ \A d \in Cuts : d # c => search'.best[d] = search.best[d]
    BY <1>2, <1>c DEF searchType, c
  <1>5. ASSUME NEW p \in DOMAIN pool, NEW q \in DOMAIN pool, p < q,
               p < search'.i \/ q > search'.j
        PROVE  Leq(Off(c, search'.best[c]), Off(c, <<p, q>>))
    <2>0. Off(c, <<p, q>>) \in Rationals
      BY <1>2, Sums
    <2>1. CASE Sum(c, <<i, j>>) = Aim(c) /\ search'.best[c] = <<i, j>>
      <3>1. Leq(Off(c, <<i, j>>), Off(c, <<p, q>>))
        BY <1>1, <1>2, <1>5, <2>1, LeftOut
      <3> QED
        BY <2>1, <3>1
    <2>2. CASE /\ search'.best[c] = best
               /\ search'.i = IF upper THEN i ELSE i + 1
               /\ search'.j = IF upper THEN j - 1 ELSE j
      <3>1. CASE p < i \/ q > j
        <4>1. Leq(Off(c, b), Off(c, <<p, q>>))
          BY <1>1, <1>2, <1>5, <3>1 DEF NearInv, WalkInv, Passed, b, c, i, j
        <4> QED
          BY <1>a, <1>b, <2>0, <2>2, <4>1, LeqTrans
      <3>2. CASE i <= p /\ q <= j
        <4>1. \/ upper /\ q = j /\ i <= p
              \/ ~upper /\ p = i /\ q <= j
          BY <1>2, <1>5, <2>2, <3>2
        <4>2. Leq(Off(c, <<i, j>>), Off(c, <<p, q>>))
          BY <1>1, <1>2, <1>5, <4>1, LeftOut DEF upper
        <4> QED
          BY <1>a, <1>b, <2>0, <2>2, <4>2, LeqTrans
      <3> QED
        BY <1>2, <3>1, <3>2
    <2> QED
      BY <1>4, <1>c, <2>1, <2>2
  <1>6. ASSUME NEW d \in Cuts, d # c, NEW p \in DOMAIN pool, NEW q \in DOMAIN pool, p < q, d = "V"
        PROVE  Leq(Off(d, search'.best[d]), Off(d, <<p, q>>))
    BY <1>1, <1>4, <1>6 DEF NearInv, WalkInv, Passed, c
  <1>7. photos' = photos /\ pool' = pool /\ todo' = todo
    BY <1>1 DEF callVars
  <1> SUFFICES ASSUME NEW d \in Cuts, NEW p \in DOMAIN pool, NEW q \in DOMAIN pool, p < q,
                      Passed(d, p, q)'
               PROVE  Leq(Off(d, search'.best[d]), Off(d, <<p, q>>))
    BY <1>7 DEF WalkInv, Off, Sum, At, Aim, Target
  <1> QED
    BY <1>4, <1>5, <1>6 DEF Passed

\* Nor does the walk that ends the search for a vertical cut, after which the other begins.
LEMMA TurnWalkNear ==
  ASSUME Inv, NearInv, TurnWalk
  PROVE  WalkInv'
  <1>1. /\ Placing(2) /\ search.i >= search.j /\ search.cut = "V"
        /\ search' = [search EXCEPT !.cut = "H", !.i = 1, !.j = Len(pool)]
        /\ photos' = photos /\ pool' = pool /\ todo' = todo
    BY DEF TurnWalk, callVars
  <1>2. /\ search \in searchType /\ Len(pool) \in Nat /\ DOMAIN pool = 1..Len(pool)
        /\ search.i \in DOMAIN pool /\ search.j \in DOMAIN pool
    BY <1>1, WalkFacts
  <1>3. /\ search'.best = search.best /\ search'.cut = "H"
        /\ search'.i = 1 /\ search'.j = Len(pool)
    BY <1>1, <1>2 DEF searchType
  <1> SUFFICES ASSUME NEW d \in Cuts, NEW p \in DOMAIN pool, NEW q \in DOMAIN pool, p < q,
                      Passed(d, p, q)'
               PROVE  Leq(Off(d, search.best[d]), Off(d, <<p, q>>))
    BY <1>1, <1>3 DEF WalkInv, Off, Sum, At, Aim, Target
  <1>4. d = "V"
    BY <1>2, <1>3 DEF Passed, Cuts
  <1>5. p < search.i \/ q > search.j
    BY <1>1, <1>2
  <1> QED
    BY <1>1, <1>4, <1>5 DEF NearInv, WalkInv, Passed

\* No pair is left out yet.
LEMMA FreshWalk ==
  ASSUME search' = WholePool(pool'), Len(pool') \in Nat, DOMAIN pool' = 1..Len(pool')
  PROVE  WalkInv'
  <1>1. search'.cut = "V" /\ search'.i = 1 /\ search'.j = Len(pool')
    BY DEF WholePool
  <1>2. ASSUME NEW d \in Cuts, NEW p \in DOMAIN pool', NEW q \in DOMAIN pool', Passed(d, p, q)'
        PROVE  FALSE
    BY <1>1, <1>2 DEF Passed
  <1> QED
    BY <1>2 DEF WalkInv

\* Erasing keeps the order.
SortedBy(s) == \A k, l \in DOMAIN s : k < l => Leq(photos[s[k]], photos[s[l]])

\* Without one photo the pool is sorted.
LEMMA ErasedSorted ==
  ASSUME NEW S, NEW s \in Seq(S), SortedBy(s), NEW i \in 1..Len(s)
  PROVE  SortedBy(RemoveAt(s, i))
  <1> DEFINE r == RemoveAt(s, i)
             at(k) == IF k < i THEN k ELSE k + 1
  <1>1. /\ r \in Seq(S) /\ Len(r) = Len(s) - 1
        /\ \A k \in 1..Len(r) : r[k] = IF k < i THEN s[k] ELSE s[k + 1]
    BY WithoutOne
  <1> HIDE DEF r
  <1>2. Len(s) \in Nat /\ DOMAIN s = 1..Len(s) /\ DOMAIN r = 1..Len(r)
    BY <1>1
  <1>3. ASSUME NEW k \in DOMAIN r, NEW l \in DOMAIN r, k < l
        PROVE  Leq(photos[r[k]], photos[r[l]])
    <2>1. /\ at(k) \in DOMAIN s /\ at(l) \in DOMAIN s /\ at(k) < at(l)
          /\ r[k] = s[at(k)] /\ r[l] = s[at(l)]
      BY <1>1, <1>2, <1>3
    <2> HIDE DEF at
    <2> QED
      BY <2>1 DEF SortedBy
  <1> QED
    BY <1>3 DEF SortedBy, r

\* Without two as well.
LEMMA TwoErasedSorted ==
  ASSUME NEW S, NEW s \in Seq(S), SortedBy(s), NEW i \in 1..Len(s), NEW j \in 1..Len(s), i < j
  PROVE  SortedBy(EraseTwo(s, i, j))
  <1> DEFINE a == RemoveAt(s, i)
  <1>1. a \in Seq(S) /\ Len(a) = Len(s) - 1 /\ SortedBy(a)
    BY WithoutOne, ErasedSorted
  <1>2. j - 1 \in 1..Len(a)
    BY <1>1
  <1> HIDE DEF a
  <1>3. SortedBy(RemoveAt(a, j - 1))
    <2> DEFINE m == j - 1
    <2>1. m \in 1..Len(a)
      BY <1>2
    <2> HIDE DEF m
    <2>2. SortedBy(RemoveAt(a, m))
      BY <1>1, <2>1, ErasedSorted, SMTT(30)
    <2> QED
      BY <2>2 DEF m
  <1> QED
    BY <1>3 DEF EraseTwo, a

\* No step changes what was asked for.
LEMMA SameRequest == [Next]_vars => photos' = photos /\ canvas' = canvas
  BY Zenon DEF Next, vars, picWallVars, callVars, GenerateDefaults, SampleOneBig, BeginTree, SampleTree,
         PicWallRuns, PicWallStep, Bisect, CreateLeaf, Walk, TurnWalk, CreatePair, PlacePair,
         CreateDivision, Place, MeasureTree, Measure, AdjustTree, ReturnTree, EndPicWall,
         FilterGrids, Returned

\* What is left alone stays as it was.
LEMMA LeftAlone ==
  ASSUME NearInv, photos' = photos, canvas' = canvas, pool' = pool, todo' = todo,
         stage' # "idle" => stage # "idle"
  PROVE  SortedInv' /\ RequestInv' /\ PositiveInv' /\ (search' = search => WalkInv')
  <1>1. SortedInv' /\ RequestInv' /\ PositiveInv'
    BY DEF NearInv, SortedInv, RequestInv, PositiveInv, At
  <1>2. ASSUME search' = search PROVE WalkInv'
    BY <1>2 DEF NearInv, WalkInv, Placing, Passed, Off, Sum, At, Aim, Target
  <1> QED
    BY <1>1, <1>2

\* The search for one photo keeps the invariant.
LEMMA BisectNear ==
  ASSUME Inv, NearInv, Bisect
  PROVE  NearInv'
  <1>1. /\ photos' = photos /\ canvas' = canvas /\ pool' = pool /\ todo' = todo /\ stage' = stage
        /\ Placing(1)
    BY DEF Bisect, callVars, countVars
  <1>2. WalkInv'
    BY <1>1 DEF WalkInv, Placing
  <1> QED
    BY <1>1, <1>2, LeftAlone DEF NearInv

\* The search for two keeps it.
LEMMA WalksNear ==
  ASSUME Inv, NearInv, Walk \/ TurnWalk
  PROVE  NearInv'
  <1>1. /\ photos' = photos /\ canvas' = canvas /\ pool' = pool /\ todo' = todo /\ stage' = stage
    BY DEF Walk, TurnWalk, callVars, countVars
  <1>2. WalkInv'
    BY WalkNear, TurnWalkNear
  <1> QED
    BY <1>1, <1>2, LeftAlone DEF NearInv

\* A call is replaced by calls with positive targets, and the search begins anew.
LEMMA PlaceNear ==
  ASSUME Inv, NearInv, Inv', todo # <<>>, NEW nodes, NEW calls, NEW left, Place(nodes, calls, left),
         SortedBy(left), \A k \in DOMAIN todo' : todo'[k].target \in Positives
  PROVE  NearInv'
  <1>1. /\ photos' = photos /\ canvas' = canvas /\ pool' = left /\ search' = WholePool(left)
        /\ stage' = stage
    BY DEF Place, callVars, countVars
  <1>2. stage # "idle"
    BY PlacingFacts
  <1>3. SortedInv'
    BY <1>1 DEF SortedInv, SortedBy, At
  <1>4. RequestInv' /\ PositiveInv'
    BY <1>1, <1>2 DEF NearInv, RequestInv, PositiveInv
  <1>5. WalkInv'
    <2>1. Len(pool') \in Nat /\ DOMAIN pool' = 1..Len(pool')
      BY DEF Inv, TypeOK
    <2> QED
      BY <1>1, <2>1, FreshWalk
  <1> QED
    BY <1>3, <1>4, <1>5 DEF NearInv

\* The calls that remain have positive targets.
LEMMA PoppedPositive ==
  ASSUME Inv, NearInv, todo # <<>>, todo' = <<>> \o Tail(todo)
  PROVE  \A k \in DOMAIN todo' : todo'[k].target \in Positives
  <1>1. /\ DOMAIN todo' = 1..Len(todo) - 1
        /\ \A k \in 1..Len(todo) - 1 : todo'[k] = todo[k + 1]
    BY Popped DEF Inv
  <1>2. \A k \in 1..Len(todo) - 1 : k + 1 \in DOMAIN todo
    BY PoolLen DEF Inv
  <1>3. stage # "idle"
    BY PlacingFacts
  <1> QED
    BY <1>1, <1>2, <1>3 DEF NearInv, PositiveInv

\* A call for one photo keeps it.
LEMMA CreateLeafNear ==
  ASSUME Inv, NearInv, Inv', CreateLeaf
  PROVE  NearInv'
  <1>1. /\ todo # <<>> /\ Head(todo).num = 1
        /\ Place([n \in {Head(todo).node} |-> Node("leaf", Target, pool[Finder])],
                 <<>>, RemoveAt(pool, Finder))
    BY DEF CreateLeaf, Placing
  <1>2. pool \in Seq(DOMAIN photos) /\ Finder \in 1..Len(pool)
    <2>1. Placing(1)
      BY <1>1 DEF Placing
    <2>2. Finder \in DOMAIN pool /\ DOMAIN pool = 1..Len(pool)
      BY <1>1, <2>1, SearchesFind, PlacingFacts DEF SearchesFindPhotos
    <2> QED
      BY <2>2 DEF Inv, TypeOK
  <1>3. SortedBy(pool)
    BY DEF NearInv, SortedInv, SortedBy, At
  <1>4. SortedBy(RemoveAt(pool, Finder))
    BY <1>2, <1>3, ErasedSorted
  <1>5. todo' = <<>> \o Tail(todo)
    BY <1>1 DEF Place
  <1> QED
    BY <1>1, <1>4, <1>5, PoppedPositive, PlaceNear

\* When both walks are over, every pair was passed.
LEMMA BestPair ==
  ASSUME Inv, NearInv, CreatePair
  PROVE  LET two == FoundTwo IN
         /\ two.type \in Cuts /\ two.i \in DOMAIN pool /\ two.j \in DOMAIN pool /\ two.i < two.j
         /\ \A p, q \in DOMAIN pool :
              p < q => Leq(Off(two.type, <<two.i, two.j>>), Off(two.type, <<p, q>>))
  <1> DEFINE two == FoundTwo
  <1>1. Placing(2) /\ search.i >= search.j /\ search.cut = "H"
    BY DEF CreatePair
  <1>2. PICK d \in Cuts : two = [type |-> d, i |-> search.best[d][1], j |-> search.best[d][2]]
    BY DEF FoundTwo, Cuts
  <1>3. PICK k \in DOMAIN pool, l \in DOMAIN pool : k < l /\ search.best[d] = <<k, l>>
    BY <1>1, WalkFacts
  <1>4. two.type = d /\ two.i = k /\ two.j = l
    BY <1>2, <1>3
  <1> HIDE DEF two
  <1>5. ASSUME NEW p \in DOMAIN pool, NEW q \in DOMAIN pool, p < q
        PROVE  Leq(Off(d, <<k, l>>), Off(d, <<p, q>>))
    <2>1. p < search.i \/ q > search.j
      BY <1>1, <1>5, WalkFacts
    <2>2. Passed(d, p, q)
      BY <1>1, <2>1 DEF Passed, Cuts
    <2> QED
      BY <1>1, <1>3, <1>5, <2>2 DEF NearInv, WalkInv
  <1> QED
    BY <1>3, <1>4, <1>5 DEF two

\* A call for two keeps it.
LEMMA CreatePairNear ==
  ASSUME Inv, NearInv, Inv', CreatePair
  PROVE  NearInv'
  <1> DEFINE c == Head(todo)
             two == FoundTwo
             i == two.i
             j == two.j
             child(k) == Node("leaf", ChildTarget(c.target, two.type), pool[k])
             nodes == [n \in {c.node, 2 * c.node, 2 * c.node + 1} |->
                         CASE n = c.node         -> Node(two.type, c.target, 0)
                           [] n = 2 * c.node     -> child(two.i)
                           [] n = 2 * c.node + 1 -> child(two.j)]
  <1>1. todo # <<>> /\ Place(nodes, <<>>, EraseTwo(pool, i, j))
    BY DEF CreatePair, PlacePair, Placing
  <1> HIDE DEF nodes
  <1>2. i \in DOMAIN pool /\ j \in DOMAIN pool /\ i < j
    BY BestPair
  <1>3. pool \in Seq(DOMAIN photos) /\ i \in 1..Len(pool) /\ j \in 1..Len(pool)
    BY <1>1, <1>2, PlacingFacts DEF Inv, TypeOK
  <1> HIDE DEF i, j
  <1>4. SortedBy(pool)
    BY DEF NearInv, SortedInv, SortedBy, At
  <1>5. SortedBy(EraseTwo(pool, i, j))
    BY <1>2, <1>3, <1>4, TwoErasedSorted
  <1>6. todo' = <<>> \o Tail(todo)
    BY <1>1 DEF Place
  <1> QED
    BY <1>1, <1>5, <1>6, PoppedPositive, PlaceNear

\* A call for more keeps it: both halves of a cut aim at something positive.
LEMMA CreateDivisionNear ==
  ASSUME Inv, NearInv, Inv', CreateDivision
  PROVE  NearInv'
  <1> DEFINE c == Head(todo)
             few == c.num \div 2
  <1>1. PICK type \in {"V", "H"},
             target \in {ChildTarget(c.target, "V"), ChildTarget(c.target, "H")} :
          Place([n \in {c.node} |-> Node(type, c.target, 0)],
                <<[node |-> 2 * c.node, target |-> target, num |-> few],
                  [node |-> 2 * c.node + 1, target |-> target, num |-> c.num - few]>>,
                pool)
    BY DEF CreateDivision
  <1> DEFINE nodes == [n \in {c.node} |-> Node(type, c.target, 0)]
             a == [node |-> 2 * c.node, target |-> target, num |-> few]
             b == [node |-> 2 * c.node + 1, target |-> target, num |-> c.num - few]
             S == {x \in Range(todo) \cup {a, b} : x.target \in Positives}
  <1>2. todo # <<>>
    BY DEF CreateDivision
  <1>3. target \in Positives
    <2>1. c.target \in Positives
      BY <1>2, PlacingFacts DEF Target
    <2> QED
      BY <2>1, PositiveRatios DEF ChildTarget
  <1>4. a.target = target /\ b.target = target /\ Place(nodes, <<a, b>>, pool)
    BY <1>1
  <1> HIDE DEF a, b, nodes
  <1>5. todo \in Seq(S)
    <2>1. \A k \in DOMAIN todo : todo[k] \in S
      <3>1. stage # "idle"
        BY <1>2, PlacingFacts
      <3> QED
        BY <3>1 DEF NearInv, PositiveInv, Range
    <2> HIDE DEF S
    <2>2. todo \in Seq(Range(todo))
      BY DEF Inv, TypeOK
    <2> QED
      BY <2>1, <2>2
  <1>6. <<a, b>> \in Seq(S)
    <2>1. a \in S /\ b \in S
      BY <1>3, <1>4
    <2> HIDE DEF S
    <2> QED
      BY <2>1
  <1>7. todo' = <<a, b>> \o Tail(todo)
    BY <1>4 DEF Place
  <1>8. todo' \in Seq(S)
    <2> HIDE DEF S
    <2> QED
      BY <1>2, <1>5, <1>6, <1>7, Pushed
  <1>9. \A k \in DOMAIN todo' : todo'[k] \in S
    <2> HIDE DEF S
    <2> QED
      BY <1>8
  <1>10. \A k \in DOMAIN todo' : todo'[k].target \in Positives
    BY <1>9
  <1>11. SortedBy(pool)
    BY DEF NearInv, SortedInv, SortedBy, At
  <1> HIDE DEF S, c
  <1> QED
    BY <1>2, <1>4, <1>10, <1>11, PlaceNear

\* A tree begins with a sorted pool and one call, for the canvas.
LEMMA CreateTreeNear ==
  ASSUME Inv, NearInv, Inv', photos' = photos, canvas' = canvas, CreateTree(mPhotos'),
         mPhotos' \in SortedOrders, photos # <<>>, \A p \in DOMAIN photos : photos[p] \in Positives
  PROVE  NearInv'
  <1>1. /\ pool' = mPhotos' /\ search' = WholePool(pool')
        /\ todo' = <<[node |-> 1, target |-> canvas, num |-> Len(photos)]>>
    BY DEF CreateTree
  <1>2. pool' \in Seq(DOMAIN photos) /\ Len(pool') \in Nat /\ DOMAIN pool' = 1..Len(pool')
    BY DEF Inv, TypeOK
  <1>3. SortedInv'
    <2> SUFFICES ASSUME NEW k \in DOMAIN pool', NEW l \in DOMAIN pool', k < l
                 PROVE  Leq(photos[pool'[k]], photos[pool'[l]])
      BY DEF SortedInv, At
    <2>1. photos[pool'[k]] \in Rationals /\ photos[pool'[l]] \in Rationals
      BY <1>2, PositiveRatios
    <2>2. DOMAIN pool' = DOMAIN photos
      <3>1. Len(pool') = Len(photos)
        BY <1>1, Sorted DEF Inv
      <3> QED
        BY <1>2, <3>1 DEF Inv, TypeOK
    <2>3. Before(pool'[k], pool'[l])
      BY <1>1, <2>2 DEF SortedOrders
    <2> QED
      BY <2>1, <2>3, LeqTotal DEF Before
  <1>4. RequestInv' /\ PositiveInv'
    <2>1. DOMAIN todo' = {1} /\ todo'[1].target = canvas
      BY <1>1
    <2> QED
      BY <2>1 DEF NearInv, RequestInv, PositiveInv
  <1>5. WalkInv'
    BY <1>1, <1>2, FreshWalk
  <1> QED
    BY <1>3, <1>4, <1>5 DEF NearInv

\* Nothing is searched yet.
LEMMA NearInit == Init => NearInv
  <1> SUFFICES ASSUME Init PROVE NearInv
    OBVIOUS
  <1>1. pool = <<>> /\ todo = <<>> /\ stage = "idle"
    BY DEF Init, PicWallInit
  <1>2. RequestInv
    BY RequestsAssumption DEF Init, RequestInv
  <1> QED
    BY <1>1, <1>2 DEF NearInv, SortedInv, PositiveInv, WalkInv, Placing

\* Every step of the sampler keeps the invariant.
LEMMA NearStep == Inv /\ Inv' /\ NearInv /\ [Next]_vars => NearInv'
  <1> SUFFICES ASSUME Inv, Inv', NearInv, [Next]_vars PROVE NearInv'
    OBVIOUS
  <1>0. photos' = photos /\ canvas' = canvas
    BY SameRequest
  <1>1. CASE BeginTree
    <2>1. /\ photos # <<>> /\ mPhotos' \in SortedOrders /\ CreateTree(mPhotos')
          /\ \A p \in DOMAIN photos : photos[p] # Zero
      BY <1>1 DEF BeginTree, Running, SampleTree, CheckPhotos
    <2> QED
      BY <1>0, <2>1, CreateTreeNear DEF NearInv, RequestInv
  <1>2. CASE MeasureTree \/ ReturnTree
    <2>1. /\ pool' = pool /\ search' = search /\ todo' = todo
          /\ stage \in {"creating", "recreating", "optimizing"}
      BY <1>2 DEF MeasureTree, Measure, ReturnTree
    <2> QED
      BY <1>0, <2>1, LeftAlone DEF NearInv
  <1>3. CASE AdjustTree
    <2>1. CASE CreateTree(mPhotos)
      <3>1. mPhotos' = mPhotos /\ stage = "optimizing"
        BY <1>3 DEF AdjustTree, callVars
      <3>2. CreateTree(mPhotos') /\ photos # <<>> /\ mPhotos' \in SortedOrders
        BY <2>1, <3>1 DEF Inv, TypeOK
      <3> QED
        BY <1>0, <3>1, <3>2, CreateTreeNear DEF NearInv, PositiveInv
    <2>2. CASE UNCHANGED <<pool, search, todo, stage>>
      BY <1>0, <2>2, LeftAlone DEF NearInv
    <2> QED
      BY <1>3, <2>1, <2>2 DEF AdjustTree
  <1>4. CASE Bisect \/ CreateLeaf \/ Walk \/ TurnWalk \/ CreatePair \/ CreateDivision
    BY <1>4, BisectNear, CreateLeafNear, WalksNear, CreatePairNear, CreateDivisionNear
  <1>5. CASE GenerateDefaults \/ SampleOneBig \/ EndPicWall \/ FilterGrids \/ Returned
                \/ UNCHANGED vars
    <2>1. UNCHANGED picWallVars
      BY <1>5 DEF GenerateDefaults, SampleOneBig, EndPicWall, FilterGrids, Returned, vars
    <2>2. pool' = pool /\ search' = search /\ todo' = todo /\ stage' = stage
      BY <2>1, SMTT(30) DEF picWallVars, countVars
    <2> QED
      BY <1>0, <2>2, LeftAlone, SMTT(30) DEF NearInv
  <1> QED
    BY <1>1, <1>2, <1>3, <1>4, <1>5 DEF Next, PicWallRuns, PicWallStep

\* The node of a call for two photos is made by CreatePair only.
LEMMA MadeByPair ==
  ASSUME Inv, Placing(2), [Next]_vars, Head(todo).node \in DOMAIN tree'
  PROVE  CreatePair
  <1>1. /\ todo # <<>> /\ Head(todo).num = 2 /\ stage \in {"creating", "recreating"}
        /\ Head(todo).node \notin DOMAIN tree
    BY FreshNodes DEF Placing, Inv, ShapeInv
  <1>2. tree' # tree
    BY <1>1
  <1>3. ~(CreateLeaf \/ CreateDivision)
    BY <1>1 DEF CreateLeaf, CreateDivision, Placing
  <1> QED
    BY <1>1, <1>2, <1>3
     DEF Next, PicWallRuns, PicWallStep, vars, picWallVars, GenerateDefaults, SampleOneBig,
         EndPicWall, FilterGrids, Returned, BeginTree, Bisect, Walk, TurnWalk, MeasureTree,
         Measure, AdjustTree, ReturnTree

\* What CreatePair puts in the tree.
LEMMA PairMade ==
  ASSUME Inv, CreatePair
  PROVE  LET c == Head(todo)
             two == FoundTwo
         IN /\ tree'[c.node].type = two.type
            /\ tree'[2 * c.node].photo = pool[two.i]
            /\ tree'[2 * c.node + 1].photo = pool[two.j]
  <1> DEFINE c == Head(todo)
             two == FoundTwo
             child(k) == Node("leaf", ChildTarget(c.target, two.type), pool[k])
             nodes == [n \in {c.node, 2 * c.node, 2 * c.node + 1} |->
                         CASE n = c.node         -> Node(two.type, c.target, 0)
                           [] n = 2 * c.node     -> child(two.i)
                           [] n = 2 * c.node + 1 -> child(two.j)]
             left == EraseTwo(pool, two.i, two.j)
  <1>1. todo # <<>> /\ Place(nodes, <<>>, left)
    BY DEF CreatePair, PlacePair, Placing
  <1>2. /\ c.node \in Nat \ {0}
        /\ c.node \notin DOMAIN tree /\ 2 * c.node \notin DOMAIN tree
        /\ 2 * c.node + 1 \notin DOMAIN tree
    BY <1>1, FreshNodes DEF Inv
  <1> DEFINE m == c.node
  <1>3. tree' = [n \in DOMAIN tree \cup DOMAIN nodes |->
                   IF n \in DOMAIN tree THEN tree[n] ELSE nodes[n]]
    BY <1>1 DEF Place
  <1>4. m # 2 * m /\ m # 2 * m + 1 /\ 2 * m # 2 * m + 1
    <2>1. m \in Nat \ {0}
      BY <1>2
    <2> HIDE DEF m
    <2> QED
      BY <2>1
  <1> HIDE DEF child, two
  <1>5. /\ DOMAIN nodes = {m, 2 * m, 2 * m + 1}
        /\ nodes[m] = Node(two.type, c.target, 0)
        /\ nodes[2 * m] = child(two.i) /\ nodes[2 * m + 1] = child(two.j)
    BY <1>4
  <1> HIDE DEF nodes, c
  <1>6. /\ tree'[m] = nodes[m] /\ tree'[2 * m] = nodes[2 * m]
        /\ tree'[2 * m + 1] = nodes[2 * m + 1]
    BY <1>2, <1>3, <1>5
  <1>7. \A t, x, p : Node(t, x, p).type = t /\ Node(t, x, p).photo = p
    BY DEF Node
  <1> QED
    BY <1>5, <1>6, <1>7 DEF child, c, two

\* The two photos just placed are the nearest pair of the pool.
LEMMA MadeIsNearest == Inv /\ NearInv /\ [Next]_vars => NearestIsPlaced
  <1> SUFFICES ASSUME Inv, NearInv, [Next]_vars, Placing(2), Head(todo).node \in DOMAIN tree'
               PROVE  NearestIsPlaced
    BY DEF NearestIsPlaced
  <1> DEFINE c == Head(todo)
             two == FoundTwo
  <1>1. CreatePair
    BY MadeByPair
  <1>2. /\ tree'[c.node].type = two.type
        /\ tree'[2 * c.node].photo = pool[two.i]
        /\ tree'[2 * c.node + 1].photo = pool[two.j]
    BY <1>1, PairMade
  <1>3. /\ two.type \in Cuts
        /\ \A p, q \in DOMAIN pool :
              p < q => Leq(Off(two.type, <<two.i, two.j>>), Off(two.type, <<p, q>>))
    BY <1>1, BestPair
  <1> HIDE DEF two
  <1> QED
    BY <1>2, <1>3 DEF NearestIsPlaced, Off, Sum, At, Aim, Target, Cuts

\* Whatever the photos, the canvas and the random cuts, the two photos findTwoImagesFor
\* returns are the nearest pair of the pool for the cut it decides on: walking from both
\* ends of the sorted list steps over no pair that is nearer (PicWallSampler.cpp:485-628).
THEOREM PairsAreNearest == Spec => PairIsTheNearest
  <1>1. Init => Inv /\ NearInv
    BY InitInv, NearInit
  <1>2. Inv /\ NearInv /\ [Next]_vars => (Inv /\ NearInv)'
    BY StepInv, NearStep
  <1>3. Inv /\ NearInv /\ [Next]_vars => [NearestIsPlaced]_picWallVars
    BY MadeIsNearest
  <1> QED
    BY <1>1, <1>2, <1>3, PTL DEF Spec, PairIsTheNearest

-----------------------------------------------------------------------------
(*****************************************************************************)
(* The loops that are folds                                                  *)
(*****************************************************************************)

\* Climbing from zero, one step at a time.
LEMMA Climb ==
  ASSUME NEW n \in Nat, NEW P, 0 \in P, \A i \in 0..(n - 1) : i \in P => i + 1 \in P
  PROVE  n \in P
  <1> SUFFICES ASSUME n \notin P PROVE FALSE
    OBVIOUS
  <1> DEFINE T == {i \in Nat : i <= n /\ i \notin P}
  <1>1. PICK m \in T : \A k \in T : m <= k
    <2>1. T \in SUBSET Nat /\ T # {}
      OBVIOUS
    <2> HIDE DEF T
    <2> QED
      BY <2>1, Least
  <1>2. m # 0 /\ m - 1 \in 0..(n - 1)
    OBVIOUS
  <1>3. m - 1 \notin P
    BY <1>2
  <1> QED
    BY <1>1, <1>2, <1>3

\* The largest of the first numbers.
LEMMA LastIndex ==
  ASSUME NEW n \in Nat
  PROVE  /\ Max(1..(n + 1)) = n + 1 /\ (1..(n + 1)) \ {n + 1} = 1..n
         /\ 1..(n + 1) # {} /\ 1..0 = {}
  <1>1. \A x \in 1..(n + 1) : (\A y \in 1..(n + 1) : x >= y) <=> x = n + 1
    OBVIOUS
  <1>2. Max(1..(n + 1)) = n + 1
    BY <1>1 DEF Max
  <1> QED
    BY <1>2

LEMMA MaxIsIn ==
  ASSUME NEW n \in Nat, NEW T \in SUBSET (0..n), T # {}
  PROVE  /\ Max(T) \in T /\ \A k \in T : k <= Max(T)
  <1> DEFINE U == {n - k : k \in T}
  <1>1. U \in SUBSET Nat /\ U # {}
    <2>1. \A k \in T : n - k \in Nat
      OBVIOUS
    <2> QED
      BY <2>1
  <1>2. PICK m \in U : \A k \in U : m <= k
    <2> HIDE DEF U
    <2> QED
      BY <1>1, Least
  <1>3. PICK x \in T : m = n - x
    OBVIOUS
  <1>4. ASSUME NEW y \in T PROVE x >= y
    <2>1. n - y \in U
      OBVIOUS
    <2>2. n - x <= n - y
      BY <1>2, <1>3, <2>1
    <2> QED
      BY <2>2
  <1>5. Max(T) \in T /\ \A y \in T : Max(T) >= y
    BY <1>4 DEF Max
  <1> QED
    BY <1>5

\* vector::insert: what stood behind moves down by one.
LEMMA WithOneMore ==
  ASSUME NEW S, NEW s \in Seq(S), NEW e \in S, NEW i \in 1..(Len(s) + 1)
  PROVE  LET r == InsertAt(s, i, e) IN
         /\ r \in Seq(S) /\ Len(r) = Len(s) + 1
         /\ \A k \in 1..Len(r) : r[k] = IF k < i THEN s[k] ELSE IF k = i THEN e ELSE s[k - 1]
  <1> DEFINE a == SubSeq(s, 1, i - 1)
             b == SubSeq(s, i, Len(s))
             c == a \o <<e>>
             r == c \o b
  <1>1. Len(s) \in Nat /\ \A k \in 1..Len(s) : s[k] \in S
    OBVIOUS
  <1>2. /\ a \in Seq(S) /\ Len(a) = i - 1
        /\ \A k \in 1..(i - 1) : a[k] = s[k]
    <2>1. \A k \in 1..(i - 1) : s[k] \in S
      BY <1>1
    <2> QED
      BY <1>1, <2>1, SubSeqProperties
  <1>3. /\ b \in Seq(S) /\ Len(b) = Len(s) - i + 1
        /\ \A k \in 1..(Len(s) - i + 1) : b[k] = s[i + k - 1]
    <2>1. \A k \in i..Len(s) : s[k] \in S
      BY <1>1
    <2> QED
      BY <1>1, <2>1, SubSeqProperties
  <1> HIDE DEF a, b
  <1>4. /\ c \in Seq(S) /\ Len(c) = i
        /\ \A k \in 1..(i - 1) : c[k] = s[k]
        /\ c[i] = e
    <2>1. <<e>> \in Seq(S) /\ Len(<<e>>) = 1 /\ <<e>>[1] = e
      OBVIOUS
    <2>2. /\ c \in Seq(S) /\ Len(c) = Len(a) + 1
          /\ \A k \in 1..Len(a) + 1 : c[k] = IF k <= Len(a) THEN a[k] ELSE <<e>>[k - Len(a)]
      BY <1>2, <2>1, ConcatProperties
    <2> HIDE DEF c
    <2>3. c[i] = <<e>>[1]
      <3>1. i \in 1..Len(a) + 1 /\ ~(i <= Len(a)) /\ i - Len(a) = 1
        BY <1>2
      <3> QED
        BY <2>2, <3>1
    <2>4. \A k \in 1..(i - 1) : k \in 1..Len(a) + 1 /\ k <= Len(a)
      BY <1>2
    <2> QED
      BY <1>2, <2>1, <2>2, <2>3, <2>4
  <1> HIDE DEF c
  <1>5. /\ r \in Seq(S) /\ Len(r) = Len(c) + Len(b)
        /\ \A k \in 1..Len(c) + Len(b) : r[k] = IF k <= Len(c) THEN c[k] ELSE b[k - Len(c)]
    BY <1>3, <1>4, ConcatProperties
  <1>6. InsertAt(s, i, e) = r
    BY Zenon DEF InsertAt, a, b, c
  <1> HIDE DEF r
  <1>7. Len(r) = Len(s) + 1
    BY <1>1, <1>3, <1>4, <1>5
  <1>8. ASSUME NEW k \in 1..Len(r)
        PROVE  r[k] = IF k < i THEN s[k] ELSE IF k = i THEN e ELSE s[k - 1]
    <2>1. r[k] = IF k <= i THEN c[k] ELSE b[k - i]
      BY <1>1, <1>3, <1>4, <1>5, <1>7
    <2>2. CASE k <= i
      BY <1>4, <2>1, <2>2
    <2>3. CASE k > i
      <3> DEFINE q == k - i
      <3>1. q \in 1..(Len(s) - i + 1) /\ i + q - 1 = k - 1 /\ ~(k <= i) /\ ~(k < i) /\ k # i
        BY <1>1, <1>7, <2>3
      <3>2. r[k] = b[q]
        BY <2>1, <3>1
      <3> HIDE DEF q
      <3>3. b[q] = s[i + q - 1]
        BY <1>3, <3>1
      <3> QED
        BY <3>1, <3>2, <3>3
    <2> QED
      BY <1>1, <1>7, <2>2, <2>3
  <1> QED
    BY <1>5, <1>6, <1>7, <1>8

\* A turn of the sum of the areas in Tiles.
PlusArea(area, s) == Plus(area, Times(s.w, s.h))

\* The turns of the loops that are folds: of StdSort, Filtered, Merged and Tiles.
Turn(loop, by, st, e) ==
  CASE loop = "sort"  -> Inserted(by, st, e)
    [] loop = "keep"  -> KeepNew(st, e)
    [] loop = "merge" -> MergeLast(st)
    [] loop = "area"  -> PlusArea(st, e)

\* The equation of the fold over the subsets of D.
Fold(h, loop, by, base, s, D) ==
  h = [T \in SUBSET D |-> IF T = {} THEN base
                          ELSE Turn(loop, by, h[T \ {Max(T)}], s[Max(T)])]

\* It has a solution.
LEMMA FoldExists ==
  ASSUME NEW loop, NEW by, NEW base, NEW s, NEW n \in Nat
  PROVE  \E h : Fold(h, loop, by, base, s, 1..n)
  <1> DEFINE P == {i \in Nat : \E h : Fold(h, loop, by, base, s, 1..i)}
  <1>1. 0 \in P
    <2> DEFINE h == [T \in SUBSET (1..0) |-> base]
    <2>1. h = [T \in SUBSET (1..0) |-> IF T = {} THEN base
                                      ELSE Turn(loop, by, h[T \ {Max(T)}], s[Max(T)])]
      <3>1. \A T \in SUBSET (1..0) : T = {}
        OBVIOUS
      <3> QED
        BY <3>1, Zenon
    <2> HIDE DEF h
    <2> QED
      BY <2>1 DEF Fold
  <1>2. ASSUME NEW i \in 0..(n - 1), i \in P PROVE i + 1 \in P
    <2>1. PICK h : Fold(h, loop, by, base, s, 1..i)
      BY <1>2
    <2> DEFINE body(g, T) == IF T = {} THEN base ELSE Turn(loop, by, g[T \ {Max(T)}], s[Max(T)])
               g == [T \in SUBSET (1..(i + 1)) |->
                       IF i + 1 \in T THEN Turn(loop, by, h[T \ {i + 1}], s[i + 1]) ELSE h[T]]
    <2>2. \A T \in SUBSET (1..i) : h[T] = body(h, T) /\ g[T] = h[T]
      <3>1. \A T \in SUBSET (1..i) : T \in SUBSET (1..(i + 1)) /\ i + 1 \notin T
        OBVIOUS
      <3>2. \A T \in SUBSET (1..i) : g[T] = h[T]
        BY <3>1
      <3>3. h = [T \in SUBSET (1..i) |-> body(h, T)]
        BY <2>1 DEF Fold
      <3> HIDE DEF body, g
      <3> QED
        BY <3>2, <3>3
    <2>3. ASSUME NEW T \in SUBSET (1..(i + 1)) PROVE g[T] = body(g, T)
      <3>1. CASE i + 1 \in T
        <4>1. Max(T) = i + 1
          <5>1. Max(T) \in T /\ \A k \in T : k <= Max(T)
            <6>1. i + 1 \in Nat /\ T # {}
              BY <3>1
            <6> QED
              BY <6>1, MaxIsIn
          <5> HIDE DEF P
          <5>2. Max(T) \in 1..(i + 1)
            BY <5>1
          <5>3. i + 1 <= Max(T)
            BY <3>1, <5>1
          <5> QED
            BY <5>2, <5>3
        <4>2. T \ {i + 1} \in SUBSET (1..i)
          OBVIOUS
        <4>3. g[T] = Turn(loop, by, h[T \ {i + 1}], s[i + 1]) /\ g[T \ {i + 1}] = h[T \ {i + 1}]
          <5>1. g[T \ {i + 1}] = h[T \ {i + 1}]
            BY <2>2, <4>2
          <5> QED
            BY <3>1, <5>1
        <4> HIDE DEF g
        <4> QED
          BY <3>1, <4>1, <4>3
      <3>2. CASE i + 1 \notin T
        <4>1. T \in SUBSET (1..i)
          BY <3>2
        <4>2. T # {} => T \ {Max(T)} \in SUBSET (1..i)
          BY <4>1
        <4> HIDE DEF g
        <4>3. g[T] = body(h, T)
          BY <2>2, <4>1
        <4>4. T # {} => g[T \ {Max(T)}] = h[T \ {Max(T)}]
          BY <2>2, <4>2
        <4> QED
          BY <4>3, <4>4
      <3> QED
        BY <3>1, <3>2
    <2>4. g = [T \in SUBSET (1..(i + 1)) |-> body(g, T)]
      <3>1. g = [T \in SUBSET (1..(i + 1)) |-> g[T]]
        BY Zenon
      <3> HIDE DEF g, body
      <3> QED
        BY <2>3, <3>1, Zenon
    <2> HIDE DEF g
    <2>5. Fold(g, loop, by, base, s, 1..(i + 1))
      BY <2>4 DEF Fold
    <2> QED
      BY <2>5
  <1> HIDE DEF P
  <1>3. n \in P
    BY <1>1, <1>2, Climb
  <1> QED
    BY <1>3 DEF P

\* r holds what the loop has made of the first elements.
Run(r, loop, by, base, s, n) ==
  /\ r[0] = base
  /\ \A i \in 0..(n - 1) : r[i + 1] = Turn(loop, by, r[i], s[i + 1])

\* It takes the elements one after the other.
LEMMA FoldSteps ==
  ASSUME NEW loop, NEW by, NEW base, NEW s, NEW n \in Nat, NEW h,
         Fold(h, loop, by, base, s, 1..n)
  PROVE  \E r : Run(r, loop, by, base, s, n) /\ r[n] = h[1..n]
  <1> DEFINE r == [i \in 0..n |-> h[1..i]]
  <1>4. \A T \in SUBSET (1..n) : h[T] = IF T = {} THEN base
                                        ELSE Turn(loop, by, h[T \ {Max(T)}], s[Max(T)])
    BY Zenon DEF Fold
  <1>5. r[0] = base
    <2>1. {} \in SUBSET (1..n) /\ 1..0 = {} /\ 0 \in 0..n
      OBVIOUS
    <2> QED
      BY <1>4, <2>1, Zenon
  <1>6. ASSUME NEW i \in 0..(n - 1) PROVE r[i + 1] = Turn(loop, by, r[i], s[i + 1])
    <2>1. /\ 1..(i + 1) \in SUBSET (1..n) /\ i \in Nat
          /\ i \in 0..n /\ i + 1 \in 0..n
      OBVIOUS
    <2>2. /\ Max(1..(i + 1)) = i + 1 /\ (1..(i + 1)) \ {i + 1} = 1..i /\ 1..(i + 1) # {}
      BY <2>1, LastIndex
    <2>3. h[1..(i + 1)] = Turn(loop, by, h[1..i], s[i + 1])
      BY <1>4, <2>1, <2>2, Zenon
    <2> QED
      BY <2>1, <2>3, Zenon
  <1>7. r[n] = h[1..n]
    OBVIOUS
  <1> HIDE DEF r
  <1> QED
    BY <1>5, <1>6, <1>7 DEF Run

\* StdSort inserts the elements one after the other.
LEMMA SortSteps ==
  ASSUME NEW by, NEW S, NEW s \in Seq(S)
  PROVE  \E r : /\ r[0] = <<>>
                /\ \A i \in 0..(Len(s) - 1) : r[i + 1] = Inserted(by, r[i], s[i + 1])
                /\ StdSort(s, by) = r[Len(s)]
  <1> DEFINE Body(h, T) == IF T = {} THEN <<>> ELSE Inserted(by, h[T \ {Max(T)}], s[Max(T)])
             h == CHOOSE h : h = [T \in SUBSET DOMAIN s |-> Body(h, T)]
  <1>1. Len(s) \in Nat /\ DOMAIN s = 1..Len(s)
    OBVIOUS
  <1>2. StdSort(s, by) = h[DOMAIN s]
    BY DEF StdSort, FoldLeft, MapThenFoldSet
  <1>3. h = [T \in SUBSET DOMAIN s |-> Body(h, T)]
    <2>1. PICK g : Fold(g, "sort", by, <<>>, s, 1..Len(s))
      BY <1>1, FoldExists
    <2>2. g = [T \in SUBSET DOMAIN s |-> Body(g, T)]
      BY <1>1, <2>1, Zenon DEF Fold, Turn
    <2> QED
      BY <2>2, Zenon
  <1> HIDE DEF h
  <1>4. Fold(h, "sort", by, <<>>, s, 1..Len(s))
    BY <1>1, <1>3, Zenon DEF Fold, Turn
  <1>5. PICK r : Run(r, "sort", by, <<>>, s, Len(s)) /\ r[Len(s)] = h[1..Len(s)]
    BY <1>1, <1>4, FoldSteps
  <1> QED
    BY <1>1, <1>2, <1>5, Zenon DEF Run, Turn

\* The loop of Filtered over the sorted grids s.
AllKept(s) == FoldLeft(KeepNew, <<>>, s)

\* Filtered keeps or drops one grid after the other.
LEMMA KeepSteps ==
  ASSUME NEW S, NEW s \in Seq(S)
  PROVE  \E r : /\ r[0] = <<>>
                /\ \A i \in 0..(Len(s) - 1) : r[i + 1] = KeepNew(r[i], s[i + 1])
                /\ AllKept(s) = r[Len(s)]
  <1> DEFINE Body(h, T) == IF T = {} THEN <<>> ELSE KeepNew(h[T \ {Max(T)}], s[Max(T)])
             h == CHOOSE h : h = [T \in SUBSET DOMAIN s |-> Body(h, T)]
  <1>1. Len(s) \in Nat /\ DOMAIN s = 1..Len(s)
    OBVIOUS
  <1>2. AllKept(s) = h[DOMAIN s]
    BY DEF AllKept, FoldLeft, MapThenFoldSet
  <1>3. h = [T \in SUBSET DOMAIN s |-> Body(h, T)]
    <2>1. PICK g : Fold(g, "keep", <<>>, <<>>, s, 1..Len(s))
      BY <1>1, FoldExists
    <2>2. g = [T \in SUBSET DOMAIN s |-> Body(g, T)]
      BY <1>1, <2>1, Zenon DEF Fold, Turn
    <2> QED
      BY <2>2, Zenon
  <1> HIDE DEF h
  <1>4. Fold(h, "keep", <<>>, <<>>, s, 1..Len(s))
    BY <1>1, <1>3, Zenon DEF Fold, Turn
  <1>5. PICK r : Run(r, "keep", <<>>, <<>>, s, Len(s)) /\ r[Len(s)] = h[1..Len(s)]
    BY <1>1, <1>4, FoldSteps
  <1>6. \A i \in 0..(Len(s) - 1) : r[i + 1] = KeepNew(r[i], s[i + 1])
    BY <1>5, Zenon DEF Run, Turn
  <1>7. AllKept(s) = r[Len(s)]
    BY <1>1, <1>2, <1>5
  <1> QED
    BY <1>5, <1>6, <1>7, Zenon DEF Run

\* Merged joins one slot after the other.
LEMMA MergeSteps ==
  ASSUME NEW slots, NEW t \in Nat
  PROVE  \E r : /\ r[0] = [slots |-> slots, merged |-> <<>>]
                /\ \A i \in 0..(t - 1) : r[i + 1] = MergeLast(r[i])
                /\ Merged(slots, t) = r[t].slots \o r[t].merged
  <1> DEFINE s == [i \in 1..t |-> i]
             base == [slots |-> slots, merged |-> <<>>]
             Body(h, T) == IF T = {} THEN base ELSE MergeLast(h[T \ {Max(T)}])
             h == CHOOSE h : h = [T \in SUBSET DOMAIN s |-> Body(h, T)]
  <1>1. DOMAIN s = 1..t
    OBVIOUS
  <1>2. Merged(slots, t) = h[DOMAIN s].slots \o h[DOMAIN s].merged
    BY DEF Merged, FoldLeft, MapThenFoldSet
  <1>3. h = [T \in SUBSET DOMAIN s |-> Body(h, T)]
    <2>1. PICK g : Fold(g, "merge", <<>>, base, s, 1..t)
      BY <1>1, FoldExists
    <2> HIDE DEF s, base
    <2>2. g = [T \in SUBSET DOMAIN s |-> Body(g, T)]
      BY <1>1, <2>1, Zenon DEF Fold, Turn
    <2> QED
      BY <2>2, Zenon
  <1> HIDE DEF h, s
  <1>4. Fold(h, "merge", <<>>, base, s, 1..t)
    <2> HIDE DEF base
    <2> QED
      BY <1>1, <1>3, Zenon DEF Fold, Turn
  <1>5. PICK r : Run(r, "merge", <<>>, base, s, t) /\ r[t] = h[1..t]
    <2> HIDE DEF base
    <2> QED
      BY <1>1, <1>4, FoldSteps
  <1> QED
    BY <1>1, <1>2, <1>5, Zenon DEF Run, Turn

\* No photo is in two slots of a grid.
NoPhotoTwice(g) ==
  \A j, k \in DOMAIN g : j # k => g[j].photo = 0 \/ g[j].photo # g[k].photo

\* Wherever the comparison sends it, a slot is put somewhere into the list.
LEMMA InsertedSomewhere ==
  ASSUME NEW by, NEW S, NEW s \in Seq(S), NEW e
  PROVE  \E i \in 1..(Len(s) + 1) : Inserted(by, s, e) = InsertAt(s, i, e)
  <1> DEFINE Stays == s = <<>> \/ ComesBefore(by, e, s[1])
             T == {i \in DOMAIN s : ~ComesBefore(by, e, s[i])}
  <1>1. Len(s) \in Nat /\ DOMAIN s = 1..Len(s)
    OBVIOUS
  <1>2. CASE Stays
    <2>1. Inserted(by, s, e) = InsertAt(s, 0 + 1, e) /\ 0 + 1 = 1
      <3>1. Inserted(by, s, e) = InsertAt(s, 0 + 1, e)
        BY <1>2, Zenon DEF Inserted
      <3> QED
        BY <3>1
    <2> QED
      BY <1>1, <2>1
  <1>3. CASE ~Stays
    <2>1. Inserted(by, s, e) = InsertAt(s, Max(T) + 1, e)
      BY <1>3, Zenon DEF Inserted
    <2>2. 1 \in DOMAIN s
      <3>1. s # <<>>
        BY <1>3
      <3>2. Len(s) # 0
        BY <3>1, EmptySeq
      <3> QED
        BY <1>1, <3>2
    <2>3. T \in SUBSET (1..Len(s)) /\ T # {}
      BY <1>1, <1>3, <2>2, Zenon
    <2> HIDE DEF T
    <2>4. Max(T) + 1 \in 1..(Len(s) + 1)
      <3>1. Max(T) \in T
        <4>1. T \in SUBSET (0..Len(s))
          BY <2>3
        <4> QED
          BY <1>1, <2>3, <4>1, MaxIsIn
      <3>2. Max(T) \in 1..Len(s)
        BY <2>3, <3>1
      <3> QED
        BY <1>1, <3>2
    <2> QED
      BY <2>1, <2>4
  <1> QED
    BY <1>2, <1>3

\* std::sort, whatever its comparison, returns the slots it was given.
LEMMA SortKeeps ==
  ASSUME NEW by, NEW S, NEW s \in Seq(S), NoPhotoTwice(s)
  PROVE  LET r == StdSort(s, by) IN r \in Seq(S) /\ Len(r) = Len(s) /\ NoPhotoTwice(r)
  <1>1. PICK r : /\ r[0] = <<>>
                 /\ \A i \in 0..(Len(s) - 1) : r[i + 1] = Inserted(by, r[i], s[i + 1])
                 /\ StdSort(s, by) = r[Len(s)]
    BY SortSteps
  <1>2. Len(s) \in Nat /\ DOMAIN s = 1..Len(s) /\ \A k \in 1..Len(s) : s[k] \in S
    OBVIOUS
  <1> DEFINE Done(i) == /\ r[i] \in Seq(S) /\ Len(r[i]) = i /\ NoPhotoTwice(r[i])
                        /\ \A k \in 1..i : \E j \in 1..i : r[i][k] = s[j]
             P == {i \in Nat : Done(i)}
  <1>3. 0 \in P
    <2>1. <<>> \in Seq(S) /\ Len(<<>>) = 0 /\ DOMAIN <<>> = {} /\ 1..0 = {}
      OBVIOUS
    <2>2. NoPhotoTwice(<<>>)
      BY <2>1 DEF NoPhotoTwice
    <2>3. Done(0)
      BY <1>1, <2>1, <2>2
    <2> HIDE DEF Done
    <2> QED
      BY <2>3
  <1>4. ASSUME NEW i \in 0..(Len(s) - 1), i \in P PROVE i + 1 \in P
    <2> DEFINE t == r[i]
               u == r[i + 1]
               e == s[i + 1]
    <2>1. i \in Nat /\ i + 1 \in 1..Len(s) /\ e \in S
      BY <1>2
    <2>2. /\ t \in Seq(S) /\ Len(t) = i /\ NoPhotoTwice(t) /\ DOMAIN t = 1..i
          /\ \A k \in 1..i : \E j \in 1..i : t[k] = s[j]
      <3>1. Done(i)
        BY <1>4
      <3> QED
        BY <3>1
    <2>3. PICK p \in 1..(i + 1) : u = InsertAt(t, p, e)
      <3>1. u = Inserted(by, t, e)
        BY <1>1
      <3> HIDE DEF t, u, e
      <3> QED
        BY <2>2, <3>1, InsertedSomewhere
    <2> HIDE DEF t, u, e
    <2>4. /\ u \in Seq(S) /\ Len(u) = i + 1
          /\ \A k \in 1..(i + 1) : u[k] = IF k < p THEN t[k] ELSE IF k = p THEN e ELSE t[k - 1]
      <3>1. p \in 1..(Len(t) + 1)
        BY <2>2
      <3>2. LET v == InsertAt(t, p, e) IN
            /\ v \in Seq(S) /\ Len(v) = Len(t) + 1
            /\ \A k \in 1..Len(v) :
                 v[k] = IF k < p THEN t[k] ELSE IF k = p THEN e ELSE t[k - 1]
        <4>1. t \in Seq(S) /\ e \in S
          BY <2>1, <2>2
        <4> QED
          BY <3>1, <4>1, WithOneMore
      <3> QED
        BY <2>2, <2>3, <3>2
    <2>5. DOMAIN u = 1..(i + 1)
      BY <2>4
    <2>6. \A k \in 1..(i + 1) : k # p =>
            \E m \in 1..i : u[k] = t[m] /\ m = IF k < p THEN k ELSE k - 1
      <3> SUFFICES ASSUME NEW k \in 1..(i + 1), k # p
                   PROVE  \E m \in 1..i : u[k] = t[m] /\ m = IF k < p THEN k ELSE k - 1
        OBVIOUS
      <3>1. CASE k < p
        <4>1. k \in 1..i /\ u[k] = t[k]
          BY <2>1, <2>4, <3>1
        <4> QED
          BY <3>1, <4>1
      <3>2. CASE ~(k < p)
        <4>1. k - 1 \in 1..i /\ u[k] = t[k - 1]
          BY <2>1, <2>4, <3>2
        <4> QED
          BY <3>2, <4>1
      <3> QED
        BY <3>1, <3>2
    <2>7. u[p] = e
      BY <2>1, <2>4
    <2>8. ASSUME NEW m \in 1..i PROVE t[m].photo = 0 \/ t[m].photo # e.photo
      <3>1. PICK j \in 1..i : t[m] = s[j]
        BY <2>2
      <3>2. j \in DOMAIN s /\ i + 1 \in DOMAIN s /\ j # i + 1
        BY <1>2, <2>1
      <3> QED
        BY <3>1, <3>2 DEF NoPhotoTwice, e
    <2>9. NoPhotoTwice(u)
      <3> SUFFICES ASSUME NEW j \in 1..(i + 1), NEW k \in 1..(i + 1), j # k, u[j].photo # 0
                   PROVE  u[j].photo # u[k].photo
        BY <2>5 DEF NoPhotoTwice
      <3>1. CASE j = p
        <4>1. k # p
          BY <3>1
        <4>2. PICK m \in 1..i : u[k] = t[m]
          BY <2>6, <4>1
        <4> QED
          BY <2>7, <2>8, <3>1, <4>2
      <3>2. CASE k = p
        <4>1. PICK m \in 1..i : u[j] = t[m]
          BY <2>6, <3>2
        <4> QED
          BY <2>7, <2>8, <3>2, <4>1
      <3>3. CASE j # p /\ k # p
        <4>1. PICK m \in 1..i : u[j] = t[m] /\ m = IF j < p THEN j ELSE j - 1
          BY <2>6, <3>3
        <4>2. PICK l \in 1..i : u[k] = t[l] /\ l = IF k < p THEN k ELSE k - 1
          BY <2>6, <3>3
        <4>3. m # l
          BY <3>3, <4>1, <4>2
        <4>4. t[m].photo = 0 \/ t[m].photo # t[l].photo
          BY <2>2, <4>3 DEF NoPhotoTwice
        <4> QED
          BY <4>1, <4>2, <4>4
      <3> QED
        BY <3>1, <3>2, <3>3
    <2>10. ASSUME NEW k \in 1..(i + 1) PROVE \E j \in 1..(i + 1) : u[k] = s[j]
      <3>1. CASE k = p
        BY <2>1, <2>7, <3>1 DEF e
      <3>2. CASE k # p
        <4>1. PICK m \in 1..i : u[k] = t[m]
          BY <2>6, <3>2
        <4>2. PICK j \in 1..i : t[m] = s[j]
          BY <2>2
        <4>3. j \in 1..(i + 1)
          BY <2>1
        <4> QED
          BY <4>1, <4>2, <4>3
      <3> QED
        BY <3>1, <3>2
    <2>11. Done(i + 1)
      BY <2>1, <2>4, <2>9, <2>10 DEF u
    <2>12. i + 1 \in Nat
      BY <2>1
    <2> HIDE DEF Done
    <2> QED
      BY <2>11, <2>12
  <1> HIDE DEF P
  <1>5. Len(s) \in P
    BY <1>2, <1>3, <1>4, Climb
  <1>6. Done(Len(s))
    BY <1>5 DEF P
  <1> QED
    BY <1>1, <1>6

-----------------------------------------------------------------------------
(*****************************************************************************)
(* Grids, and evening out their slots                                        *)
(*****************************************************************************)

\* A grid for the photos: none is in two slots, there are as many slots, or more if they
\* may be.
GoodGrid(g, n, more) ==
  /\ g \in Seq(Range(g)) /\ NoPhotoTwice(g)
  /\ Len(g) >= n /\ (Len(g) > n => more)

\* A sequence of such grids.
GoodGrids(gs, n, more) ==
  gs \in Seq(Range(gs)) /\ \A i \in DOMAIN gs : GoodGrid(gs[i], n, more)

\* A member of a sequence, by its position.
LEMMA Members ==
  ASSUME NEW S, NEW s \in Seq(S)
  PROVE  /\ Len(s) \in Nat /\ DOMAIN s = 1..Len(s) /\ s \in Seq(Range(s))
         /\ \A i \in DOMAIN s : s[i] \in S /\ s[i] \in Range(s)
  BY SeqOfRange DEF Range

\* What holds of every grid of a sequence.
LEMMA GridsAre ==
  ASSUME NEW n, NEW more, NEW S, NEW gs \in Seq(S), \A g \in S : GoodGrid(g, n, more)
  PROVE  GoodGrids(gs, n, more)
  BY Members DEF GoodGrids

\* Sorting the slots.
LEMMA SortedGood ==
  ASSUME NEW n, NEW more, NEW g, GoodGrid(g, n, more), NEW by
  PROVE  GoodGrid(StdSort(g, by), n, more)
  <1> DEFINE r == StdSort(g, by)
  <1>1. g \in Seq(Range(g)) /\ NoPhotoTwice(g)
    BY DEF GoodGrid
  <1>2. r \in Seq(Range(g)) /\ Len(r) = Len(g) /\ NoPhotoTwice(r)
    BY <1>1, SortKeeps
  <1> HIDE DEF r
  <1>3. r \in Seq(Range(r))
    BY <1>2, Members
  <1> QED
    BY <1>2, <1>3 DEF GoodGrid, r

\* Sorting the grids: any order may come out.
LEMMA SortedGridsGood ==
  ASSUME NEW n, NEW more, NEW gs, GoodGrids(gs, n, more), NEW hs \in SortedGrids(gs)
  PROVE  GoodGrids(hs, n, more)
  <1> DEFINE slots == [i \in DOMAIN gs |-> StdSort(gs[i], "aspectRatio")]
             S == {slots[i] : i \in DOMAIN gs}
  <1>1. DOMAIN gs = 1..Len(gs) /\ Len(gs) \in Nat
    BY Members DEF GoodGrids
  <1>2. PICK f \in [DOMAIN gs -> DOMAIN gs] : hs = [i \in DOMAIN gs |-> slots[f[i]]]
    <2>1. hs \in {[i \in DOMAIN gs |-> slots[f[i]]] :
                   f \in {f \in [DOMAIN gs -> DOMAIN gs] : IsInjective(f)}}
      BY Zenon DEF SortedGrids
    <2> HIDE DEF slots
    <2> QED
      BY <2>1
  <1>3. \A i \in DOMAIN gs : GoodGrid(slots[i], n, more)
    BY SortedGood DEF GoodGrids
  <1> HIDE DEF slots
  <1>4. \A i \in DOMAIN gs : hs[i] \in S
    BY <1>2
  <1>5. hs \in Seq(S)
    <2>1. hs \in [1..Len(gs) -> S]
      BY <1>1, <1>2, <1>4
    <2> HIDE DEF S
    <2> QED
      BY <1>1, <2>1
  <1>6. \A g \in S : GoodGrid(g, n, more)
    BY <1>3
  <1> HIDE DEF S
  <1> QED
    BY <1>5, <1>6, GridsAre

\* Filtering drops grids.
LEMMA KeepsSome ==
  ASSUME NEW S, NEW s \in Seq(S)
  PROVE  AllKept(s) \in Seq(S)
  <1>1. PICK r : /\ r[0] = <<>>
                 /\ \A i \in 0..(Len(s) - 1) : r[i + 1] = KeepNew(r[i], s[i + 1])
                 /\ AllKept(s) = r[Len(s)]
    BY KeepSteps
  <1> DEFINE P == {i \in Nat : r[i] \in Seq(S)}
  <1>2. 0 \in P
    <2>1. <<>> \in Seq(S)
      OBVIOUS
    <2> QED
      BY <1>1, <2>1
  <1>3. ASSUME NEW i \in 0..(Len(s) - 1), i \in P PROVE i + 1 \in P
    <2>1. i + 1 \in Nat /\ s[i + 1] \in S
      BY Members
    <2>2. r[i + 1] = r[i] \/ r[i + 1] = Append(r[i], s[i + 1])
      BY <1>1 DEF KeepNew
    <2>3. r[i] \in Seq(S)
      BY <1>3
    <2>4. Append(r[i], s[i + 1]) \in Seq(S)
      BY <2>1, <2>3, AppendProperties
    <2> QED
      BY <2>1, <2>2, <2>3, <2>4
  <1> HIDE DEF P
  <1>4. Len(s) \in P
    <2>1. Len(s) \in Nat
      BY Members
    <2> QED
      BY <1>2, <1>3, <2>1, Climb
  <1> QED
    BY <1>1, <1>4 DEF P

\* What is kept of the grids.
LEMMA FilteredGood ==
  ASSUME NEW n, NEW more, NEW gs, GoodGrids(gs, n, more)
  PROVE  GoodGrids(Filtered(gs), n, more)
  <1> DEFINE sorted == [i \in DOMAIN gs |-> StdSort(gs[i], "coordAndArea")]
             S == {sorted[i] : i \in DOMAIN gs}
  <1>1. DOMAIN gs = 1..Len(gs) /\ Len(gs) \in Nat
    BY Members DEF GoodGrids
  <1>2. \A i \in DOMAIN gs : GoodGrid(sorted[i], n, more)
    BY SortedGood DEF GoodGrids
  <1>3. Filtered(gs) = AllKept(sorted)
    BY Zenon DEF Filtered, AllKept
  <1>4. sorted \in Seq(S)
    <2>1. sorted = [i \in DOMAIN gs |-> sorted[i]] /\ \A i \in DOMAIN gs : sorted[i] \in S
      BY Zenon
    <2> HIDE DEF S, sorted
    <2>2. sorted \in [1..Len(gs) -> S]
      BY <1>1, <2>1
    <2> QED
      BY <1>1, <2>2
  <1> HIDE DEF sorted
  <1>5. \A g \in S : GoodGrid(g, n, more)
    BY <1>2
  <1> HIDE DEF S
  <1>6. AllKept(sorted) \in Seq(S)
    BY <1>4, KeepsSome
  <1> QED
    BY <1>3, <1>5, <1>6, GridsAre

\* Grids after grids.
LEMMA MoreGrids ==
  ASSUME NEW n, NEW more, NEW gs, NEW hs, GoodGrids(gs, n, more), GoodGrids(hs, n, more)
  PROVE  GoodGrids(gs \o hs, n, more)
  <1> DEFINE S == Range(gs) \cup Range(hs)
  <1>1. gs \in Seq(Range(gs)) /\ hs \in Seq(Range(hs))
    BY DEF GoodGrids
  <1>2. gs \in Seq(S) /\ hs \in Seq(S)
    <2>1. Range(gs) \subseteq S /\ Range(hs) \subseteq S
      OBVIOUS
    <2> HIDE DEF S
    <2> QED
      BY <1>1, <2>1, SeqMonotonic
  <1>3. \A g \in S : GoodGrid(g, n, more)
    BY DEF GoodGrids, Range
  <1> HIDE DEF S
  <1>4. gs \o hs \in Seq(S)
    BY <1>2, ConcatProperties
  <1> QED
    BY <1>3, <1>4, GridsAre

\* A slot is a record of five fields.
IsSlot(s) == s = [x |-> s.x, y |-> s.y, w |-> s.w, h |-> s.h, photo |-> s.photo]

\* A pattern of slots, before it is evened out.
Pattern(g) ==
  g \in Seq(Range(g)) /\ NoPhotoTwice(g) /\ \A i \in DOMAIN g : IsSlot(g[i])

\* Two lists without a photo in common.
LEMMA Joined ==
  ASSUME NEW S, NEW a \in Seq(S), NEW b \in Seq(S), NoPhotoTwice(a), NoPhotoTwice(b),
         \A i \in DOMAIN a, j \in DOMAIN b : a[i].photo = 0 \/ a[i].photo # b[j].photo
  PROVE  /\ NoPhotoTwice(a \o b) /\ a \o b \in Seq(S) /\ Len(a \o b) = Len(a) + Len(b)
         /\ \A i \in DOMAIN (a \o b) : \/ \E j \in DOMAIN a : (a \o b)[i] = a[j]
                                       \/ \E j \in DOMAIN b : (a \o b)[i] = b[j]
  <1> DEFINE c == a \o b
  <1>1. /\ c \in Seq(S) /\ Len(c) = Len(a) + Len(b)
        /\ \A i \in 1..Len(a) + Len(b) : c[i] = IF i <= Len(a) THEN a[i] ELSE b[i - Len(a)]
    BY ConcatProperties
  <1>2. /\ Len(a) \in Nat /\ Len(b) \in Nat
        /\ DOMAIN a = 1..Len(a) /\ DOMAIN b = 1..Len(b)
    OBVIOUS
  <1> HIDE DEF c
  <1>3. DOMAIN c = 1..Len(a) + Len(b)
    BY <1>1
  <1>4. ASSUME NEW i \in DOMAIN c
        PROVE  \/ i \in DOMAIN a /\ c[i] = a[i]
               \/ i > Len(a) /\ i - Len(a) \in DOMAIN b /\ c[i] = b[i - Len(a)]
    BY <1>1, <1>2, <1>3
  <1>5. NoPhotoTwice(c)
    <2> SUFFICES ASSUME NEW i \in DOMAIN c, NEW j \in DOMAIN c, i # j, c[i].photo # 0
                 PROVE  c[i].photo # c[j].photo
      BY DEF NoPhotoTwice
    <2>1. CASE i \in DOMAIN a /\ c[i] = a[i] /\ j \in DOMAIN a /\ c[j] = a[j]
      BY <2>1 DEF NoPhotoTwice
    <2>2. CASE i \in DOMAIN a /\ c[i] = a[i] /\ j - Len(a) \in DOMAIN b /\ c[j] = b[j - Len(a)]
      BY <2>2
    <2>3. CASE j \in DOMAIN a /\ c[j] = a[j] /\ i - Len(a) \in DOMAIN b /\ c[i] = b[i - Len(a)]
      BY <2>3
    <2>4. CASE /\ i - Len(a) \in DOMAIN b /\ c[i] = b[i - Len(a)]
               /\ j - Len(a) \in DOMAIN b /\ c[j] = b[j - Len(a)]
      <3>1. i - Len(a) # j - Len(a)
        BY <1>2, <1>3
      <3> QED
        BY <2>4, <3>1 DEF NoPhotoTwice
    <2> QED
      BY <1>4, <2>1, <2>2, <2>3, <2>4
  <1>6. \A i \in DOMAIN c : \/ \E j \in DOMAIN a : c[i] = a[j]
                            \/ \E j \in DOMAIN b : c[i] = b[j]
    BY <1>4
  <1> QED
    BY <1>1, <1>5, <1>6 DEF c

\* Some of the slots of a list, in any order.
LEMMA SomeSlots ==
  ASSUME NEW S, NEW s \in Seq(S), NoPhotoTwice(s), NEW r, NEW f \in [DOMAIN r -> DOMAIN s],
         \A i, j \in DOMAIN r : f[i] = f[j] => i = j,
         \A i \in DOMAIN r : r[i].photo = s[f[i]].photo
  PROVE  NoPhotoTwice(r)
  BY DEF NoPhotoTwice

\* Without its last slot.
LEMMA FrontKeeps ==
  ASSUME NEW S, NEW s \in Seq(S), s # <<>>, NoPhotoTwice(s)
  PROVE  /\ Front(s) \in Seq(S) /\ Len(Front(s)) = Len(s) - 1 /\ NoPhotoTwice(Front(s))
         /\ \A i \in 1..(Len(s) - 1) : Front(s)[i] = s[i]
  <1>1. Len(s) \in Nat \ {0} /\ DOMAIN s = 1..Len(s) /\ \A i \in 1..Len(s) : s[i] \in S
    BY EmptySeq
  <1> DEFINE n == Len(s) - 1
             r == SubSeq(s, 1, n)
  <1>2. r \in Seq(S) /\ Len(r) = n /\ \A i \in 1..n : r[i] = s[i]
    <2>1. n \in Nat /\ \A i \in 1..n : s[i] \in S
      BY <1>1
    <2> HIDE DEF n
    <2> QED
      BY <2>1, SubSeqProperties
  <1> HIDE DEF r
  <1>3. NoPhotoTwice(r)
    <2>1. DOMAIN r = 1..n /\ 1..n \subseteq DOMAIN s
      BY <1>1, <1>2
    <2> HIDE DEF n
    <2> QED
      BY <1>2, <2>1 DEF NoPhotoTwice
  <1> QED
    BY <1>2, <1>3 DEF r, Front

\* Without one of its slots; beyond the end there is none to erase.
LEMMA RemoveKeeps ==
  ASSUME NEW S, NEW s \in Seq(S), NoPhotoTwice(s), NEW k \in 1..(Len(s) + 1)
  PROVE  RemoveAt(s, k) \in Seq(S) /\ NoPhotoTwice(RemoveAt(s, k))
  <1>1. Len(s) \in Nat /\ DOMAIN s = 1..Len(s) /\ \A i \in 1..Len(s) : s[i] \in S
    OBVIOUS
  <1>2. CASE k \in 1..Len(s)
    <2> DEFINE r == RemoveAt(s, k)
    <2>1. /\ r \in Seq(S) /\ Len(r) = Len(s) - 1
          /\ \A i \in 1..Len(r) : r[i] = IF i < k THEN s[i] ELSE s[i + 1]
      BY <1>2, WithoutOne
    <2> HIDE DEF r
    <2>2. DOMAIN r = 1..(Len(s) - 1)
      BY <2>1
    <2> DEFINE f == [i \in DOMAIN r |-> IF i < k THEN i ELSE i + 1]
    <2>3. f \in [DOMAIN r -> DOMAIN s]
      BY <1>1, <2>2
    <2>4. \A i, j \in DOMAIN r : f[i] = f[j] => i = j
      BY <1>1, <2>2
    <2>5. \A i \in DOMAIN r : r[i].photo = s[f[i]].photo
      BY <2>1, <2>2
    <2> HIDE DEF f
    <2>6. NoPhotoTwice(r)
      BY <2>3, <2>4, <2>5, SomeSlots
    <2> QED
      BY <2>1, <2>6 DEF r
  <1>3. CASE k = Len(s) + 1
    <2>1. SubSeq(s, 1, k - 1) = s
      <3>1. k - 1 = Len(s)
        BY <1>1, <1>3
      <3> QED
        BY <3>1, SubSeqFull
    <2>2. SubSeq(s, k + 1, Len(s)) = <<>>
      <3>1. Len(s) < k + 1 /\ k + 1 \in Int /\ Len(s) \in Int
        BY <1>1, <1>3
      <3> QED
        BY <3>1, SubSeqEmpty
    <2>3. RemoveAt(s, k) = s
      BY <2>1, <2>2, ConcatEmptySeq DEF RemoveAt
    <2> QED
      BY <2>3
  <1> QED
    BY <1>1, <1>2, <1>3

\* Slots without a photo.
Unlinked(g) == \A i \in DOMAIN g : g[i].photo = 0

\* What one turn of the merging loop leaves: the slots that are not merged and the merged
\* ones, which have no photo.
MergeState(st) ==
  /\ st.slots \in Seq(Range(st.slots)) /\ NoPhotoTwice(st.slots)
  /\ st.merged \in Seq(Range(st.merged)) /\ Unlinked(st.merged)

\* The smallest of some positions.
LEMMA MinIsIn ==
  ASSUME NEW T \in SUBSET Nat, T # {}
  PROVE  Min(T) \in T
  <1>1. PICK m \in T : \A k \in T : m <= k
    BY Least
  <1>2. Min(T) \in T /\ \A y \in T : Min(T) <= y
    BY <1>1 DEF Min
  <1> QED
    BY <1>2

\* One more turn of the merging loop.
LEMMA MergeLastKeeps ==
  ASSUME NEW st, MergeState(st)
  PROVE  MergeState(MergeLast(st))
  <1> DEFINE s == st.slots
             last == Last(s)
             partners == {k \in DOMAIN s : LeftOf(s[k], last) \/ Above(s[k], last)}
             k == Min(partners)
             joined == IF LeftOf(s[k], last)
                       THEN Slot(s[k].x, s[k].y, Plus(s[k].w, last.w), s[k].h, 0)
                       ELSE Slot(s[k].x, s[k].y, s[k].w, Double(s[k].h), 0)
             slots == RemoveAt(Front(s), k)
             merged == Append(st.merged, joined)
  <1>1. MergeLast(st) = IF partners = {} THEN st ELSE [slots |-> slots, merged |-> merged]
    BY Zenon DEF MergeLast
  <1>2. CASE partners = {}
    BY <1>1, <1>2
  <1>3. CASE partners # {}
    <2>1. /\ s \in Seq(Range(s)) /\ NoPhotoTwice(s) /\ Len(s) \in Nat /\ DOMAIN s = 1..Len(s)
      BY Members DEF MergeState
    <2>2. k \in 1..Len(s)
      <3>1. partners \in SUBSET Nat /\ partners \subseteq 1..Len(s)
        BY <2>1
      <3> HIDE DEF partners
      <3> QED
        BY <1>3, <3>1, MinIsIn
    <2>3. s # <<>>
      BY <2>1, <2>2
    <2>4. joined.photo = 0
      BY DEF Slot
    <2> HIDE DEF joined
    <2>5. /\ Front(s) \in Seq(Range(s)) /\ Len(Front(s)) = Len(s) - 1
          /\ NoPhotoTwice(Front(s))
      BY <2>1, <2>3, FrontKeeps
    <2> HIDE DEF k, s
    <2>6. slots \in Seq(Range(s)) /\ NoPhotoTwice(slots)
      <3>1. k \in 1..(Len(Front(s)) + 1)
        BY <2>1, <2>2, <2>5
      <3> QED
        BY <2>5, <3>1, RemoveKeeps
    <2> HIDE DEF slots
    <2>7. slots \in Seq(Range(slots))
      BY <2>6, Members
    <2>8. merged \in Seq(Range(merged)) /\ Unlinked(merged)
      <3> DEFINE S == Range(st.merged) \cup {joined}
      <3>1. st.merged \in Seq(Range(st.merged)) /\ Unlinked(st.merged)
        BY DEF MergeState
      <3>2. st.merged \in Seq(S) /\ joined \in S
        <4>1. Range(st.merged) \subseteq S /\ joined \in S
          OBVIOUS
        <4> HIDE DEF S
        <4> QED
          BY <3>1, <4>1, SeqMonotonic
      <3> HIDE DEF S
      <3>3. /\ merged \in Seq(S) /\ Len(merged) = Len(st.merged) + 1
            /\ \A i \in 1..Len(st.merged) : merged[i] = st.merged[i]
            /\ merged[Len(st.merged) + 1] = joined
        BY <3>2, AppendProperties
      <3> HIDE DEF merged
      <3>4. \A i \in DOMAIN merged : i \in 1..Len(st.merged) \/ i = Len(st.merged) + 1
        BY <3>2, <3>3
      <3>5. DOMAIN st.merged = 1..Len(st.merged)
        BY <3>2
      <3>6. Unlinked(merged)
        BY <2>4, <3>1, <3>3, <3>4, <3>5 DEF Unlinked
      <3> QED
        BY <3>3, <3>6, Members
    <2> HIDE DEF merged, partners
    <2> QED
      BY <1>1, <1>3, <2>6, <2>7, <2>8 DEF MergeState
  <1> QED
    BY <1>2, <1>3

\* Merging leaves no photo twice: a slot that is joined to another one loses its photo.
LEMMA MergedKeeps ==
  ASSUME NEW slots, slots \in Seq(Range(slots)), NoPhotoTwice(slots), NEW t \in Nat
  PROVE  LET g == Merged(slots, t) IN g \in Seq(Range(g)) /\ NoPhotoTwice(g)
  <1>1. PICK r : /\ r[0] = [slots |-> slots, merged |-> <<>>]
                 /\ \A i \in 0..(t - 1) : r[i + 1] = MergeLast(r[i])
                 /\ Merged(slots, t) = r[t].slots \o r[t].merged
    BY MergeSteps
  <1> DEFINE P == {i \in Nat : MergeState(r[i])}
  <1>2. 0 \in P
    <2>1. <<>> \in Seq(Range(<<>>)) /\ DOMAIN <<>> = {}
      BY Members
    <2>2. r[0].slots = slots /\ r[0].merged = <<>>
      BY <1>1
    <2>3. MergeState(r[0])
      BY <2>1, <2>2 DEF MergeState, Unlinked
    <2> QED
      BY <2>3
  <1>3. \A i \in 0..(t - 1) : i \in P => i + 1 \in P
    <2> TAKE i \in 0..(t - 1)
    <2>1. r[i + 1] = MergeLast(r[i]) /\ i + 1 \in Nat
      BY <1>1
    <2> QED
      BY <2>1, MergeLastKeeps
  <1> HIDE DEF P
  <1>4. t \in P
    BY <1>2, <1>3, Climb
  <1>5. MergeState(r[t])
    BY <1>4 DEF P
  <1> DEFINE a == r[t].slots
             b == r[t].merged
             S == Range(a) \cup Range(b)
  <1>6. /\ a \in Seq(Range(a)) /\ NoPhotoTwice(a) /\ b \in Seq(Range(b)) /\ Unlinked(b)
    BY <1>5 DEF MergeState
  <1> HIDE DEF a, b
  <1>7. a \in Seq(S) /\ b \in Seq(S)
    <2>1. Range(a) \subseteq S /\ Range(b) \subseteq S
      OBVIOUS
    <2> HIDE DEF S
    <2> QED
      BY <1>6, <2>1, SeqMonotonic
  <1> HIDE DEF S
  <1>8. NoPhotoTwice(b)
    BY <1>6 DEF Unlinked, NoPhotoTwice
  <1>9. \A i \in DOMAIN a, j \in DOMAIN b : a[i].photo = 0 \/ a[i].photo # b[j].photo
    BY <1>6 DEF Unlinked
  <1>10. NoPhotoTwice(a \o b) /\ a \o b \in Seq(S)
    BY <1>6, <1>7, <1>8, <1>9, Joined
  <1>11. Merged(slots, t) = a \o b
    BY <1>1 DEF a, b
  <1> QED
    BY <1>10, <1>11, Members

\* Cutting leaves no photo twice: a half keeps the slot's photo, the other one has none.
LEMMA SplitKeeps ==
  ASSUME NEW slots, Pattern(slots), NEW t \in Nat
  PROVE  LET g == Split(slots, t) IN g \in Seq(Range(g)) /\ NoPhotoTwice(g)
  <1> DEFINE n == Len(slots)
             keep == IF n > t THEN n - t ELSE 0
             a == SubSeq(slots, 1, keep)
             cut == SubSeq(slots, keep + 1, n)
             b == [i \in DOMAIN cut |-> FirstHalf(cut[i])]
             c == [i \in DOMAIN cut |-> SecondHalf(cut[i])]
             S == Range(a) \cup Range(b) \cup Range(c)
             d == a \o b
  <1>1. /\ slots \in Seq(Range(slots)) /\ NoPhotoTwice(slots) /\ n \in Nat
        /\ DOMAIN slots = 1..n /\ \A i \in 1..n : slots[i] \in Range(slots) /\ IsSlot(slots[i])
    BY Members DEF Pattern
  <1>2. keep \in 0..n
    BY <1>1
  <1>3. Split(slots, t) = (a \o b) \o c
    BY Zenon DEF Split
  <1> HIDE DEF keep, n
  <1>4. a \in Seq(Range(slots)) /\ Len(a) = keep /\ \A i \in 1..keep : a[i] = slots[i]
    <2>1. \A i \in 1..keep : slots[i] \in Range(slots)
      BY <1>1, <1>2
    <2>2. keep \in Nat
      BY <1>1, <1>2
    <2> QED
      BY <2>1, <2>2, SubSeqProperties
  <1>5. /\ cut \in Seq(Range(slots)) /\ Len(cut) = n - keep
        /\ \A i \in 1..(n - keep) : cut[i] = slots[keep + i]
    <2>1. \A i \in (keep + 1)..n : slots[i] \in Range(slots)
      BY <1>1, <1>2
    <2>2. keep + 1 \in Nat /\ n + 1 - (keep + 1) = n - keep /\ keep + 1 <= n + 1
      BY <1>1, <1>2
    <2>3. \A i \in 1..(n - keep) : (keep + 1) + i - 1 = keep + i
      BY <1>1, <1>2
    <2> QED
      BY <1>1, <2>1, <2>2, <2>3, SubSeqProperties
  <1> HIDE DEF a, cut
  <1>6. DOMAIN cut = 1..(n - keep) /\ n - keep \in Nat
    BY <1>1, <1>2, <1>5
  <1>7. ASSUME NEW i \in 1..(n - keep)
        PROVE  b[i].photo = slots[keep + i].photo /\ c[i].photo = 0
    <2>1. keep + i \in 1..n
      BY <1>1, <1>2
    <2>2. IsSlot(cut[i])
      BY <1>1, <1>5, <2>1
    <2>3. FirstHalf(cut[i]).photo = cut[i].photo
      <3> DEFINE u == cut[i]
      <3>1. "photo" \in DOMAIN u
        <4>1. u = [x |-> u.x, y |-> u.y, w |-> u.w, h |-> u.h, photo |-> u.photo]
          BY <2>2 DEF IsSlot
        <4> HIDE DEF u
        <4> QED
          BY <4>1
      <3> HIDE DEF u
      <3>2. \A v : [u EXCEPT !.w = v].photo = u.photo /\ [u EXCEPT !.h = v].photo = u.photo
        BY <3>1
      <3>3. FirstHalf(u).photo = u.photo
        BY <3>2 DEF FirstHalf
      <3> QED
        BY <3>3 DEF u
    <2>4. SecondHalf(cut[i]).photo = 0
      BY DEF SecondHalf, HalfWith, Slot
    <2> QED
      BY <1>5, <1>6, <2>3, <2>4
  <1>8. /\ b \in Seq(Range(b)) /\ Len(b) = n - keep
        /\ c \in Seq(Range(c)) /\ Len(c) = n - keep
    BY <1>6 DEF Range
  <1>9. DOMAIN b = 1..(n - keep) /\ DOMAIN c = 1..(n - keep)
    BY <1>6
  <1> HIDE DEF b, c
  <1>10. a \in Seq(S) /\ b \in Seq(S) /\ c \in Seq(S)
    <2>1. a \in Seq(Range(a))
      BY <1>4, Members
    <2>2. Range(a) \subseteq S /\ Range(b) \subseteq S /\ Range(c) \subseteq S
      OBVIOUS
    <2> HIDE DEF S
    <2> QED
      BY <1>8, <2>1, <2>2, SeqMonotonic
  <1> HIDE DEF S
  <1>11. d \in Seq(S) /\ Len(d) = n /\ \A i \in 1..n : d[i].photo = slots[i].photo
    <2>1. /\ d \in Seq(S) /\ Len(d) = Len(a) + Len(b)
          /\ \A i \in 1..Len(a) + Len(b) : d[i] = IF i <= Len(a) THEN a[i] ELSE b[i - Len(a)]
      BY <1>10, ConcatProperties
    <2> HIDE DEF d
    <2>2. Len(d) = n
      BY <1>1, <1>2, <1>4, <1>8, <2>1
    <2>3. ASSUME NEW i \in 1..n PROVE d[i].photo = slots[i].photo
      <3>1. d[i] = IF i <= keep THEN a[i] ELSE b[i - keep]
        BY <1>4, <2>1, <2>2
      <3>2. CASE i <= keep
        <4>1. i \in 1..keep
          BY <1>2, <3>2
        <4> QED
          BY <1>4, <3>1, <3>2, <4>1
      <3>3. CASE ~(i <= keep)
        <4>1. i - keep \in 1..(n - keep) /\ keep + (i - keep) = i
          BY <1>1, <1>2, <3>3
        <4> QED
          BY <1>7, <3>1, <3>3, <4>1
      <3> QED
        BY <3>2, <3>3
    <2> QED
      BY <2>1, <2>2, <2>3
  <1> HIDE DEF d
  <1>12. NoPhotoTwice(d)
    <2>1. DOMAIN d = 1..n
      BY <1>11
    <2> QED
      BY <1>1, <1>11, <2>1 DEF NoPhotoTwice
  <1>13. NoPhotoTwice(c)
    BY <1>7, <1>9 DEF NoPhotoTwice
  <1>14. \A i \in DOMAIN d, j \in DOMAIN c : d[i].photo = 0 \/ d[i].photo # c[j].photo
    BY <1>7, <1>9
  <1>15. NoPhotoTwice(d \o c) /\ d \o c \in Seq(S)
    BY <1>10, <1>11, <1>12, <1>13, <1>14, Joined
  <1>16. Split(slots, t) = d \o c
    BY <1>3 DEF d
  <1> QED
    BY <1>15, <1>16, Members

\* The sequence of the one element of a set, or of none.
LEMMA SeqOfOne ==
  ASSUME NEW a, NEW p \in BOOLEAN
  PROVE  SetToSeq({b \in {a} : p}) = IF p THEN <<a>> ELSE <<>>
  <1> DEFINE S == {b \in {a} : p}
             f == IF p THEN <<a>> ELSE <<>>
             k == Cardinality(S)
  <1>1. (p => S = {a}) /\ (~p => S = {})
    OBVIOUS
  <1>2. k = IF p THEN 1 ELSE 0
    <2>1. Cardinality({a}) = 1 /\ Cardinality({}) = 0
      BY FS_Singleton, FS_EmptySet
    <2> QED
      BY <1>1, <2>1
  <1> HIDE DEF S, k
  <1>3. \A h : h \in [1..k -> S] => h = f
    <2>1. CASE p
      <3>1. \A h : h \in [1..1 -> {a}] => h = <<a>>
        OBVIOUS
      <3> QED
        BY <1>1, <1>2, <2>1, <3>1
    <2>2. CASE ~p
      <3>1. \A h : h \in [1..0 -> {}] => h = <<>>
        OBVIOUS
      <3> QED
        BY <1>1, <1>2, <2>2, <3>1
    <2> QED
      BY <2>1, <2>2
  <1>4. f \in [1..k -> S] /\ IsInjective(f)
    <2>1. CASE p
      <3>1. <<a>> \in [1..1 -> {a}] /\ IsInjective(<<a>>)
        BY DEF IsInjective
      <3> QED
        BY <1>1, <1>2, <2>1, <3>1
    <2>2. CASE ~p
      <3>1. <<>> \in [1..0 -> {}] /\ IsInjective(<<>>)
        BY DEF IsInjective
      <3> QED
        BY <1>1, <1>2, <2>2, <3>1
    <2> QED
      BY <2>1, <2>2
  <1> HIDE DEF f
  <1>5. SetToSeq(S) = CHOOSE h \in [1..k -> S] : IsInjective(h)
    BY DEF SetToSeq, k
  <1>6. SetToSeq(S) \in [1..k -> S]
    BY <1>4, <1>5
  <1> QED
    BY <1>3, <1>6 DEF S, f

\* A pattern that is evened out to n slots is a grid for the photos.
LEMMA KeptGood ==
  ASSUME NEW slots, Pattern(slots), NEW n \in Nat, NEW m \in Nat, NEW more,
         n >= m, n > m => more
  PROVE  GoodGrids(Kept(slots, n), m, more)
  <1> DEFINE g == Adjusted(slots, n)
  <1>1. slots \in Seq(Range(slots)) /\ NoPhotoTwice(slots) /\ Len(slots) \in Nat
    BY Members DEF Pattern
  <1>2. g \in Seq(Range(g)) /\ NoPhotoTwice(g)
    <2>1. CASE Len(slots) > n
      <3>1. g = Merged(slots, Len(slots) - n) /\ Len(slots) - n \in Nat
        BY <1>1, <2>1 DEF Adjusted
      <3> QED
        BY <1>1, <3>1, MergedKeeps
    <2>2. CASE Len(slots) < n
      <3>1. g = Split(slots, n - Len(slots)) /\ n - Len(slots) \in Nat
        BY <1>1, <2>2 DEF Adjusted
      <3> QED
        BY <3>1, SplitKeeps
    <2>3. CASE Len(slots) = n
      <3>1. g = slots
        BY <2>3 DEF Adjusted
      <3> QED
        BY <1>1, <3>1
    <2> QED
      BY <1>1, <2>1, <2>2, <2>3
  <1>3. Kept(slots, n) = IF Len(g) = n THEN <<g>> ELSE <<>>
    <2>1. Kept(slots, n) = SetToSeq({h \in {g} : Len(h) = n})
      BY Zenon DEF Kept
    <2>2. {h \in {g} : Len(h) = n} = {b \in {g} : Len(g) = n}
      OBVIOUS
    <2>3. (Len(g) = n) \in BOOLEAN
      OBVIOUS
    <2> HIDE DEF g
    <2> QED
      BY <2>1, <2>2, <2>3, SeqOfOne
  <1> HIDE DEF g
  <1> DEFINE gs == IF Len(g) = n THEN <<g>> ELSE <<>>
             S == IF Len(g) = n THEN {g} ELSE {}
  <1>4. gs \in Seq(S)
    <2>1. <<g>> \in Seq({g}) /\ <<>> \in Seq({})
      OBVIOUS
    <2> QED
      BY <2>1, Zenon
  <1>5. \A h \in S : GoodGrid(h, m, more)
    <2>1. Len(g) = n => GoodGrid(g, m, more)
      BY <1>2 DEF GoodGrid
    <2> QED
      BY <2>1
  <1> HIDE DEF S, gs
  <1>6. GoodGrids(gs, m, more)
    BY <1>4, <1>5, GridsAre
  <1> QED
    BY <1>3, <1>6 DEF gs

\* The number of slots for the photos: never fewer than there are, more only if that may be.
LEMMA SlotNumIs ==
  ASSUME NEW m \in Nat, NEW least \in Nat, NEW more
  PROVE  LET n == SlotNum(m, least, more) IN
         n # 0 => n \in Nat /\ n >= m /\ n >= least /\ (n > m => more)
  BY DEF SlotNum

-----------------------------------------------------------------------------
(*****************************************************************************)
(* The patterns of the samplers                                              *)
(*****************************************************************************)

\* The equation of FlattenSeq's function has a solution.
LEMMA FlattenExists ==
  ASSUME NEW seqs, NEW n \in Nat
  PROVE  \E f : f = [i \in 1..n |-> IF i = 1 THEN seqs[i] ELSE f[i - 1] \o seqs[i]]
  <1> DEFINE Body(f, i) == IF i = 1 THEN seqs[i] ELSE f[i - 1] \o seqs[i]
             Solves(f, k) == f = [i \in 1..k |-> Body(f, i)]
             P == {k \in Nat : \E f : Solves(f, k)}
  <1>1. 0 \in P
    <2> DEFINE f == [i \in 1..0 |-> 0]
    <2>1. f = [i \in 1..0 |-> Body(f, i)]
      <3>1. 1..0 = {}
        OBVIOUS
      <3> QED
        BY <3>1, Zenon
    <2> HIDE DEF f, Body
    <2> QED
      BY <2>1
  <1>2. ASSUME NEW k \in 0..(n - 1), k \in P PROVE k + 1 \in P
    <2>1. PICK f : Solves(f, k)
      BY <1>2
    <2> DEFINE g == [i \in 1..(k + 1) |-> IF i = k + 1 THEN Body(f, i) ELSE f[i]]
    <2>2. \A i \in 1..k : i \in 1..(k + 1) /\ i # k + 1
      OBVIOUS
    <2>3. \A i \in 1..k : g[i] = f[i] /\ f[i] = Body(f, i)
      <3>1. \A i \in 1..k : g[i] = f[i]
        BY <2>2
      <3>2. \A i \in 1..k : f[i] = Body(f, i)
        <4> HIDE DEF Body
        <4> QED
          BY <2>1
      <3> HIDE DEF g, Body
      <3> QED
        BY <3>1, <3>2
    <2>4. ASSUME NEW i \in 1..(k + 1) PROVE g[i] = Body(g, i)
      <3>1. i = 1 \/ i - 1 \in 1..k
        OBVIOUS
      <3>2. Body(g, i) = Body(f, i)
        <4>1. i - 1 \in 1..k => g[i - 1] = f[i - 1]
          BY <2>3
        <4> HIDE DEF g
        <4> QED
          BY <3>1, <4>1
      <3>3. CASE i = k + 1
        <4>1. g[i] = Body(f, i)
          <5> HIDE DEF Body
          <5> QED
            BY <3>3
        <4> HIDE DEF g, Body
        <4> QED
          BY <3>2, <4>1
      <3>4. CASE i # k + 1
        <4>1. i \in 1..k
          BY <3>4
        <4> HIDE DEF g, Body
        <4> QED
          BY <2>3, <3>2, <4>1
      <3> HIDE DEF g, Body
      <3> QED
        BY <3>3, <3>4
    <2>5. Solves(g, k + 1)
      <3>1. g = [i \in 1..(k + 1) |-> g[i]]
        BY Zenon
      <3> HIDE DEF g, Body
      <3> QED
        BY <2>4, <3>1, Zenon
    <2> HIDE DEF g, Solves
    <2>6. k + 1 \in Nat
      OBVIOUS
    <2> QED
      BY <2>5, <2>6
  <1> HIDE DEF P
  <1>3. n \in P
    BY <1>1, <1>2, Climb
  <1> QED
    BY <1>3 DEF P

\* FlattenSeq joins lists to a list.
LEMMA FlattenIn ==
  ASSUME NEW S, NEW seqs \in Seq(Seq(S))
  PROVE  FlattenSeq(seqs) \in Seq(S)
  <1> DEFINE n == Len(seqs)
             f == CHOOSE f : f = [i \in 1..n |-> IF i = 1 THEN seqs[i] ELSE f[i - 1] \o seqs[i]]
  <1>1. n \in Nat /\ \A i \in 1..n : seqs[i] \in Seq(S)
    OBVIOUS
  <1>2. FlattenSeq(seqs) = IF n = 0 THEN seqs ELSE f[n]
    BY Zenon DEF FlattenSeq
  <1>3. f = [i \in 1..n |-> IF i = 1 THEN seqs[i] ELSE f[i - 1] \o seqs[i]]
    <2>1. \E g : g = [i \in 1..n |-> IF i = 1 THEN seqs[i] ELSE g[i - 1] \o seqs[i]]
      BY <1>1, FlattenExists
    <2> HIDE DEF n
    <2> QED
      BY <2>1, Zenon
  <1> HIDE DEF f, n
  <1>4. CASE n = 0
    <2>1. seqs = <<>>
      BY <1>4, EmptySeq DEF n
    <2> QED
      BY <1>2, <1>4, <2>1
  <1>5. CASE n # 0
    <2> DEFINE P == {i \in Nat : i = 0 \/ f[i] \in Seq(S)}
    <2>1. 0 \in P
      OBVIOUS
    <2>2. ASSUME NEW i \in 0..(n - 1), i \in P PROVE i + 1 \in P
      <3>1. i + 1 \in 1..n /\ i + 1 \in Nat
        BY <1>1
      <3>2. f[i + 1] = IF i + 1 = 1 THEN seqs[i + 1] ELSE f[(i + 1) - 1] \o seqs[i + 1]
        BY <1>3, <3>1
      <3>3. f[i + 1] \in Seq(S)
        <4>1. CASE i = 0
          BY <1>1, <3>1, <3>2, <4>1
        <4>2. CASE i # 0
          <5>1. f[i + 1] = f[i] \o seqs[i + 1]
            <6>1. i + 1 # 1 /\ (i + 1) - 1 = i
              BY <4>2
            <6> QED
              BY <3>2, <6>1, Zenon
          <5>2. f[i] \in Seq(S) /\ seqs[i + 1] \in Seq(S)
            BY <1>1, <2>2, <3>1, <4>2
          <5> QED
            BY <5>1, <5>2, ConcatProperties
        <4> QED
          BY <4>1, <4>2
      <3> QED
        BY <3>1, <3>3
    <2> HIDE DEF P
    <2>3. n \in P
      BY <1>1, <2>1, <2>2, Climb
    <2> QED
      BY <1>2, <1>5, <2>3 DEF P
  <1> QED
    BY <1>4, <1>5

\* Grids from several lists of grids.
LEMMA FlattenGood ==
  ASSUME NEW n, NEW more, NEW k \in Nat, NEW gss, DOMAIN gss = 1..k,
         gss = [i \in DOMAIN gss |-> gss[i]],
         \A i \in DOMAIN gss : GoodGrids(gss[i], n, more)
  PROVE  GoodGrids(FlattenSeq(gss), n, more)
  <1> DEFINE S == UNION {Range(gss[i]) : i \in DOMAIN gss}
  <1>1. ASSUME NEW g \in S PROVE GoodGrid(g, n, more)
    <2>1. PICK i \in DOMAIN gss : g \in Range(gss[i])
      OBVIOUS
    <2>2. PICK j \in DOMAIN gss[i] : g = gss[i][j]
      BY <2>1 DEF Range
    <2> QED
      BY <2>2 DEF GoodGrids
  <1>2. \A i \in 1..k : gss[i] \in Seq(S)
    <2> TAKE i \in 1..k
    <2>1. gss[i] \in Seq(Range(gss[i])) /\ Range(gss[i]) \subseteq S
      BY DEF GoodGrids
    <2> HIDE DEF S
    <2> QED
      BY <2>1, SeqMonotonic
  <1> HIDE DEF S
  <1>3. gss \in Seq(Seq(S))
    <2>1. gss \in [1..k -> Seq(S)]
      BY <1>2
    <2> QED
      BY <2>1
  <1>4. FlattenSeq(gss) \in Seq(S)
    BY <1>3, FlattenIn
  <1> QED
    BY <1>1, <1>4, GridsAre

\* The slots of a pattern that are linked are linked to the photos from lo up to before hi.
Linked(g, lo, hi) == \A i \in DOMAIN g : g[i].photo \in lo..(hi - 1)

\* A block of cells.
LEMMA CellsAre ==
  ASSUME NEW x, NEW y, NEW w, NEW h, NEW cols \in Nat, NEW rows \in Nat, NEW p \in Nat
  PROVE  /\ Pattern(Cells(x, y, w, h, cols, rows, FALSE, p))
         /\ Unlinked(Cells(x, y, w, h, cols, rows, FALSE, p))
         /\ p > 0 => /\ Pattern(Cells(x, y, w, h, cols, rows, TRUE, p))
                     /\ Linked(Cells(x, y, w, h, cols, rows, TRUE, p), p, p + cols * rows)
  <1> DEFINE n == cols * rows
             cell(linked, i) ==
               Slot(Plus(x, Times(w, <<(i - 1) % cols, 1>>)),
                    Plus(y, Times(h, <<(i - 1) \div cols, 1>>)),
                    w, h, IF linked THEN p + i - 1 ELSE 0)
             c(linked) == [i \in 1..n |-> cell(linked, i)]
  <1>1. n \in Nat
    OBVIOUS
  <1>2. \A linked : Cells(x, y, w, h, cols, rows, linked, p) = c(linked)
    BY Zenon DEF Cells
  <1>3. \A linked, i : /\ IsSlot(cell(linked, i))
                       /\ cell(linked, i).photo = IF linked THEN p + i - 1 ELSE 0
    BY DEF Slot, IsSlot
  <1> HIDE DEF cell, n
  <1>4. \A linked : c(linked) \in Seq(Range(c(linked))) /\ DOMAIN c(linked) = 1..n
    BY <1>1 DEF Range
  <1>5. \A linked : \A i \in 1..n : c(linked)[i] = cell(linked, i)
    OBVIOUS
  <1> HIDE DEF c
  <1>6. Pattern(c(FALSE)) /\ Unlinked(c(FALSE))
    <2>1. \A i \in 1..n : c(FALSE)[i].photo = 0 /\ IsSlot(c(FALSE)[i])
      BY <1>3, <1>5, ZenonT(30)
    <2> QED
      BY <1>4, <2>1 DEF Pattern, Unlinked, NoPhotoTwice
  <1>7. ASSUME p > 0 PROVE Pattern(c(TRUE)) /\ Linked(c(TRUE), p, p + n)
    <2>1. \A i \in 1..n : c(TRUE)[i].photo = p + i - 1 /\ IsSlot(c(TRUE)[i])
      BY <1>3, <1>5
    <2>2. NoPhotoTwice(c(TRUE))
      <3>1. \A i, j \in 1..n : i # j => p + i - 1 # p + j - 1
        OBVIOUS
      <3> QED
        BY <1>4, <2>1, <3>1 DEF NoPhotoTwice
    <2>3. Linked(c(TRUE), p, p + n)
      <3> SUFFICES ASSUME NEW i \in DOMAIN c(TRUE) PROVE c(TRUE)[i].photo \in p..((p + n) - 1)
        BY DEF Linked
      <3>1. i \in 1..n
        BY <1>4
      <3>2. c(TRUE)[i].photo = p + i - 1
        BY <2>1, <3>1
      <3>3. p + i - 1 \in p..((p + n) - 1)
        BY <1>1, <3>1
      <3> QED
        BY <3>2, <3>3
    <2> QED
      BY <1>4, <2>1, <2>2, <2>3 DEF Pattern
  <1> QED
    BY <1>2, <1>6, <1>7 DEF n

\* One pattern after another.
LEMMA TwoPatterns ==
  ASSUME NEW a, NEW b, Pattern(a), Pattern(b)
  PROVE  /\ Unlinked(b) => Pattern(a \o b)
         /\ \A lo, mid, hi \in Nat :
              lo <= mid /\ mid <= hi /\ Linked(a, lo, mid) /\ Linked(b, mid, hi) =>
                Pattern(a \o b) /\ Linked(a \o b, lo, hi)
  <1> DEFINE S == Range(a) \cup Range(b)
             c == a \o b
  <1>1. a \in Seq(S) /\ b \in Seq(S) /\ NoPhotoTwice(a) /\ NoPhotoTwice(b)
    <2>1. Range(a) \subseteq S /\ Range(b) \subseteq S
      OBVIOUS
    <2> HIDE DEF S
    <2> QED
      BY <2>1, SeqMonotonic DEF Pattern
  <1> HIDE DEF S
  <1>2. ASSUME \A i \in DOMAIN a, j \in DOMAIN b : a[i].photo = 0 \/ a[i].photo # b[j].photo
        PROVE  /\ Pattern(c)
               /\ \A i \in DOMAIN c : \/ \E j \in DOMAIN a : c[i] = a[j]
                                      \/ \E j \in DOMAIN b : c[i] = b[j]
    <2>1. /\ NoPhotoTwice(c) /\ c \in Seq(S)
          /\ \A i \in DOMAIN c : \/ \E j \in DOMAIN a : c[i] = a[j]
                                 \/ \E j \in DOMAIN b : c[i] = b[j]
      BY <1>1, <1>2, Joined
    <2> HIDE DEF c
    <2>2. c \in Seq(Range(c))
      BY <2>1, Members
    <2>3. \A i \in DOMAIN c : IsSlot(c[i])
      BY <2>1 DEF Pattern
    <2> QED
      BY <2>1, <2>2, <2>3 DEF Pattern
  <1> HIDE DEF c
  <1>3. Unlinked(b) => Pattern(c)
    BY <1>2 DEF Unlinked
  <1>4. ASSUME NEW lo \in Nat, NEW mid \in Nat, NEW hi \in Nat, lo <= mid, mid <= hi,
               Linked(a, lo, mid), Linked(b, mid, hi)
        PROVE  Pattern(c) /\ Linked(c, lo, hi)
    <2>1. \A i \in DOMAIN a : a[i].photo \in lo..(mid - 1)
      BY <1>4 DEF Linked
    <2>2. \A i \in DOMAIN b : b[i].photo \in mid..(hi - 1)
      BY <1>4 DEF Linked
    <2>3. \A i \in DOMAIN a, j \in DOMAIN b : a[i].photo # b[j].photo
      BY <2>1, <2>2
    <2>4. /\ \A i \in DOMAIN a : a[i].photo \in lo..(hi - 1)
          /\ \A i \in DOMAIN b : b[i].photo \in lo..(hi - 1)
      BY <1>4, <2>1, <2>2
    <2> QED
      BY <1>2, <2>3, <2>4 DEF Linked
  <1> QED
    BY <1>3, <1>4 DEF c

\* A pattern that begins with one slot.
LEMMA FirstSlot ==
  ASSUME NEW x, NEW y, NEW w, NEW h, NEW p
  PROVE  /\ Pattern(<<Slot(x, y, w, h, p)>>)
         /\ p = 1 => Linked(<<Slot(x, y, w, h, p)>>, 1, 2)
  <1> DEFINE s == Slot(x, y, w, h, p)
             g == <<s>>
  <1>1. IsSlot(s) /\ s.photo = p
    BY DEF IsSlot, Slot
  <1> HIDE DEF s
  <1>2. g \in Seq({s}) /\ DOMAIN g = {1} /\ g[1] = s
    OBVIOUS
  <1> HIDE DEF g
  <1>3. g \in Seq(Range(g))
    BY <1>2, Members
  <1>4. Pattern(g)
    BY <1>1, <1>2, <1>3 DEF Pattern, NoPhotoTwice
  <1>5. p = 1 => Linked(g, 1, 2)
    BY <1>1, <1>2 DEF Linked
  <1> QED
    BY <1>4, <1>5 DEF g, s

\* The whole part of a square root is a number.
LEMMA RootIs ==
  ASSUME NEW n \in Nat
  PROVE  Root(n) \in Nat
  <1> DEFINE T == {r \in 0..n : r * r <= n}
  <1>1. T \in SUBSET (0..n) /\ 0 \in T
    OBVIOUS
  <1> HIDE DEF T
  <1>2. Max(T) \in T
    BY <1>1, MaxIsIn
  <1>3. Max(T) \in 0..n
    BY <1>1, <1>2
  <1>4. Root(n) = Max(T)
    BY Zenon DEF Root, T
  <1> QED
    BY <1>3, <1>4

\* equal: the grids of equal slots.
LEMMA EqualGood ==
  ASSUME NEW m \in Nat, NEW more
  PROVE  GoodGrids(EqualGrids(m, more), m, more)
  <1> DEFINE n == SlotNum(m, 2, more)
             exact == {c \in 1..maxCols : n % c = 0 /\ n \div c <= maxCols}
             fits(c) == Kept(ByColsRows(c, n \div c), n)
             k == Root(n)
             all == [i \in 1..maxCols |->
                       LET c == maxCols + 1 - i IN IF c \in exact THEN fits(c) ELSE <<>>]
  <1>1. EqualGrids(m, more) =
          IF n = 0 THEN <<>>
          ELSE IF exact # {} THEN FlattenSeq(all)
          ELSE IF n - k * k < k * (k + 1) - n THEN Kept(ByColsRows(k, k), n)
          ELSE Kept(ByColsRows(k, k + 1), n) \o Kept(ByColsRows(k + 1, k), n)
    BY Zenon DEF EqualGrids
  <1>2. n # 0 => n \in Nat /\ n >= m /\ (n > m => more)
    BY SlotNumIs
  <1> HIDE DEF n
  <1>3. GoodGrids(<<>>, m, more)
    <2> DEFINE gs == <<>>
    <2>1. gs \in Seq({}) /\ \A g \in {} : GoodGrid(g, m, more)
      OBVIOUS
    <2> HIDE DEF gs
    <2>2. GoodGrids(gs, m, more)
      BY <2>1, GridsAre
    <2> QED
      BY <2>2 DEF gs
  <1>4. ASSUME n # 0, NEW cols \in Nat, NEW rows \in Nat
        PROVE  GoodGrids(Kept(ByColsRows(cols, rows), n), m, more)
    <2>1. Pattern(ByColsRows(cols, rows))
      <3> DEFINE w == Frac(1, cols)
                 h == Frac(1, rows)
      <3>1. \A p \in Nat : p > 0 => Pattern(Cells(Zero, Zero, w, h, cols, rows, TRUE, p))
        <4> HIDE DEF w, h
        <4> QED
          BY CellsAre, Zenon
      <3>2. 1 \in Nat /\ 1 > 0
        OBVIOUS
      <3> QED
        BY <3>1, <3>2, Zenon DEF ByColsRows
    <2> QED
      BY <1>2, <1>4, <2>1, KeptGood
  <1>5. n # 0 => k \in Nat
    BY <1>2, RootIs
  <1>6. ASSUME n # 0 PROVE GoodGrids(FlattenSeq(all), m, more)
    <2>1. DOMAIN all = 1..5 /\ all = [i \in DOMAIN all |-> all[i]]
      BY DEF maxCols
    <2>2. ASSUME NEW i \in 1..5 PROVE GoodGrids(all[i], m, more)
      <3> DEFINE c == maxCols + 1 - i
      <3>1. c \in Nat
        BY DEF maxCols
      <3>2. all[i] = IF c \in exact THEN fits(c) ELSE <<>>
        BY Zenon DEF maxCols
      <3> HIDE DEF c
      <3>3. c \in exact => n \div c \in Nat
        BY <1>2, <1>6
      <3>4. c \in exact => GoodGrids(fits(c), m, more)
        BY <1>4, <1>6, <3>1, <3>3
      <3> QED
        BY <1>3, <3>2, <3>4
    <2> HIDE DEF all
    <2> QED
      BY <2>1, <2>2, FlattenGood
  <1> HIDE DEF exact, all, k
  <1>7. CASE n # 0
    <2>1. k \in Nat /\ k + 1 \in Nat
      BY <1>5, <1>7
    <2>2. /\ GoodGrids(Kept(ByColsRows(k, k), n), m, more)
          /\ GoodGrids(Kept(ByColsRows(k, k + 1), n), m, more)
          /\ GoodGrids(Kept(ByColsRows(k + 1, k), n), m, more)
      BY <1>4, <1>7, <2>1
    <2>3. GoodGrids(Kept(ByColsRows(k, k + 1), n) \o Kept(ByColsRows(k + 1, k), n), m, more)
      BY <2>2, MoreGrids
    <2> QED
      BY <1>1, <1>6, <1>7, <2>2, <2>3
  <1> QED
    BY <1>1, <1>3, <1>7

\* A pattern without photos from several blocks of cells.
LEMMA FlattenUnlinked ==
  ASSUME NEW k \in Nat, NEW gs, DOMAIN gs = 1..k, gs = [i \in DOMAIN gs |-> gs[i]],
         \A i \in 1..k : Pattern(gs[i]) /\ Unlinked(gs[i])
  PROVE  Pattern(FlattenSeq(gs)) /\ Unlinked(FlattenSeq(gs))
  <1> DEFINE S == UNION {Range(gs[i]) : i \in DOMAIN gs}
             f == FlattenSeq(gs)
  <1>1. ASSUME NEW s \in S PROVE IsSlot(s) /\ s.photo = 0
    <2>1. PICK i \in DOMAIN gs : s \in Range(gs[i])
      OBVIOUS
    <2>2. PICK j \in DOMAIN gs[i] : s = gs[i][j]
      BY <2>1 DEF Range
    <2> QED
      BY <2>2 DEF Pattern, Unlinked
  <1>2. \A i \in 1..k : gs[i] \in Seq(S)
    <2> TAKE i \in 1..k
    <2>1. gs[i] \in Seq(Range(gs[i])) /\ Range(gs[i]) \subseteq S
      BY DEF Pattern
    <2> HIDE DEF S
    <2> QED
      BY <2>1, SeqMonotonic
  <1> HIDE DEF S
  <1>3. gs \in Seq(Seq(S))
    <2>1. gs \in [1..k -> Seq(S)]
      BY <1>2
    <2> QED
      BY <2>1
  <1>4. f \in Seq(S)
    BY <1>3, FlattenIn
  <1> HIDE DEF f
  <1>5. f \in Seq(Range(f)) /\ \A i \in DOMAIN f : f[i] \in S
    BY <1>4, Members
  <1>6. Pattern(f) /\ Unlinked(f)
    BY <1>1, <1>5 DEF Pattern, Unlinked, NoPhotoTwice
  <1> QED
    BY <1>6 DEF f

\* A side of the frame around the big slot, cut into slots.
LEMMA DividedIs ==
  ASSUME NEW s, NEW each \in Nat
  PROVE  Pattern(Divided(s, each)) /\ Unlinked(Divided(s, each))
  <1>1. \A x, y, w, h : \A cols, rows, p \in Nat :
          /\ Pattern(Cells(x, y, w, h, cols, rows, FALSE, p))
          /\ Unlinked(Cells(x, y, w, h, cols, rows, FALSE, p))
    BY CellsAre, Zenon
  <1>2. 0 \in Nat /\ 1 \in Nat
    OBVIOUS
  <1>3. /\ Pattern(Cells(s.x, s.y, Over(s.w, <<each, 1>>), s.h, each, 1, FALSE, 0))
        /\ Unlinked(Cells(s.x, s.y, Over(s.w, <<each, 1>>), s.h, each, 1, FALSE, 0))
    BY <1>1, <1>2, Zenon
  <1>4. /\ Pattern(Cells(s.x, s.y, s.w, Over(s.h, <<each, 1>>), 1, each, FALSE, 0))
        /\ Unlinked(Cells(s.x, s.y, s.w, Over(s.h, <<each, 1>>), 1, each, FALSE, 0))
    BY <1>1, <1>2, Zenon
  <1> QED
    BY <1>3, <1>4, Zenon DEF Divided

\* No grid at all.
LEMMA NoGrids ==
  ASSUME NEW m, NEW more
  PROVE  GoodGrids(<<>>, m, more)
  <1> DEFINE gs == <<>>
  <1>1. gs \in Seq({}) /\ \A g \in {} : GoodGrid(g, m, more)
    OBVIOUS
  <1> HIDE DEF gs
  <1>2. GoodGrids(gs, m, more)
    BY <1>1, GridsAre
  <1> QED
    BY <1>2 DEF gs

\* bigCenter: four sides around one big slot, none of them linked.
LEMMA BigCenterGood ==
  ASSUME NEW m \in Nat, NEW more
  PROVE  GoodGrids(BigCenterGrids(m, more), m, more)
  <1> DEFINE n == SlotNum(m, 5, more)
             q == <<1, 4>>
             tq == <<3, 4>>
             sides == << Slot(tq, q, q, tq, 0), Slot(Zero, Zero, q, tq, 0),
                         Slot(q, Zero, tq, q, 0), Slot(Zero, tq, tq, q, 0) >>
             each == (n - 1) \div 4
             blocks == [i \in 1..4 |-> Divided(sides[i], each)]
             centre == <<Slot(q, q, <<1, 2>>, <<1, 2>>, 0)>>
  <1>1. BigCenterGrids(m, more) =
          IF n = 0 THEN <<>> ELSE Kept(centre \o FlattenSeq(blocks), n)
    BY Zenon DEF BigCenterGrids
  <1>2. n # 0 => n \in Nat /\ n >= m /\ n >= 5 /\ (n > m => more)
    BY SlotNumIs
  <1>3. Pattern(centre)
    BY FirstSlot, Zenon
  <1> HIDE DEF n, sides, centre
  <1>4. n # 0 => each \in Nat
    BY <1>2
  <1> HIDE DEF each
  <1>5. CASE n # 0
    <2>1. \A i \in 1..4 : Pattern(blocks[i]) /\ Unlinked(blocks[i])
      BY <1>4, <1>5, DividedIs
    <2>2. DOMAIN blocks = 1..4 /\ blocks = [i \in DOMAIN blocks |-> blocks[i]]
      OBVIOUS
    <2> HIDE DEF blocks
    <2>3. Pattern(FlattenSeq(blocks)) /\ Unlinked(FlattenSeq(blocks))
      BY <2>1, <2>2, FlattenUnlinked
    <2>4. Pattern(centre \o FlattenSeq(blocks))
      BY <1>3, <2>3, TwoPatterns
    <2>5. GoodGrids(Kept(centre \o FlattenSeq(blocks), n), m, more)
      BY <1>2, <1>5, <2>4, KeptGood
    <2> QED
      BY <1>1, <1>5, <2>5
  <1> QED
    BY <1>1, <1>5, NoGrids

\* bigTop: a square of slots below a big one, none of them linked.
LEMMA BigTopGood ==
  ASSUME NEW m \in Nat, NEW more
  PROVE  GoodGrids(BigTopGrids(m, more), m, more)
  <1> DEFINE n == SlotNum(m, 2, more)
             k == Root(n)
             top == <<3, 8>>
             first == <<Slot(Zero, Zero, One, top, 0)>>
             rest == Cells(Zero, top, Frac(1, k), Frac(5, 8 * k), k, k, FALSE, 0)
  <1>1. BigTopGrids(m, more) = IF n = 0 THEN <<>> ELSE Kept(first \o rest, n)
    BY Zenon DEF BigTopGrids
  <1>2. n # 0 => n \in Nat /\ n >= m /\ (n > m => more)
    BY SlotNumIs
  <1>3. Pattern(first)
    BY FirstSlot, Zenon
  <1> HIDE DEF n, first
  <1>4. CASE n # 0
    <2>1. k \in Nat
      BY <1>2, <1>4, RootIs
    <2> HIDE DEF k
    <2>2. Pattern(rest) /\ Unlinked(rest)
      <3>1. 0 \in Nat
        OBVIOUS
      <3>2. \A x, y, w, h : \A cols, rows, p \in Nat :
              /\ Pattern(Cells(x, y, w, h, cols, rows, FALSE, p))
              /\ Unlinked(Cells(x, y, w, h, cols, rows, FALSE, p))
        BY CellsAre, Zenon
      <3> QED
        BY <2>1, <3>1, <3>2, Zenon
    <2> HIDE DEF rest
    <2>3. Pattern(first \o rest)
      BY <1>3, <2>2, TwoPatterns
    <2>4. GoodGrids(Kept(first \o rest, n), m, more)
      BY <1>2, <1>4, <2>3, KeptGood
    <2> QED
      BY <1>1, <1>4, <2>4
  <1> QED
    BY <1>1, <1>4, NoGrids

\* A rounded square root is a number: no square root is half-way between two.
LEMMA RoundRootIs ==
  ASSUME NEW n \in Nat
  PROVE  RoundRoot(n) \in 0..n
  <1> DEFINE T == {r \in Nat : (2 * r + 1) * (2 * r + 1) > 4 * n}
  <1>1. n \in T
    <2>1. n * n \in Nat /\ (2 * n + 1) * (2 * n + 1) = 4 * (n * n) + 4 * n + 1
      OBVIOUS
    <2> QED
      BY <2>1
  <1>2. PICK r \in T : \A k \in T : r <= k
    <2>1. T \in SUBSET Nat /\ T # {}
      BY <1>1
    <2> HIDE DEF T
    <2> QED
      BY <2>1, Least
  <1>3. r \in 0..n
    BY <1>1, <1>2
  <1>4. ASSUME r > 0 PROVE (2 * r - 1) * (2 * r - 1) < 4 * n
    <2>1. r - 1 \in Nat /\ ~(r <= r - 1)
      BY <1>3, <1>4
    <2>2. r - 1 \notin T
      BY <1>2, <2>1
    <2>3. ~((2 * (r - 1) + 1) * (2 * (r - 1) + 1) > 4 * n)
      BY <2>1, <2>2
    <2>4. 2 * (r - 1) + 1 = 2 * r - 1
      BY <1>3
    <2>5. PICK s \in Int : s = r * r
      BY <1>3
    <2>6. (2 * r - 1) * (2 * r - 1) = 4 * s - 4 * r + 1
      BY <1>3, <2>5
    <2>7. ~(4 * s - 4 * r + 1 > 4 * n)
      BY <2>3, <2>4, <2>6
    <2>8. 4 * s - 4 * r + 1 < 4 * n
      BY <1>3, <2>5, <2>7
    <2> QED
      BY <2>6, <2>8
  <1>5. r \in 0..n /\ (2 * r + 1) * (2 * r + 1) > 4 * n
        /\ (r > 0 => (2 * r - 1) * (2 * r - 1) < 4 * n)
    BY <1>2, <1>3, <1>4
  <1> QED
    BY <1>5, Zenon DEF RoundRoot

\* Some pair is the first one of the search.
LEMMA FirstPairIs ==
  ASSUME NEW k \in Nat, NEW pairs, pairs # {},
         \A b \in pairs : /\ b.col \in 0..k /\ b.row \in 0..k
                          /\ b.col2 \in 0..k /\ b.row2 \in 0..k
  PROVE  FirstPair(pairs) \in pairs
  <1>1. PICK a1 \in pairs : \A b \in pairs : b.col <= a1.col
    <2> DEFINE T == {b.col : b \in pairs}
    <2>1. T \in SUBSET (0..k) /\ T # {}
      OBVIOUS
    <2>2. \A b \in pairs : b.col \in T
      OBVIOUS
    <2>3. PICK a \in pairs : a.col = Max(T)
      <3>1. Max(T) \in T
        <4> HIDE DEF T
        <4> QED
          BY <2>1, MaxIsIn
      <3> QED
        BY <3>1
    <2> HIDE DEF T
    <2>4. \A c \in T : c <= Max(T)
      BY <2>1, MaxIsIn
    <2> QED
      BY <2>2, <2>3, <2>4
  <1> DEFINE A == {b \in pairs : b.col = a1.col}
  <1>2. PICK a2 \in A : \A b \in A : a2.row <= b.row
    <2> DEFINE T == {b.row : b \in A}
    <2>1. T \in SUBSET Nat /\ T # {}
      OBVIOUS
    <2>2. PICK m \in T : \A c \in T : m <= c
      <3> HIDE DEF T
      <3> QED
        BY <2>1, Least
    <2>3. PICK a \in A : a.row = m
      BY <2>2
    <2>4. \A b \in A : b.row \in T
      OBVIOUS
    <2> HIDE DEF T, A
    <2> QED
      BY <2>2, <2>3, <2>4
  <1> DEFINE B == {b \in A : b.row = a2.row}
  <1>3. PICK a3 \in B : \A b \in B : b.col2 <= a3.col2
    <2> DEFINE T == {b.col2 : b \in B}
    <2>1. T \in SUBSET (0..k) /\ T # {}
      OBVIOUS
    <2>2. \A b \in B : b.col2 \in T
      OBVIOUS
    <2>3. PICK a \in B : a.col2 = Max(T)
      <3>1. Max(T) \in T
        <4> HIDE DEF T
        <4> QED
          BY <2>1, MaxIsIn
      <3> HIDE DEF B
      <3> QED
        BY <3>1
    <2> HIDE DEF T, B
    <2>4. \A c \in T : c <= Max(T)
      BY <2>1, MaxIsIn
    <2> QED
      BY <2>2, <2>3, <2>4
  <1> DEFINE C == {b \in B : b.col2 = a3.col2}
  <1>4. PICK a4 \in C : \A b \in C : a4.row2 <= b.row2
    <2> DEFINE T == {b.row2 : b \in C}
    <2>1. T \in SUBSET Nat /\ T # {}
      OBVIOUS
    <2>2. PICK m \in T : \A c \in T : m <= c
      <3> HIDE DEF T
      <3> QED
        BY <2>1, Least
    <2>3. PICK a \in C : a.row2 = m
      <3> HIDE DEF C
      <3> QED
        BY <2>2
    <2>4. \A b \in C : b.row2 \in T
      OBVIOUS
    <2> HIDE DEF T, C
    <2> QED
      BY <2>2, <2>3, <2>4
  <1>5. ASSUME NEW b \in pairs PROVE Earlier(a4, b)
    <2>1. a4 \in pairs /\ a4.col = a1.col /\ a4.row = a2.row /\ a4.col2 = a3.col2
      OBVIOUS
    <2>2. CASE b.col # a1.col
      <3>1. b.col < a4.col
        BY <1>1, <2>1, <2>2
      <3> QED
        BY <3>1 DEF Earlier
    <2>3. CASE b.col = a1.col /\ b.row # a2.row
      <3>1. a2.row <= b.row
        BY <1>2, <2>3
      <3>2. a4.row < b.row /\ a4.col = b.col
        BY <2>1, <2>3, <3>1
      <3> QED
        BY <3>2 DEF Earlier
    <2>4. CASE b.col = a1.col /\ b.row = a2.row /\ b.col2 # a3.col2
      <3>1. b.col2 <= a3.col2
        BY <1>3, <2>4
      <3>2. b.col2 < a4.col2 /\ a4.col = b.col /\ a4.row = b.row
        BY <2>1, <2>4, <3>1
      <3> QED
        BY <3>2 DEF Earlier
    <2>5. CASE b.col = a1.col /\ b.row = a2.row /\ b.col2 = a3.col2
      <3>1. a4.row2 <= b.row2
        BY <1>4, <2>5
      <3> QED
        BY <2>1, <2>5, <3>1 DEF Earlier
    <2> QED
      BY <2>2, <2>3, <2>4, <2>5
  <1>6. a4 \in pairs /\ \A b \in pairs : Earlier(a4, b)
    BY <1>5
  <1> QED
    BY <1>6, Zenon DEF FirstPair

\* The pair the search finds for n slots is one of the splits it visits, of fewer than n.
LEMMA FoundPairIs ==
  ASSUME NEW n \in Nat, n >= 3
  PROVE  LET f == FoundPair(n, RoundRoot(n) + 1) IN
         /\ f.row \in Nat \ {0} /\ f.col \in Nat \ {0} /\ f.row2 \in Nat \ {0} /\ f.col2 \in Nat \ {0}
         /\ f.row * f.col + f.row2 * f.col2 < n
  <1> DEFINE max == RoundRoot(n) + 1
             M == {m \in 1..n - 1 : BlockPairs(m, max) # {}}
             m == Max(M)
             pairs == BlockPairs(m, max)
             f == FirstPair(pairs)
  <1>1. FoundPair(n, RoundRoot(n) + 1) = f
    BY Zenon DEF FoundPair
  <1>2. RoundRoot(n) \in 0..n /\ max \in 1..(n + 1)
    BY RoundRootIs
  <1> HIDE DEF max
  <1>3. 2 \in M
    <2> DEFINE b == [row |-> 1, col |-> 1, row2 |-> 1, col2 |-> 1]
    <2>1. LeastRows(2) = 1 /\ LeastRows(1) = 1
      BY DEF LeastRows
    <2>2. b \in [row : 1..2, col : 1..max, row2 : 1..2, col2 : 1..2]
      BY <1>2
    <2>3. RoundRoot(1) \in 0..1
      <3>1. 1 \in Nat
        OBVIOUS
      <3> QED
        BY <3>1, RoundRootIs
    <2>4. b.row = 1 /\ b.col = 1 /\ b.row2 = 1 /\ b.col2 = 1 /\ 2 - 1 * 1 = 1
      OBVIOUS
    <2> HIDE DEF b
    <2>5. LET v == 2 - b.row * b.col
          IN /\ v > 0 /\ b.row >= LeastRows(2) /\ b.row2 >= LeastRows(v)
             /\ b.col2 <= RoundRoot(v) + 1 /\ v = b.row2 * b.col2
      BY <2>1, <2>3, <2>4
    <2>6. b \in BlockPairs(2, max)
      BY <2>2, <2>5 DEF BlockPairs
    <2>7. 2 \in 1..n - 1
      OBVIOUS
    <2> QED
      BY <2>6, <2>7
  <1>4. m \in M
    <2>1. M \in SUBSET (0..n) /\ M # {}
      BY <1>3
    <2> HIDE DEF M
    <2> QED
      BY <2>1, MaxIsIn
  <1>5. m \in 1..n - 1 /\ pairs # {}
    BY <1>4
  <1> HIDE DEF m
  <1>6. \A b \in pairs : b \in [row : 1..2, col : 1..max, row2 : 1..2, col2 : 1..m]
    BY DEF BlockPairs
  <1>7. \A b \in pairs : /\ b.col \in 0..(n + 1) /\ b.row \in 0..(n + 1)
                         /\ b.col2 \in 0..(n + 1) /\ b.row2 \in 0..(n + 1)
    <2> TAKE b \in pairs
    <2>1. b \in [row : 1..2, col : 1..max, row2 : 1..2, col2 : 1..m]
      BY <1>6
    <2> HIDE DEF pairs
    <2>2. b.row \in 1..2 /\ b.col \in 1..max /\ b.row2 \in 1..2 /\ b.col2 \in 1..m
      BY <2>1
    <2> QED
      BY <1>2, <1>5, <2>2
  <1> HIDE DEF pairs
  <1>8. f \in pairs
    <2>1. n + 1 \in Nat
      OBVIOUS
    <2> QED
      BY <1>5, <1>7, <2>1, FirstPairIs
  <1>9. m - f.row * f.col = f.row2 * f.col2 /\ f \in [row : 1..2, col : 1..max, row2 : 1..2, col2 : 1..m]
    <2>1. \A b \in pairs : m - b.row * b.col = b.row2 * b.col2
      BY DEF pairs, BlockPairs
    <2> HIDE DEF f
    <2> QED
      BY <1>6, <1>8, <2>1
  <1> HIDE DEF f
  <1>10. f.row \in 1..2 /\ f.col \in 1..max /\ f.row2 \in 1..2 /\ f.col2 \in 1..m
    BY <1>9
  <1>11. /\ f.row \in Nat \ {0} /\ f.col \in Nat \ {0} /\ f.row2 \in Nat \ {0} /\ f.col2 \in Nat \ {0}
    BY <1>10
  <1>12. f.row * f.col + f.row2 * f.col2 < n
    <2> DEFINE u == f.row * f.col
               v == f.row2 * f.col2
    <2>1. u \in Int /\ v \in Int
      BY <1>11
    <2>2. m - u = v /\ m < n /\ m \in Int
      BY <1>5, <1>9
    <2> HIDE DEF u, v
    <2> QED
      BY <2>1, <2>2 DEF u, v
  <1> QED
    BY <1>1, <1>11, <1>12

\* bigLeftTop: the photos in order, the first one in the big slot.
LEMMA BigLeftTopGood ==
  ASSUME NEW m \in Nat, NEW more
  PROVE  GoodGrids(BigLeftTopGrids(m, more), m, more)
  <1> DEFINE n == SlotNum(m, 3, more)
             f == FoundPair(n, RoundRoot(n) + 1)
             frame == LeftTopFrame(Blocks(f))
  <1>1. BigLeftTopGrids(m, more) = IF n = 0 THEN <<>> ELSE Kept(frame, n)
    BY Zenon DEF BigLeftTopGrids
  <1>2. n # 0 => n \in Nat /\ n >= m /\ n >= 3 /\ (n > m => more)
    BY SlotNumIs
  <1> HIDE DEF n
  <1>3. CASE n # 0
    <2>1. f.row \in Nat /\ f.col \in Nat /\ f.row2 \in Nat /\ f.col2 \in Nat
      BY <1>2, <1>3, FoundPairIs
    <2> HIDE DEF f
    <2> DEFINE b == Blocks(f).bottom
               r == Blocks(f).right
    <2>2. b[1] \in Nat /\ b[2] \in Nat /\ r[1] \in Nat /\ r[2] \in Nat
      BY <2>1 DEF Blocks, Upright
    <2> HIDE DEF b, r
    <2>3. ASSUME NEW w, NEW h, NEW bw, NEW bh PROVE Pattern(FrameSlots(b, r, w, h, bw, bh))
      <3> DEFINE sw == Smaller(Over(Minus(One, w), <<r[2], 1>>), Times(bw, <<r[2], 1>>))
                 sh == Over(Minus(One, Times(bh, <<b[1], 1>>)), <<r[1], 1>>)
                 p == 2 + b[1] * b[2]
                 s1 == <<Slot(Zero, Zero, w, h, 1)>>
                 s2 == Cells(Zero, h, bw, bh, b[2], b[1], TRUE, 2)
                 s3 == Cells(w, Zero, sw, sh, r[2], r[1], TRUE, p)
      <3>1. FrameSlots(b, r, w, h, bw, bh) = (s1 \o s2) \o s3
        BY Zenon DEF FrameSlots
      <3>2. Pattern(s1) /\ Linked(s1, 1, 2)
        BY FirstSlot, Zenon
      <3>3. \A x, y, u, v : \A cols, rows, k \in Nat :
              k > 0 => /\ Pattern(Cells(x, y, u, v, cols, rows, TRUE, k))
                       /\ Linked(Cells(x, y, u, v, cols, rows, TRUE, k), k, k + cols * rows)
        BY CellsAre, ZenonT(30)
      <3>4. 2 \in Nat /\ 2 > 0 /\ 1 \in Nat /\ 1 <= 2
        OBVIOUS
      <3>5. Pattern(s2) /\ Linked(s2, 2, 2 + b[2] * b[1])
        BY <2>2, <3>3, <3>4, Zenon
      <3>6. p \in Nat /\ p > 0 /\ 2 <= p /\ 2 + b[2] * b[1] = p
        BY <2>2
      <3>7. Linked(s2, 2, p)
        BY <3>5, <3>6, Zenon
      <3> HIDE DEF s1, s2, sw, sh, p
      <3>8. Pattern(s3) /\ Linked(s3, p, p + r[2] * r[1])
        BY <2>2, <3>3, <3>6, Zenon
      <3> DEFINE e == p + r[2] * r[1]
      <3>9. e \in Nat /\ p <= e
        BY <2>2, <3>6
      <3>10. Linked(s3, p, e)
        BY <3>8
      <3> HIDE DEF s3, e
      <3>11. Pattern(s1 \o s2) /\ Linked(s1 \o s2, 1, p)
        BY <3>2, <3>4, <3>5, <3>6, <3>7, TwoPatterns
      <3>12. Pattern((s1 \o s2) \o s3)
        <4> DEFINE d == s1 \o s2
        <4>1. Pattern(d) /\ Linked(d, 1, p) /\ 1 <= p
          BY <3>6, <3>11
        <4> HIDE DEF d
        <4>2. Pattern(d \o s3)
          BY <3>4, <3>6, <3>8, <3>9, <3>10, <4>1, TwoPatterns
        <4> QED
          BY <4>2 DEF d
      <3> QED
        BY <3>1, <3>12
    <2>4. Pattern(frame)
      BY <2>3, Zenon DEF LeftTopFrame, SizedFrame, b, r
    <2> HIDE DEF frame
    <2>5. GoodGrids(Kept(frame, n), m, more)
      BY <1>2, <1>3, <2>4, KeptGood
    <2> QED
      BY <1>1, <1>3, <2>5
  <1> QED
    BY <1>1, <1>3, NoGrids

-----------------------------------------------------------------------------
(*****************************************************************************)
(* The tree under construction                                               *)
(*****************************************************************************)

\* The nodes of the calls still to make.
Waiting == {todo[k].node : k \in DOMAIN todo}

\* The shape of the tree under construction: its nodes are bounded, only nodes with a cut
\* have children, and they have both, made or to be made.
BranchInv ==
  /\ \E b \in Nat : \A n \in DOMAIN tree : n <= b
  /\ \A n \in DOMAIN tree : n # 1 => ~IsLeaf(tree, n \div 2)
  /\ \A n \in Waiting : n # 1 => ~IsLeaf(tree, n \div 2)
  /\ \A n \in DOMAIN tree \ Leaves(tree) :
       {2 * n, 2 * n + 1} \subseteq DOMAIN tree \cup Waiting

\* A call makes a leaf, or a node with a cut and its two children or the calls for them.
LEMMA PlaceBranch ==
  ASSUME TypeOK, ShapeInv, BranchInv, todo # <<>>, NEW nodes, NEW calls, NEW left, Fresh(nodes),
         Place(nodes, calls, left), NEW c, c = Head(todo).node,
         Waiting \subseteq Waiting' \cup {c},
         IsLeaf(nodes, c) => DOMAIN nodes = {c} /\ Waiting' \subseteq Waiting,
         ~IsLeaf(nodes, c) => /\ {2 * c, 2 * c + 1} \subseteq DOMAIN nodes \cup Waiting'
                              /\ Waiting' \subseteq Waiting \cup {2 * c, 2 * c + 1},
         \A n \in DOMAIN nodes : n # c => IsLeaf(nodes, n)
  PROVE  BranchInv'
  <1>1. /\ DOMAIN tree' = DOMAIN tree \cup DOMAIN nodes
        /\ \A n \in DOMAIN tree : tree'[n] = tree[n]
        /\ \A n \in DOMAIN nodes : tree'[n] = nodes[n]
        /\ Leaves(tree)' = Leaves(tree) \cup Leaves(nodes)
    BY PlacedTree
  <1>2. /\ c \in Nat \ {0} /\ c \notin DOMAIN tree
        /\ (2 * c) \div 2 = c /\ (2 * c + 1) \div 2 = c
    <2>1. c \in Nat \ {0} /\ c \notin DOMAIN tree
      BY FreshNodes
    <2> QED
      BY <2>1
  <1>3. /\ c \in DOMAIN nodes /\ DOMAIN nodes \subseteq {c, 2 * c, 2 * c + 1}
        /\ c \in DOMAIN tree'
    BY <1>1 DEF Fresh
  <1>4. /\ \A n \in DOMAIN tree : n \in Nat \ {0}
        /\ \A n \in DOMAIN tree : n # 1 => n \div 2 \in DOMAIN tree
        /\ \A n \in Waiting : n # 1 => n \div 2 \in DOMAIN tree
    BY DEF TypeOK, ShapeInv, Waiting
  <1>5. c \in Waiting
    BY PoolLen DEF Waiting
  <1>6. \A n \in DOMAIN tree : IsLeaf(tree', n) <=> IsLeaf(tree, n)
    BY <1>1 DEF IsLeaf
  <1>7. \A n \in DOMAIN nodes : IsLeaf(tree', n) <=> IsLeaf(nodes, n)
    BY <1>1 DEF IsLeaf
  <1>8. \E b \in Nat : \A n \in DOMAIN tree' : n <= b
    <2>1. PICK b \in Nat : \A n \in DOMAIN tree : n <= b
      BY DEF BranchInv
    <2>2. b + 2 * c + 1 \in Nat
      BY <1>2, SMTT(30)
    <2>3. ASSUME NEW n \in DOMAIN tree' PROVE n <= b + 2 * c + 1
      <3>1. CASE n \in DOMAIN tree
        <4>1. n \in Nat /\ n <= b
          BY <1>4, <2>1, <3>1
        <4> QED
          BY <1>2, <2>1, <4>1
      <3>2. CASE n \in {c, 2 * c, 2 * c + 1}
        <4>1. c <= b + 2 * c + 1 /\ 2 * c <= b + 2 * c + 1 /\ 2 * c + 1 <= b + 2 * c + 1
          <5>1. c \in Nat /\ b \in Nat
            BY <1>2, <2>1
          <5> QED
            BY <5>1
        <4> QED
          BY <3>2, <4>1
      <3> QED
        BY <1>1, <1>3, <3>1, <3>2
    <2> QED
      BY <2>2, <2>3
  <1>9. ASSUME NEW n \in DOMAIN tree', n # 1 PROVE ~IsLeaf(tree', n \div 2)
    <2>1. CASE n \in DOMAIN tree \cup {c}
      BY <1>4, <1>5, <1>6, <1>9, <2>1 DEF BranchInv
    <2>2. CASE n \in DOMAIN nodes /\ n # c
      <3>1. n \div 2 = c /\ ~IsLeaf(nodes, c)
        BY <1>2, <1>3, <2>2
      <3> QED
        BY <1>3, <1>7, <3>1
    <2> QED
      BY <1>1, <2>1, <2>2
  <1>10. ASSUME NEW n \in Waiting', n # 1 PROVE ~IsLeaf(tree', n \div 2)
    <2>1. CASE n \in Waiting
      BY <1>4, <1>6, <1>10, <2>1 DEF BranchInv
    <2>2. CASE n \notin Waiting
      <3>1. n \div 2 = c /\ ~IsLeaf(nodes, c)
        BY <1>2, <2>2
      <3> QED
        BY <1>3, <1>7, <3>1
    <2> QED
      BY <2>1, <2>2
  <1>11. ASSUME NEW n \in DOMAIN tree' \ Leaves(tree)'
         PROVE  {2 * n, 2 * n + 1} \subseteq DOMAIN tree' \cup Waiting'
    <2>1. CASE n \in DOMAIN tree
      <3>1. n \in DOMAIN tree \ Leaves(tree)
        BY <1>1, <2>1
      <3>2. {2 * n, 2 * n + 1} \subseteq DOMAIN tree \cup Waiting
        BY <3>1 DEF BranchInv
      <3> QED
        BY <1>1, <1>3, <3>2
    <2>2. CASE n \in DOMAIN nodes
      <3>1. ~IsLeaf(nodes, n)
        BY <1>1, <2>2 DEF Leaves
      <3>2. n = c
        BY <2>2, <3>1
      <3> QED
        BY <1>1, <3>1, <3>2
    <2> QED
      BY <1>1, <2>1, <2>2
  <1> QED
    BY <1>8, <1>9, <1>10, <1>11 DEF BranchInv

\* The calls that wait after one was answered.
LEMMA WaitingPopped ==
  ASSUME TypeOK, todo # <<>>, todo' = <<>> \o Tail(todo)
  PROVE  Waiting' \subseteq Waiting /\ Waiting \subseteq Waiting' \cup {Head(todo).node}
  <1>1. /\ DOMAIN todo' = 1..Len(todo) - 1
        /\ \A k \in 1..Len(todo) - 1 : todo'[k] = todo[k + 1]
    BY Popped
  <1>2. /\ Len(todo) \in Nat /\ DOMAIN todo = 1..Len(todo) /\ Head(todo) = todo[1]
    BY PoolLen
  <1>3. \A k \in 1..Len(todo) - 1 : k + 1 \in DOMAIN todo
    BY <1>2
  <1>4. ASSUME NEW k \in DOMAIN todo, k # 1
        PROVE  \E l \in DOMAIN todo' : todo'[l].node = todo[k].node
    <2>1. k - 1 \in 1..Len(todo) - 1 /\ (k - 1) + 1 = k
      BY <1>2, <1>4
    <2> QED
      BY <1>1, <2>1
  <1> QED
    BY <1>1, <1>2, <1>3, <1>4 DEF Waiting

\* The calls that wait after a division.
LEMMA WaitingPushed ==
  ASSUME TypeOK, ShapeInv, todo # <<>>, NEW a, NEW b, TwoCalls(a, b), NEW c, c = Head(todo).node
  PROVE  /\ Waiting' \subseteq Waiting \cup {2 * c, 2 * c + 1}
         /\ Waiting \subseteq Waiting' \cup {c} /\ {2 * c, 2 * c + 1} \subseteq Waiting'
  <1>1. /\ DOMAIN todo' = 1..Len(todo) + 1 /\ todo'[1] = a /\ todo'[2] = b
        /\ \A k \in 3..Len(todo) + 1 : todo'[k] = todo[k - 1]
    BY PushedCalls
  <1>2. /\ Len(todo) \in Nat /\ DOMAIN todo = 1..Len(todo) /\ Head(todo) = todo[1]
        /\ Len(todo) >= 1
    BY PoolLen
  <1>3. a.node = 2 * c /\ b.node = 2 * c + 1
    BY DEF TwoCalls
  <1>4. {2 * c, 2 * c + 1} \subseteq Waiting'
    <2>1. 1 \in DOMAIN todo' /\ 2 \in DOMAIN todo'
      BY <1>1, <1>2
    <2> QED
      BY <1>1, <1>3, <2>1 DEF Waiting
  <1>5. ASSUME NEW k \in DOMAIN todo' PROVE todo'[k].node \in Waiting \cup {2 * c, 2 * c + 1}
    <2>1. k = 1 \/ k = 2 \/ (k \in 3..Len(todo) + 1 /\ k - 1 \in DOMAIN todo)
      BY <1>1, <1>2
    <2> QED
      BY <1>1, <1>3, <2>1 DEF Waiting
  <1>6. ASSUME NEW k \in DOMAIN todo, k # 1
        PROVE  \E l \in DOMAIN todo' : todo'[l].node = todo[k].node
    <2>1. k + 1 \in 3..Len(todo) + 1 /\ (k + 1) - 1 = k /\ k + 1 \in DOMAIN todo'
      BY <1>1, <1>2, <1>6
    <2> QED
      BY <1>1, <2>1
  <1> QED
    BY <1>2, <1>4, <1>5, <1>6 DEF Waiting

\* A leaf has no children.
LEMMA CreateLeafBranch ==
  ASSUME Inv, BranchInv, CreateLeaf
  PROVE  BranchInv'
  <1> DEFINE c == Head(todo).node
             nodes == [n \in {c} |-> Node("leaf", Target, pool[Finder])]
             left == RemoveAt(pool, Finder)
  <1>1. todo # <<>> /\ Place(nodes, <<>>, left) /\ TypeOK /\ ShapeInv
    BY DEF CreateLeaf, Placing, Inv
  <1>2. /\ nodes = [n \in DOMAIN nodes |-> nodes[n]] /\ DOMAIN nodes = {c}
        /\ IsNode(nodes[c]) /\ nodes[c].type = "leaf"
    BY DEF Node, IsNode
  <1> HIDE DEF nodes, left
  <1>3. Fresh(nodes) /\ IsLeaf(nodes, c)
    BY <1>2 DEF Fresh, IsLeaf
  <1>4. Waiting' \subseteq Waiting /\ Waiting \subseteq Waiting' \cup {c}
    BY <1>1, WaitingPopped DEF Place
  <1> QED
    BY <1>1, <1>2, <1>3, <1>4, PlaceBranch

\* A pair is a node with a cut and its two leaves.
LEMMA CreatePairBranch ==
  ASSUME Inv, BranchInv, CreatePair
  PROVE  BranchInv'
  <1> DEFINE c == Head(todo).node
             two == FoundTwo
             child(k) == Node("leaf", ChildTarget(Head(todo).target, two.type), pool[k])
             nodes == [n \in {c, 2 * c, 2 * c + 1} |->
                         CASE n = c         -> Node(two.type, Head(todo).target, 0)
                           [] n = 2 * c     -> child(two.i)
                           [] n = 2 * c + 1 -> child(two.j)]
             left == EraseTwo(pool, two.i, two.j)
  <1>1. todo # <<>> /\ Place(nodes, <<>>, left) /\ TypeOK /\ ShapeInv
    BY DEF CreatePair, PlacePair, Placing, Inv
  <1>2. two.type \in {"V", "H"}
    BY DEF FoundTwo
  <1> HIDE DEF two
  <1>3. c \in Nat \ {0} /\ c # 2 * c /\ c # 2 * c + 1 /\ 2 * c # 2 * c + 1
    BY <1>1, FreshNodes
  <1> HIDE DEF c
  <1>4. /\ nodes = [n \in DOMAIN nodes |-> nodes[n]] /\ DOMAIN nodes = {c, 2 * c, 2 * c + 1}
        /\ nodes[c] = Node(two.type, Head(todo).target, 0)
        /\ nodes[2 * c] = child(two.i)
        /\ nodes[2 * c + 1] = child(two.j)
    BY <1>3
  <1>5. \A k : IsNode(child(k)) /\ child(k).type = "leaf"
    BY DEF Node, IsNode
  <1>6. IsNode(nodes[c]) /\ nodes[c].type # "leaf"
    BY <1>2, <1>4 DEF Node, IsNode
  <1> HIDE DEF nodes, left, child
  <1>7. Fresh(nodes) /\ ~IsLeaf(nodes, c) /\ \A n \in DOMAIN nodes : n # c => IsLeaf(nodes, n)
    BY <1>4, <1>5, <1>6 DEF Fresh, IsLeaf, c
  <1>8. Waiting' \subseteq Waiting /\ Waiting \subseteq Waiting' \cup {c}
    BY <1>1, WaitingPopped DEF Place, c
  <1>9. c = Head(todo).node
    BY DEF c
  <1> QED
    BY <1>1, <1>4, <1>7, <1>8, <1>9, PlaceBranch

\* A division is a node with a cut and the calls for its children.
LEMMA CreateDivisionBranch ==
  ASSUME Inv, BranchInv, CreateDivision
  PROVE  BranchInv'
  <1> DEFINE c == Head(todo)
             few == c.num \div 2
  <1>1. todo # <<>> /\ c.num > 2 /\ TypeOK /\ ShapeInv
    BY DEF CreateDivision, Inv
  <1>2. PICK type \in {"V", "H"},
             target \in {ChildTarget(c.target, "V"), ChildTarget(c.target, "H")} :
          Place([n \in {c.node} |-> Node(type, c.target, 0)],
                <<[node |-> 2 * c.node, target |-> target, num |-> few],
                  [node |-> 2 * c.node + 1, target |-> target, num |-> c.num - few]>>,
                pool)
    BY DEF CreateDivision
  <1> DEFINE m == c.node
             nodes == [n \in {m} |-> Node(type, c.target, 0)]
             a == [node |-> 2 * c.node, target |-> target, num |-> few]
             b == [node |-> 2 * c.node + 1, target |-> target, num |-> c.num - few]
  <1>3. c.num \in Nat \ {0}
    BY <1>1, PoolLen DEF TypeOK
  <1>4. few \in Nat \ {0} /\ c.num - few \in Nat \ {0} /\ few + (c.num - few) = c.num
    <2> DEFINE num == c.num
    <2>1. num \in Nat /\ num > 2 /\ few = num \div 2
      BY <1>1, <1>3
    <2> HIDE DEF num
    <2>2. num \div 2 \in Nat \ {0} /\ num - num \div 2 \in Nat \ {0}
          /\ num \div 2 + (num - num \div 2) = num
      BY <2>1
    <2> QED
      BY <2>2 DEF num
  <1>5. TwoCalls(a, b)
    BY <1>2, <1>4 DEF TwoCalls, Place
  <1>6. /\ nodes = [n \in DOMAIN nodes |-> nodes[n]] /\ DOMAIN nodes = {m}
        /\ nodes[m] = Node(type, c.target, 0)
    OBVIOUS
  <1>7. IsNode(Node(type, c.target, 0)) /\ Node(type, c.target, 0).type # "leaf"
    BY DEF IsNode, Node
  <1>8. Place(nodes, <<a, b>>, pool)
    BY <1>2
  <1>9. m = Head(todo).node
    OBVIOUS
  <1> HIDE DEF nodes, a, b, c, m
  <1>10. Fresh(nodes) /\ ~IsLeaf(nodes, m)
    BY <1>6, <1>7, <1>9 DEF Fresh, IsLeaf
  <1>11. /\ Waiting' \subseteq Waiting \cup {2 * m, 2 * m + 1}
         /\ Waiting \subseteq Waiting' \cup {m} /\ {2 * m, 2 * m + 1} \subseteq Waiting'
    BY <1>1, <1>5, <1>9, WaitingPushed
  <1>12. /\ \A n \in DOMAIN nodes : n # m => IsLeaf(nodes, n)
         /\ {2 * m, 2 * m + 1} \subseteq DOMAIN nodes \cup Waiting'
    BY <1>6, <1>11
  <1> DEFINE calls == <<a, b>>
  <1>13. Place(nodes, calls, pool)
    BY <1>8
  <1> HIDE DEF calls
  <1> QED
    BY <1>1, <1>9, <1>10, <1>11, <1>12, <1>13, PlaceBranch

\* Measuring and adjusting leave the shape.
LEMMA SameBranch ==
  ASSUME BranchInv, TypeOK, ShapeInv, SameShape(tree, tree'), todo' = todo
  PROVE  BranchInv'
  <1>1. DOMAIN tree' = DOMAIN tree /\ Waiting' = Waiting
    BY DEF SameShape, Waiting
  <1>2. Leaves(tree)' = Leaves(tree)
    BY SameLeaves
  <1>3. \A n \in DOMAIN tree : IsLeaf(tree', n) <=> IsLeaf(tree, n)
    BY DEF SameShape, IsLeaf
  <1>4. /\ \A n \in DOMAIN tree : n # 1 => n \div 2 \in DOMAIN tree
        /\ \A n \in Waiting : n # 1 => n \div 2 \in DOMAIN tree
    BY DEF ShapeInv, Waiting
  <1>5. /\ \A n \in DOMAIN tree' : n # 1 => ~IsLeaf(tree', n \div 2)
        /\ \A n \in Waiting' : n # 1 => ~IsLeaf(tree', n \div 2)
    BY <1>1, <1>3, <1>4 DEF BranchInv
  <1> QED
    BY <1>1, <1>2, <1>5 DEF BranchInv

\* A new tree is to get its root.
LEMMA CreatedBranch ==
  ASSUME NEW sorted, CreateTree(sorted)
  PROVE  BranchInv'
  <1> DEFINE root == [node |-> 1, target |-> canvas, num |-> Len(photos)]
  <1>1. tree' = <<>> /\ todo' = <<root>>
    BY DEF CreateTree
  <1>2. root.node = 1
    OBVIOUS
  <1> HIDE DEF root
  <1>3. DOMAIN tree' = {} /\ Leaves(tree)' = {}
    BY <1>1 DEF Leaves
  <1>4. Waiting' = {1}
    BY <1>1, <1>2 DEF Waiting
  <1>5. 0 \in Nat /\ \A n \in DOMAIN tree' : n <= 0
    BY <1>3
  <1> QED
    BY <1>3, <1>4, <1>5 DEF BranchInv

\* The shape holds before the first sample.
LEMMA BranchInit == Init => BranchInv
  <1> SUFFICES ASSUME Init PROVE BranchInv
    OBVIOUS
  <1>1. tree = <<>> /\ todo = <<>>
    BY DEF Init, PicWallInit
  <1>2. DOMAIN tree = {} /\ Waiting = {} /\ 0 \in Nat
    BY <1>1 DEF Waiting
  <1> QED
    BY <1>2 DEF BranchInv, Leaves

\* Every step keeps it.
LEMMA BranchStep == Inv /\ BranchInv /\ [Next]_vars => BranchInv'
  <1> SUFFICES ASSUME Inv, BranchInv, [Next]_vars PROVE BranchInv'
    OBVIOUS
  <1>1. /\ TypeOK /\ ShapeInv /\ tree = [n \in DOMAIN tree |-> tree[n]]
        /\ \A n \in DOMAIN tree : IsNode(tree[n])
    BY DEF Inv, TypeOK
  <1>2. CASE BeginTree
    BY <1>2, CreatedBranch DEF BeginTree, SampleTree
  <1>3. CASE CreateLeaf \/ CreatePair \/ CreateDivision
    BY <1>3, CreateLeafBranch, CreatePairBranch, CreateDivisionBranch
  <1>4. CASE MeasureTree
    <2>1. tree' = Measured(tree, realAt') /\ todo' = todo
      BY <1>4 DEF MeasureTree, Measure
    <2>2. SameShape(tree, tree')
      BY <1>1, <2>1, MeasuredNodes
    <2> QED
      BY <1>1, <2>1, <2>2, SameBranch
  <1>5. CASE AdjustTree
    <2> DEFINE t == AdjustedTree(tree)
    <2>1. CASE CreateTree(mPhotos)
      BY <2>1, CreatedBranch
    <2>2. CASE tree' = Measured(t, realAt) /\ todo' = todo
      <3>1. SameShape(tree, t) /\ t = [n \in DOMAIN t |-> t[n]]
        BY <1>1, AdjustedNodes
      <3> HIDE DEF t
      <3>2. \A n \in DOMAIN t : IsNode(t[n])
        BY <3>1 DEF SameShape
      <3>3. SameShape(t, tree')
        BY <2>2, <3>1, <3>2, MeasuredNodes
      <3>4. SameShape(tree, tree')
        BY <3>1, <3>3 DEF SameShape
      <3> QED
        BY <1>1, <2>2, <3>4, SameBranch
    <2> QED
      BY <1>5, <2>1, <2>2 DEF AdjustTree
  <1>6. CASE tree' = tree /\ todo' = todo
    <2>1. SameShape(tree, tree')
      BY <1>1, <1>6, SMTT(30) DEF SameShape
    <2> QED
      BY <1>1, <1>6, <2>1, SameBranch
  <1>7. CASE \/ Bisect \/ Walk \/ TurnWalk \/ ReturnTree \/ GenerateDefaults \/ SampleOneBig
             \/ EndPicWall \/ FilterGrids \/ Returned \/ UNCHANGED vars
    BY <1>6, <1>7 DEF Bisect, Walk, TurnWalk, ReturnTree, GenerateDefaults, SampleOneBig,
       EndPicWall, FilterGrids, Returned, vars, picWallVars
  <1> QED
    BY <1>2, <1>3, <1>4, <1>5, <1>7 DEF Next, PicWallRuns, PicWallStep

-----------------------------------------------------------------------------
(*****************************************************************************)
(* The slots of a whole tree                                                 *)
(*****************************************************************************)

\* The parent of every node of a set is in the set.
Upwards(C) == \A n \in C : n # 1 => n \div 2 \in C

\* A node and the nodes above it, up to the root.
AndAbove(x) == {a \in 1..x : \A C \in SUBSET (1..x) : x \in C /\ Upwards(C) => a \in C}

\* They are the node, its parent and what is above that one.
LEMMA AboveIs ==
  ASSUME NEW x \in Nat \ {0}
  PROVE  /\ x \in AndAbove(x) /\ Upwards(AndAbove(x))
         /\ \A a \in AndAbove(x) : a = x \/ (x # 1 /\ a \in AndAbove(x \div 2))
  <1>1. x \in AndAbove(x)
    BY DEF AndAbove
  <1>2. ASSUME NEW n \in AndAbove(x), n # 1 PROVE n \div 2 \in AndAbove(x)
    <2>1. n \in 1..x /\ \A C \in SUBSET (1..x) : x \in C /\ Upwards(C) => n \in C
      BY DEF AndAbove
    <2>2. n \div 2 \in 1..x
      BY <1>2, <2>1
    <2>3. \A C \in SUBSET (1..x) : x \in C /\ Upwards(C) => n \div 2 \in C
      BY <1>2, <2>1 DEF Upwards
    <2> QED
      BY <2>2, <2>3 DEF AndAbove
  <1>3. ASSUME NEW a \in AndAbove(x), a # x PROVE x # 1 /\ a \in AndAbove(x \div 2)
    <2>1. a \in 1..x /\ \A C \in SUBSET (1..x) : x \in C /\ Upwards(C) => a \in C
      BY DEF AndAbove
    <2>2. x # 1
      BY <1>3, <2>1
    <2> DEFINE y == x \div 2
    <2>3. y \in 1..(x - 1)
      BY <2>2
    <2> HIDE DEF y
    <2>4. ASSUME NEW C \in SUBSET (1..y), y \in C, Upwards(C) PROVE a \in C
      <3>1. C \cup {x} \in SUBSET (1..x)
        BY <2>3
      <3>2. Upwards(C \cup {x})
        BY <2>4 DEF Upwards, y
      <3>3. a \in C \cup {x}
        BY <2>1, <3>1, <3>2
      <3> QED
        BY <1>3, <3>3
    <2>5. a \in 1..y
      <3>1. Upwards(1..y)
        <4>1. \A n \in 1..y : n # 1 => n \div 2 \in 1..y
          BY <2>3
        <4> QED
          BY <4>1 DEF Upwards
      <3>2. y \in 1..y
        BY <2>3
      <3> QED
        BY <2>4, <3>1, <3>2
    <2>6. a \in AndAbove(y)
      BY <2>4, <2>5 DEF AndAbove
    <2> QED
      BY <2>2, <2>6 DEF y
  <1> QED
    BY <1>1, <1>2, <1>3 DEF Upwards

\* No node is below two siblings.
LEMMA OneSibling ==
  ASSUME NEW x \in Nat \ {0}, NEW n \in Nat \ {0}
  PROVE  ~(2 * n \in AndAbove(x) /\ 2 * n + 1 \in AndAbove(x))
  <1> DEFINE Apart(y) == \A m \in Nat \ {0} : ~(2 * m \in AndAbove(y) /\ 2 * m + 1 \in AndAbove(y))
             P == {k \in Nat : \A y \in 1..k : Apart(y)}
  <1>1. 0 \in P
    OBVIOUS
  <1>2. ASSUME NEW k \in 0..(x - 1), k \in P PROVE k + 1 \in P
    <2> DEFINE y == k + 1
    <2>1. y \in Nat \ {0} /\ y \in Nat
      OBVIOUS
    <2>2. \A a \in AndAbove(y) : a = y \/ (y # 1 /\ a \in AndAbove(y \div 2))
      <3> HIDE DEF y
      <3> QED
        BY <2>1, AboveIs
    <2>3. y # 1 => y \div 2 \in 1..k
      OBVIOUS
    <2> HIDE DEF y
    <2>4. \A z \in 1..k : Apart(z)
      BY <1>2
    <2>5. ASSUME NEW m \in Nat \ {0}, 2 * m \in AndAbove(y), 2 * m + 1 \in AndAbove(y) PROVE FALSE
      <3>1. \A a \in AndAbove(y \div 2) : a <= y \div 2
        BY <2>1 DEF AndAbove
      <3>2. CASE y = 2 * m
        <4>1. y \div 2 = m /\ 2 * m + 1 # y
          BY <3>2
        <4>2. 2 * m + 1 \in AndAbove(y \div 2)
          BY <2>2, <2>5, <4>1
        <4>3. 2 * m + 1 <= m
          BY <3>1, <4>1, <4>2
        <4> QED
          BY <4>3
      <3>3. CASE y = 2 * m + 1
        <4>1. y \div 2 = m /\ 2 * m # y
          BY <3>3
        <4>2. 2 * m \in AndAbove(y \div 2)
          BY <2>2, <2>5, <4>1
        <4>3. 2 * m <= m
          BY <3>1, <4>1, <4>2
        <4> QED
          BY <4>3
      <3>4. CASE y # 2 * m /\ y # 2 * m + 1
        <4>1. y # 1 /\ 2 * m \in AndAbove(y \div 2) /\ 2 * m + 1 \in AndAbove(y \div 2)
          BY <2>2, <2>5, <3>4
        <4>2. Apart(y \div 2)
          BY <2>3, <2>4, <4>1
        <4> QED
          BY <4>1, <4>2
      <3> QED
        BY <3>2, <3>3, <3>4
    <2>6. Apart(y)
      BY <2>5
    <2> HIDE DEF Apart
    <2>7. \A z \in 1..y : z \in 1..k \/ z = y
      BY DEF y
    <2>8. \A z \in 1..y : Apart(z)
      BY <2>4, <2>6, <2>7
    <2>9. y \in P
      BY <2>1, <2>8
    <2> QED
      BY <2>9 DEF y
  <1> HIDE DEF P
  <1>3. x \in P
    BY <1>1, <1>2, Climb
  <1>4. Apart(x)
    BY <1>3 DEF P
  <1> QED
    BY <1>4

\* Two lists without an element twice and without one in common.
LEMMA NoneTwiceJoined ==
  ASSUME NEW S, NEW a \in Seq(S), NEW b \in Seq(S), NoneTwice(a), NoneTwice(b),
         \A i \in DOMAIN a, j \in DOMAIN b : a[i] # b[j]
  PROVE  /\ NoneTwice(a \o b) /\ a \o b \in Seq(S)
         /\ Range(a \o b) = Range(a) \cup Range(b)
  <1> DEFINE c == a \o b
  <1>1. /\ c \in Seq(S) /\ Len(c) = Len(a) + Len(b)
        /\ \A i \in 1..Len(a) + Len(b) : c[i] = IF i <= Len(a) THEN a[i] ELSE b[i - Len(a)]
    BY ConcatProperties
  <1>2. /\ Len(a) \in Nat /\ Len(b) \in Nat
        /\ DOMAIN a = 1..Len(a) /\ DOMAIN b = 1..Len(b)
    OBVIOUS
  <1> HIDE DEF c
  <1>3. DOMAIN c = 1..Len(a) + Len(b)
    BY <1>1
  <1>4. ASSUME NEW i \in DOMAIN c
        PROVE  \/ i \in DOMAIN a /\ c[i] = a[i]
               \/ i > Len(a) /\ i - Len(a) \in DOMAIN b /\ c[i] = b[i - Len(a)]
    BY <1>1, <1>2, <1>3
  <1>5. ASSUME NEW i \in DOMAIN c, NEW j \in DOMAIN c, c[i] = c[j] PROVE i = j
    <2>1. CASE i \in DOMAIN a /\ c[i] = a[i] /\ j \in DOMAIN a /\ c[j] = a[j]
      BY <1>5, <2>1 DEF NoneTwice
    <2>2. CASE i \in DOMAIN a /\ c[i] = a[i] /\ j - Len(a) \in DOMAIN b /\ c[j] = b[j - Len(a)]
      BY <1>5, <2>2
    <2>3. CASE j \in DOMAIN a /\ c[j] = a[j] /\ i - Len(a) \in DOMAIN b /\ c[i] = b[i - Len(a)]
      BY <1>5, <2>3
    <2>4. CASE /\ i - Len(a) \in DOMAIN b /\ c[i] = b[i - Len(a)]
               /\ j - Len(a) \in DOMAIN b /\ c[j] = b[j - Len(a)]
      <3>1. i - Len(a) = j - Len(a)
        BY <1>5, <2>4 DEF NoneTwice
      <3> QED
        BY <1>2, <1>3, <3>1
    <2> QED
      BY <1>4, <2>1, <2>2, <2>3, <2>4
  <1>6. Range(c) = Range(a) \cup Range(b)
    BY RangeConcatenation DEF c
  <1> QED
    BY <1>1, <1>5, <1>6 DEF c, NoneTwice

\* A whole tree: a node with a cut has two children, only the root has no parent.
WholeTree(t) ==
  /\ DOMAIN t \subseteq Nat \ {0} /\ 1 \in DOMAIN t
  /\ \E b \in Nat : \A n \in DOMAIN t : n <= b
  /\ \A n \in DOMAIN t : n # 1 => n \div 2 \in DOMAIN t /\ ~IsLeaf(t, n \div 2)
  /\ \A n \in DOMAIN t : ~IsLeaf(t, n) => 2 * n \in DOMAIN t /\ 2 * n + 1 \in DOMAIN t

\* The equation of SlotList's lists of the leaves under a node.
Lists(f, t) == f = [n \in DOMAIN t |-> IF IsLeaf(t, n) THEN <<n>> ELSE f[2 * n] \o f[2 * n + 1]]

\* It has a solution: from the largest number down.
LEMMA ListsExist ==
  ASSUME NEW t, WholeTree(t)
  PROVE  \E f : Lists(f, t)
  <1>1. PICK b \in Nat : \A n \in DOMAIN t : n <= b
    BY DEF WholeTree
  <1>2. \A n \in DOMAIN t : /\ n \in Nat /\ 2 * n > n /\ 2 * n + 1 > n
                            /\ ~IsLeaf(t, n) => 2 * n \in DOMAIN t /\ 2 * n + 1 \in DOMAIN t
    BY DEF WholeTree
  <1> DEFINE Body(f, n) == IF IsLeaf(t, n) THEN <<n>> ELSE f[2 * n] \o f[2 * n + 1]
             D(k) == {n \in DOMAIN t : n > b - k}
             P == {k \in Nat : \E f : f = [n \in D(k) |-> Body(f, n)]}
  <1>3. 0 \in P
    <2> DEFINE f == [n \in D(0) |-> 0]
    <2>1. D(0) = {}
      BY <1>1, <1>2
    <2>2. f = [n \in D(0) |-> Body(f, n)]
      <3> HIDE DEF D, Body
      <3> QED
        BY <2>1, Zenon
    <2> HIDE DEF f, D, Body
    <2> QED
      BY <2>2
  <1>4. ASSUME NEW k \in 0..(b - 1), k \in P PROVE k + 1 \in P
    <2>0. /\ k \in Nat /\ k + 1 \in Nat /\ b \in Nat
          /\ D(k) \subseteq D(k + 1)
          /\ \A n \in D(k + 1) : n \in DOMAIN t /\ (~IsLeaf(t, n) => 2 * n \in D(k) /\ 2 * n + 1 \in D(k))
      <3>1. b - (k + 1) < b - k /\ b - k - 1 = b - (k + 1) /\ k \in Nat /\ k + 1 \in Nat
        BY <1>1
      <3>2. ASSUME NEW n \in D(k) PROVE n \in D(k + 1)
        <4>1. n \in DOMAIN t /\ n \in Nat /\ n > b - k
          BY <1>2
        <4>2. n > b - (k + 1)
          BY <1>1, <3>1, <4>1
        <4> QED
          BY <4>1, <4>2
      <3>3. ASSUME NEW n \in D(k + 1), ~IsLeaf(t, n) PROVE 2 * n \in D(k) /\ 2 * n + 1 \in D(k)
        <4>1. /\ n \in Nat /\ n > b - (k + 1) /\ 2 * n > n
              /\ 2 * n \in DOMAIN t /\ 2 * n + 1 \in DOMAIN t
          BY <1>2, <3>3
        <4>2. 2 * n > b - k /\ 2 * n + 1 > b - k
          BY <1>1, <3>1, <4>1
        <4> QED
          BY <4>1, <4>2
      <3> QED
        BY <1>1, <3>1, <3>2, <3>3
    <2> DEFINE d == D(k)
               e == D(k + 1)
    <2>1. PICK f : f = [n \in d |-> Body(f, n)]
      <3> HIDE DEF D, Body
      <3> QED
        BY <1>4
    <2>2. d \subseteq e /\ \A n \in e : ~IsLeaf(t, n) => 2 * n \in d /\ 2 * n + 1 \in d
      BY <2>0
    <2> HIDE DEF d, e
    <2> DEFINE g == [n \in e |-> IF n \in d THEN f[n] ELSE Body(f, n)]
    <2>3. \A n \in d : g[n] = f[n]
      BY <2>2
    <2>4. \A n \in d : f[n] = Body(f, n)
      <3> HIDE DEF Body
      <3> QED
        BY <2>1
    <2>5. \A n \in e : g[n] = Body(f, n)
      <3> HIDE DEF Body
      <3> QED
        BY <2>4
    <2>6. \A n \in e : Body(g, n) = Body(f, n)
      <3> HIDE DEF g
      <3> QED
        BY <2>2, <2>3
    <2>7. g = [n \in e |-> Body(g, n)]
      <3>1. g = [n \in e |-> g[n]]
        BY Zenon
      <3> HIDE DEF g, Body
      <3> QED
        BY <2>5, <2>6, <3>1, Zenon
    <2> HIDE DEF g, Body, D
    <2> QED
      BY <2>0, <2>7 DEF e
  <1> HIDE DEF P
  <1>5. b \in P
    BY <1>1, <1>3, <1>4, Climb
  <1>6. D(b) = DOMAIN t
    <2>1. \A n \in DOMAIN t : n > b - b
      BY <1>1, <1>2 DEF WholeTree
    <2> QED
      BY <2>1
  <1> HIDE DEF D
  <1>7. \E f : f = [n \in D(b) |-> Body(f, n)]
    BY <1>5 DEF P
  <1> QED
    BY <1>6, <1>7, Zenon DEF Lists

\* Under a node, each leaf below it is listed once.
LEMMA ListedOnce ==
  ASSUME NEW t, WholeTree(t), NEW f, Lists(f, t), NEW r \in DOMAIN t
  PROVE  f[r] \in Seq(Leaves(t)) /\ NoneTwice(f[r])
  <1>1. PICK b \in Nat : \A n \in DOMAIN t : n <= b
    BY DEF WholeTree
  <1>2. \A n \in DOMAIN t : /\ n \in Nat \ {0} /\ n <= b
                            /\ ~IsLeaf(t, n) => 2 * n \in DOMAIN t /\ 2 * n + 1 \in DOMAIN t
    BY <1>1 DEF WholeTree
  <1>3. \A n \in DOMAIN t : f[n] = IF IsLeaf(t, n) THEN <<n>> ELSE f[2 * n] \o f[2 * n + 1]
    BY DEF Lists
  <1> DEFINE L == Leaves(t)
             Good(n) == /\ f[n] \in Seq(L) /\ NoneTwice(f[n])
                        /\ \A i \in DOMAIN f[n] : n \in AndAbove(f[n][i])
             P == {k \in Nat : \A n \in DOMAIN t : n > b - k => Good(n)}
  <1>4. 0 \in P
    BY <1>1, <1>2
  <1>5. ASSUME NEW k \in 0..(b - 1), k \in P PROVE k + 1 \in P
    <2>1. k + 1 \in Nat
      OBVIOUS
    <2>2. ASSUME NEW n \in DOMAIN t, n > b - (k + 1) PROVE Good(n)
      <3>1. CASE IsLeaf(t, n)
        <4> DEFINE s == <<n>>
        <4>1. f[n] = s
          BY <1>3, <3>1
        <4>2. s \in Seq({n}) /\ DOMAIN s = {1} /\ s[1] = n
          OBVIOUS
        <4> HIDE DEF s
        <4>3. n \in L
          BY <3>1 DEF Leaves
        <4>4. s \in Seq(L)
          <5>1. {n} \subseteq L
            BY <4>3
          <5> QED
            BY <4>2, <5>1, SeqMonotonic
        <4>5. n \in AndAbove(n)
          BY <1>2, AboveIs
        <4>6. NoneTwice(s)
          BY <4>2 DEF NoneTwice
        <4>7. \A i \in DOMAIN s : n \in AndAbove(s[i])
          BY <4>2, <4>5
        <4> QED
          BY <4>1, <4>4, <4>6, <4>7
      <3>2. CASE ~IsLeaf(t, n)
        <4> DEFINE l == 2 * n
                   h == 2 * n + 1
        <4>0. n \in Nat \ {0} /\ n \in Nat
          BY <1>2
        <4>1. l \in DOMAIN t /\ h \in DOMAIN t
          BY <1>2, <3>2
        <4>2. l > b - k /\ h > b - k
          BY <1>1, <2>2, <4>0
        <4>3. l \div 2 = n /\ h \div 2 = n /\ l # 1 /\ h # 1
          BY <4>0
        <4>4. \A x \in Nat \ {0} : ~(l \in AndAbove(x) /\ h \in AndAbove(x))
          BY <4>0, OneSibling
        <4>5. f[n] = f[l] \o f[h]
          BY <1>3, <3>2
        <4> HIDE DEF l, h
        <4>6. Good(l) /\ Good(h)
          <5> HIDE DEF Good
          <5> QED
            BY <1>5, <4>1, <4>2
        <4>7. \A x \in L : x \in Nat \ {0}
          BY <1>2 DEF Leaves
        <4>8. \A i \in DOMAIN f[l], j \in DOMAIN f[h] : f[l][i] # f[h][j]
          <5> SUFFICES ASSUME NEW i \in DOMAIN f[l], NEW j \in DOMAIN f[h], f[l][i] = f[h][j]
                       PROVE  FALSE
            OBVIOUS
          <5>1. f[l][i] \in L
            BY <4>6
          <5>2. l \in AndAbove(f[l][i]) /\ h \in AndAbove(f[l][i])
            BY <4>6
          <5> QED
            BY <4>4, <4>7, <5>1, <5>2
        <4> DEFINE s == f[l] \o f[h]
        <4>9. NoneTwice(s) /\ s \in Seq(L) /\ Range(s) = Range(f[l]) \cup Range(f[h])
          BY <4>6, <4>8, NoneTwiceJoined
        <4> HIDE DEF s
        <4>10. ASSUME NEW i \in DOMAIN s PROVE n \in AndAbove(s[i])
          <5>1. s[i] \in L /\ s[i] \in Range(s)
            BY <4>9, Members
          <5>2. l \in AndAbove(s[i]) \/ h \in AndAbove(s[i])
            <6>1. \/ \E j \in DOMAIN f[l] : s[i] = f[l][j]
                  \/ \E j \in DOMAIN f[h] : s[i] = f[h][j]
              BY <4>9, <5>1 DEF Range
            <6> QED
              BY <4>6, <6>1
          <5>3. Upwards(AndAbove(s[i]))
            BY <4>7, <5>1, AboveIs
          <5> QED
            BY <4>3, <5>2, <5>3 DEF Upwards
        <4>11. f[n] = s
          BY <4>5 DEF s
        <4> QED
          BY <4>9, <4>10, <4>11
      <3> QED
        BY <3>1, <3>2
    <2> HIDE DEF Good
    <2> QED
      BY <2>1, <2>2
  <1> HIDE DEF P
  <1>6. b \in P
    BY <1>1, <1>4, <1>5, Climb
  <1>7. r > b - b
    BY <1>1, <1>2
  <1> HIDE DEF Good
  <1>8. Good(r)
    BY <1>6, <1>7 DEF P
  <1> QED
    BY <1>8 DEF Good

\* Under the root, every leaf is listed.
LEMMA AllListed ==
  ASSUME NEW t, WholeTree(t), NEW f, Lists(f, t)
  PROVE  Range(f[1]) = Leaves(t)
  <1>1. PICK b \in Nat : \A n \in DOMAIN t : n <= b
    BY DEF WholeTree
  <1>2. \A n \in DOMAIN t : n \in Nat \ {0} /\ f[n] \in Seq(Leaves(t))
    BY ListedOnce DEF WholeTree
  <1>3. \A n \in DOMAIN t : f[n] = IF IsLeaf(t, n) THEN <<n>> ELSE f[2 * n] \o f[2 * n + 1]
    BY DEF Lists
  <1> DEFINE P == {k \in Nat : \A n \in DOMAIN t : n <= k => Range(f[n]) \subseteq Range(f[1])}
  <1>4. 0 \in P
    BY <1>2
  <1>5. ASSUME NEW k \in 0..(b - 1), k \in P PROVE k + 1 \in P
    <2>1. k + 1 \in Nat
      OBVIOUS
    <2>2. ASSUME NEW n \in DOMAIN t, n <= k + 1, n # 1 PROVE Range(f[n]) \subseteq Range(f[1])
      <3> DEFINE p == n \div 2
      <3>1. n \in Nat \ {0} /\ p \in DOMAIN t /\ ~IsLeaf(t, p)
        BY <1>2, <2>2 DEF WholeTree
      <3>2. p <= k /\ (n = 2 * p \/ n = 2 * p + 1)
        BY <2>2, <3>1
      <3> HIDE DEF p
      <3>3. Range(f[p]) \subseteq Range(f[1])
        BY <1>5, <3>1, <3>2
      <3>4. 2 * p \in DOMAIN t /\ 2 * p + 1 \in DOMAIN t
        BY <3>1 DEF WholeTree
      <3> DEFINE a == f[2 * p]
                 c == f[2 * p + 1]
      <3>5. f[p] = a \o c
        BY <1>3, <3>1
      <3>6. a \in Seq(Leaves(t)) /\ c \in Seq(Leaves(t)) /\ (f[n] = a \/ f[n] = c)
        BY <1>2, <3>2, <3>4
      <3> HIDE DEF a, c
      <3>7. Range(f[p]) = Range(a) \cup Range(c)
        BY <3>5, <3>6, RangeConcatenation
      <3> QED
        BY <3>3, <3>6, <3>7
    <2> QED
      BY <2>1, <2>2
  <1> HIDE DEF P
  <1>6. b \in P
    BY <1>1, <1>4, <1>5, Climb
  <1>7. \A n \in DOMAIN t : Range(f[n]) \subseteq Range(f[1])
    BY <1>1, <1>6 DEF P
  <1>8. ASSUME NEW n \in Leaves(t) PROVE n \in Range(f[1])
    <2>1. n \in DOMAIN t /\ f[n] = <<n>>
      BY <1>3 DEF Leaves
    <2>2. n \in Range(f[n])
      BY <2>1 DEF Range
    <2> QED
      BY <1>7, <2>1, <2>2
  <1>9. Range(f[1]) \subseteq Leaves(t)
    BY <1>2, Members DEF WholeTree, Range
  <1> QED
    BY <1>8, <1>9

\* When there is no call left, the tree is whole and its leaves share out the photos.
LEMMA TreeDone ==
  ASSUME Inv, BranchInv, todo = <<>>, stage # "idle"
  PROVE  /\ WholeTree(tree)
         /\ \A n \in Leaves(tree) : tree[n].photo \in DOMAIN photos
         /\ \A m, n \in Leaves(tree) : tree[m].photo = tree[n].photo => m = n
         /\ \A p \in DOMAIN photos : \E n \in Leaves(tree) : tree[n].photo = p
  <1>1. TypeOK /\ ShapeInv /\ CountInv /\ PlacedInv /\ Len(todo) = 0
    BY DEF Inv
  <1>2. DOMAIN todo = {} /\ Waiting = {}
    BY DEF Waiting
  <1>3. WholeTree(tree)
    <2>1. DOMAIN tree \subseteq Nat \ {0} /\ 1 \in DOMAIN tree
      BY <1>1, <1>2 DEF TypeOK, ShapeInv
    <2>2. \A n \in DOMAIN tree : n # 1 => n \div 2 \in DOMAIN tree /\ ~IsLeaf(tree, n \div 2)
      BY <1>1 DEF ShapeInv, BranchInv
    <2>3. \A n \in DOMAIN tree : ~IsLeaf(tree, n) => 2 * n \in DOMAIN tree /\ 2 * n + 1 \in DOMAIN tree
      BY <1>2 DEF BranchInv, Leaves
    <2> QED
      BY <2>1, <2>2, <2>3 DEF WholeTree, BranchInv
  <1>4. pool = <<>>
    <2>1. PICK left \in [1 .. Len(todo) + 1 -> 0 .. Len(photos)] :
            left[1] = Len(pool) /\ left[Len(todo) + 1] = 0
      BY <1>1 DEF CountInv
    <2>2. Len(pool) = 0 /\ pool \in Seq(DOMAIN photos)
      BY <1>1, <2>1 DEF TypeOK
    <2> QED
      BY <2>2, EmptySeq
  <1>5. Range(pool) = {}
    BY <1>4 DEF Range
  <1> QED
    BY <1>1, <1>3, <1>5, SMTT(30) DEF TypeOK, PlacedInv

\* As many leaves are listed as there are photos.
LEMMA AsMany ==
  ASSUME NEW k \in Nat, NEW n \in Nat, ExistsBijection(1..k, 1..n)
  PROVE  k = n
  <1>1. Cardinality(1..n) = k
    BY FS_CountingElements
  <1>2. Cardinality(1..n) = IF 1 > n THEN 0 ELSE n - 1 + 1
    BY FS_Interval
  <1> QED
    BY <1>1, <1>2

\* toSlotList makes one slot for each photo.
LEMMA SlotListGood ==
  ASSUME Inv, BranchInv, todo = <<>>, stage # "idle", NEW more
  PROVE  GoodGrid(SlotList(tree), Len(photos), more)
  <1>1. /\ WholeTree(tree)
        /\ \A n \in Leaves(tree) : tree[n].photo \in DOMAIN photos
        /\ \A m, n \in Leaves(tree) : tree[m].photo = tree[n].photo => m = n
        /\ \A p \in DOMAIN photos : \E n \in Leaves(tree) : tree[n].photo = p
    BY TreeDone
  <1> DEFINE under == CHOOSE f : f = [n \in DOMAIN tree |->
                                        IF IsLeaf(tree, n) THEN <<n>>
                                        ELSE f[2 * n] \o f[2 * n + 1]]
             slot == Layout(tree, ChildLayoutRects(tree))
             r == [k \in DOMAIN under[1] |-> slot[under[1][k]]]
  <1>2. SlotList(tree) = r
    BY Zenon DEF SlotList
  <1>3. Lists(under, tree)
    <2>1. PICK f : Lists(f, tree)
      BY <1>1, ListsExist
    <2>2. f = [n \in DOMAIN tree |->
                 IF IsLeaf(tree, n) THEN <<n>> ELSE f[2 * n] \o f[2 * n + 1]]
      BY <2>1, Zenon DEF Lists
    <2> QED
      BY <2>2, Zenon DEF Lists
  <1> HIDE DEF under
  <1> DEFINE s == under[1]
  <1>4. s \in Seq(Leaves(tree)) /\ NoneTwice(s) /\ Range(s) = Leaves(tree)
    <2>1. 1 \in DOMAIN tree
      BY <1>1 DEF WholeTree
    <2> QED
      BY <1>1, <1>3, <2>1, ListedOnce, AllListed
  <1> HIDE DEF s
  <1>5. /\ Len(s) \in Nat /\ DOMAIN s = 1..Len(s)
        /\ \A k \in 1..Len(s) : s[k] \in Leaves(tree)
    BY <1>4, Members
  <1>6. \A n \in Leaves(tree) : slot[n].photo = tree[n].photo
    BY DEF Layout, Scaled
  <1> HIDE DEF slot
  <1>7. r = [k \in 1..Len(s) |-> slot[s[k]]]
    BY <1>5 DEF s
  <1> HIDE DEF r
  <1>8. /\ r \in Seq(Range(r)) /\ Len(r) = Len(s) /\ DOMAIN r = 1..Len(s)
        /\ \A k \in 1..Len(s) : r[k].photo = tree[s[k]].photo
    <2>1. \A k \in 1..Len(s) : r[k].photo = tree[s[k]].photo
      BY <1>5, <1>6, <1>7
    <2>2. r \in Seq(Range(r)) /\ Len(r) = Len(s) /\ DOMAIN r = 1..Len(s)
      BY <1>5, <1>7 DEF Range
    <2> QED
      BY <2>1, <2>2
  <1>9. \A i, j \in 1..Len(s) : tree[s[i]].photo = tree[s[j]].photo => i = j
    BY <1>1, <1>4, <1>5 DEF NoneTwice
  <1>10. NoPhotoTwice(r)
    BY <1>8, <1>9 DEF NoPhotoTwice
  <1>11. Len(s) = Len(photos)
    <2> DEFINE f == [k \in 1..Len(s) |-> tree[s[k]].photo]
               l == Len(s)
               q == Len(photos)
    <2>1. Len(photos) \in Nat /\ DOMAIN photos = 1..Len(photos)
      BY DEF Inv, TypeOK
    <2>2. f \in [1..Len(s) -> 1..Len(photos)]
      BY <1>1, <1>5, <2>1
    <2>3. \A i, j \in 1..Len(s) : f[i] = f[j] => i = j
      BY <1>9
    <2>4. ASSUME NEW p \in 1..Len(photos) PROVE \E i \in 1..Len(s) : f[i] = p
      <3>1. PICK n \in Leaves(tree) : tree[n].photo = p
        BY <1>1, <2>1
      <3>2. PICK i \in 1..Len(s) : s[i] = n
        BY <1>4, <1>5 DEF Range
      <3> QED
        BY <3>1, <3>2
    <2>5. /\ l \in Nat /\ q \in Nat /\ f \in [1..l -> 1..q]
          /\ \A i, j \in 1..l : f[i] = f[j] => i = j
          /\ \A p \in 1..q : \E i \in 1..l : f[i] = p
      BY <1>5, <2>1, <2>2, <2>3, <2>4
    <2> HIDE DEF f, l, q
    <2>6. f \in Bijection(1..l, 1..q)
      BY <2>5 DEF Bijection, Injection, Surjection, IsInjective
    <2>7. ExistsBijection(1..l, 1..q)
      BY <2>6 DEF ExistsBijection
    <2>8. l = q
      BY <2>5, <2>7, AsMany
    <2> QED
      BY <2>8 DEF l, q
  <1>12. Len(photos) \in Nat
    BY <1>5, <1>11
  <1> QED
    BY <1>2, <1>8, <1>10, <1>11, <1>12 DEF GoodGrid

-----------------------------------------------------------------------------
(*****************************************************************************)
(* One slot for each photo                                                   *)
(*****************************************************************************)

\* Whatever generate has collected so far has one slot for each photo.
GridsInv ==
  /\ gen = [left |-> gen.left, more |-> gen.more, trees |-> gen.trees, hit |-> gen.hit,
            done |-> gen.done]
  /\ photos # <<>> => /\ GoodGrids(grids, Len(photos), gen.more)
                      /\ GoodGrids(sub, Len(photos), gen.more)

\* Before the first sampler there is no grid.
LEMMA GridsInit == Init => GridsInv
  <1> SUFFICES ASSUME Init PROVE GridsInv
    OBVIOUS
  <1>1. grids = <<>> /\ sub = <<>>
    BY DEF Init
  <1>2. gen = [left |-> gen.left, more |-> gen.more, trees |-> gen.trees, hit |-> gen.hit,
               done |-> gen.done]
    BY DEF Init
  <1>3. GoodGrids(grids, Len(photos), gen.more) /\ GoodGrids(sub, Len(photos), gen.more)
    BY <1>1, NoGrids
  <1> QED
    BY <1>2, <1>3 DEF GridsInv

\* Each of the one_big samplers makes good grids.
LEMMA SampledGood ==
  ASSUME Len(photos) \in Nat, NEW s \in {"equal", "bigCenter", "bigLeftTop", "bigTop"}
  PROVE  GoodGrids(SampledBy(s), Len(photos), gen.more)
  <1>1. /\ SampledBy("equal") = EqualGrids(Len(photos), gen.more)
        /\ SampledBy("bigCenter") = BigCenterGrids(Len(photos), gen.more)
        /\ SampledBy("bigLeftTop") = BigLeftTopGrids(Len(photos), gen.more)
        /\ SampledBy("bigTop") = BigTopGrids(Len(photos), gen.more)
    BY DEF SampledBy
  <1>2. /\ GoodGrids(SampledBy("equal"), Len(photos), gen.more)
        /\ GoodGrids(SampledBy("bigCenter"), Len(photos), gen.more)
        /\ GoodGrids(SampledBy("bigLeftTop"), Len(photos), gen.more)
        /\ GoodGrids(SampledBy("bigTop"), Len(photos), gen.more)
    BY <1>1, EqualGood, BigCenterGood, BigLeftTopGood, BigTopGood
  <1> QED
    BY <1>2

\* The grid of a tree that was found is good.
LEMMA LastTreeGood ==
  ASSUME Inv, BranchInv, NEW more
  PROVE  GoodGrids(LastTree, Len(photos), more)
  <1> DEFINE g == SlotList(tree)
  <1>1. CASE stage = "found"
    <2>1. GoodGrid(g, Len(photos), more)
      <3>1. todo = <<>> /\ stage # "idle"
        BY <1>1 DEF Inv, ShapeInv
      <3> QED
        BY <3>1, SlotListGood
    <2> DEFINE gs == <<g>>
    <2>2. LastTree = gs
      BY <1>1, Zenon DEF LastTree
    <2> HIDE DEF g
    <2>3. gs \in Seq({g}) /\ \A h \in {g} : GoodGrid(h, Len(photos), more)
      BY <2>1
    <2> HIDE DEF gs
    <2> QED
      BY <2>2, <2>3, GridsAre
  <1>2. CASE stage # "found"
    <2>1. LastTree = <<>>
      BY <1>2, Zenon DEF LastTree
    <2> QED
      BY <2>1, NoGrids
  <1> QED
    BY <1>1, <1>2

\* Every step keeps the invariant.
LEMMA GridsStep == Inv /\ BranchInv /\ GridsInv /\ [Next]_vars => GridsInv'
  <1> SUFFICES ASSUME Inv, BranchInv, GridsInv, [Next]_vars PROVE GridsInv'
    OBVIOUS
  <1> DEFINE n == Len(photos)
             more == gen.more
             IsGen(g) == g = [left |-> g.left, more |-> g.more, trees |-> g.trees,
                              hit |-> g.hit, done |-> g.done]
  <1>1. photos' = photos /\ n \in Nat /\ IsGen(gen)
    BY SameRequest DEF Inv, TypeOK, GridsInv
  <1>2. photos # <<>> => GoodGrids(grids, n, more) /\ GoodGrids(sub, n, more)
    BY DEF GridsInv
  <1>3. ASSUME IsGen(gen'), gen'.more = more,
               photos # <<>> => GoodGrids(grids', n, more) /\ GoodGrids(sub', n, more)
        PROVE  GridsInv'
    BY <1>1, <1>3 DEF GridsInv
  <1>4. CASE GenerateDefaults
    <2>1. IsGen(gen') /\ gen'.more = more /\ photos = <<>>
      BY <1>1, <1>4 DEF GenerateDefaults
    <2> QED
      BY <1>3, <2>1
  <1>5. CASE SampleOneBig
    <2>0. PICK s \in {"equal", "bigCenter", "bigLeftTop", "bigTop"} :
            /\ \E gs \in SortedGrids(SampledBy(s)) : grids' = grids \o gs
            /\ sub' = sub
            /\ gen' = [gen EXCEPT !.left = Tail(gen.left)]
      BY <1>5 DEF SampleOneBig
    <2>1. PICK gs \in SortedGrids(SampledBy(s)) :
            /\ grids' = grids \o gs /\ sub' = sub
            /\ gen' = [gen EXCEPT !.left = Tail(gen.left)]
      BY <2>0
    <2>2. IsGen(gen') /\ gen'.more = more
      BY <1>1, <2>1
    <2>3. GoodGrids(gs, n, more)
      BY <1>1, <2>1, SampledGood, SortedGridsGood
    <2>4. photos # <<>> => GoodGrids(grids', n, more) /\ GoodGrids(sub', n, more)
      BY <1>2, <2>1, <2>3, MoreGrids
    <2> HIDE DEF IsGen
    <2> QED
      BY <1>3, <2>2, <2>4
  <1>6. CASE BeginTree
    <2>1. /\ sub' = sub \o LastTree /\ grids' = grids
          /\ gen' = [gen EXCEPT !.trees = gen.trees + 1, !.hit = Hit]
      BY <1>6 DEF BeginTree
    <2>2. IsGen(gen') /\ gen'.more = more
      BY <1>1, <2>1
    <2>3. photos # <<>> => GoodGrids(grids', n, more) /\ GoodGrids(sub', n, more)
      BY <1>2, <2>1, LastTreeGood, MoreGrids
    <2> HIDE DEF IsGen
    <2> QED
      BY <1>3, <2>2, <2>3
  <1>7. CASE EndPicWall
    <2>1. PICK gs \in SortedGrids(sub \o LastTree) :
            /\ grids' = grids \o gs /\ sub' = <<>>
            /\ gen' = [gen EXCEPT !.left = Tail(gen.left), !.hit = Hit]
      BY <1>7 DEF EndPicWall
    <2>2. IsGen(gen') /\ gen'.more = more
      BY <1>1, <2>1
    <2>3. ASSUME photos # <<>> PROVE GoodGrids(grids', n, more) /\ GoodGrids(sub', n, more)
      <3>1. GoodGrids(sub \o LastTree, n, more)
        BY <1>2, <2>3, LastTreeGood, MoreGrids
      <3>2. GoodGrids(gs, n, more)
        BY <2>1, <3>1, SortedGridsGood
      <3>3. GoodGrids(grids \o gs, n, more) /\ GoodGrids(<<>>, n, more)
        BY <1>2, <2>3, <3>2, MoreGrids, NoGrids
      <3> QED
        BY <2>1, <3>3
    <2> HIDE DEF IsGen
    <2> QED
      BY <1>3, <2>2, <2>3
  <1>8. CASE FilterGrids
    <2>1. grids' = Filtered(grids) /\ sub' = sub /\ gen' = [gen EXCEPT !.done = TRUE]
      BY <1>8 DEF FilterGrids
    <2>2. IsGen(gen') /\ gen'.more = more
      BY <1>1, <2>1
    <2>3. photos # <<>> => GoodGrids(grids', n, more) /\ GoodGrids(sub', n, more)
      BY <1>2, <2>1, FilteredGood
    <2> HIDE DEF IsGen
    <2> QED
      BY <1>3, <2>2, <2>3
  <1>9. CASE PicWallRuns \/ Returned \/ UNCHANGED vars
    <2>1. gen' = gen /\ grids' = grids /\ sub' = sub
      BY <1>9 DEF PicWallRuns, Returned, vars
    <2> HIDE DEF IsGen
    <2> QED
      BY <1>1, <1>2, <1>3, <2>1
  <1> QED
    BY <1>4, <1>5, <1>6, <1>7, <1>8, <1>9 DEF Next

\* No grid shows a photo twice or has too few slots, and one with more slots than photos
\* is made only where the policy allows it: whatever the photos and their order, the random
\* cuts, the slots adjustToSlotNumbers joins and cuts (BaseGridSampler.cpp), and the orders
\* GridsOptimizer sorts slots and grids into.
THEOREM OneSlotForEachPhoto == Spec => []OneSlotPerPhoto
  <1>1. GridsInv => OneSlotPerPhoto
    <2> SUFFICES ASSUME GridsInv, photos # <<>>, NEW i \in DOMAIN grids
                 PROVE  /\ NoPhotoTwice(grids[i]) /\ Len(grids[i]) >= Len(photos)
                        /\ Len(grids[i]) > Len(photos) => gen.more
      BY DEF OneSlotPerPhoto, NoPhotoTwice
    <2>1. GoodGrid(grids[i], Len(photos), gen.more)
      BY DEF GridsInv, GoodGrids
    <2> QED
      BY <2>1 DEF GoodGrid
  <1> QED
    BY <1>1, Invariant, BranchInit, BranchStep, GridsInit, GridsStep, PTL DEF Spec
=============================================================================
