------------------------------- MODULE PicWall -------------------------------
(***************************************************************************)
(* PicWallSampler (algorithm/pic_wall_6694305): a binary tree that cuts    *)
(* the canvas, built top-down with one photo per leaf, whose cuts are then *)
(* adjusted until the tree's aspect ratio is close to the canvas's.        *)
(*                                                                         *)
(* A tree is a function from node numbers to nodes: the root is 1 and the  *)
(* children of n are 2n and 2n + 1. A photo is its index in the list given *)
(* to the sampler, which holds their constrained aspect ratios.            *)
(***************************************************************************)
EXTENDS Ratios, Sequences, SequencesExt, FiniteSets, FiniteSetsExt, Functions

CONSTANTS
    ErrTolerance,      \* errToleranceRate, a fraction
    MaxOptIterations,  \* maxOptIterations
    MaxSampleRepeat    \* maxSampleRepeat

\* sample, through which the library is used, passes 0.45, 50 and 2.
ASSUME PicWallAssumption ==
    /\ Less(Zero, ErrTolerance)
    /\ MaxOptIterations \in Nat \ {0}
    /\ MaxSampleRepeat \in Nat

VARIABLES
    photos,         \* the aspect ratios of the photos
    canvas,         \* canvas.aspectRatio
    mPhotos,        \* the photos, sorted
    pool,           \* mLocalPhotos: those of them not yet placed
    search,         \* the search in the pool that the innermost call is in
    todo,           \* the calls of createNode still to make, innermost first
    tree,           \* the tree under localRoot
    iterCount,
    reSampleCount,
    oddSeed,        \* the lowest bit of Math's sSeed
    realAt,         \* the node whose actualVal realCanvasAspectRatio refers to
    stage           \* where sampleTree is

callVars    == <<photos, canvas, mPhotos>>
countVars   == <<iterCount, reSampleCount, realAt, stage>>
picWallVars == <<callVars, pool, search, todo, tree, oddSeed, countVars>>

\* realCanvasAspectRatio refers to no node of the tree.
Nowhere == 0

IsLeaf(t, n) == t[n].type = "leaf"

Node(type, target, p) ==
    [type |-> type, target |-> target, photo |-> p,
     actual |-> IF p = 0 THEN Zero ELSE photos[p]]

Leaves(t) == {n \in DOMAIN t : IsLeaf(t, n)}

----------------------------------------------------------------------------
(* The searches in the sorted pool *)

\* compareAspectRatio; the sort keeps the order of equal photos.
Before(p, q) == \/ Less(photos[p], photos[q])
                \/ photos[p] = photos[q] /\ p < q

SortedOrders ==
    {s \in Bijection(DOMAIN photos, DOMAIN photos) :
       \A i, j \in DOMAIN photos : i < j => Before(s[i], s[j])}

Cuts == {"V", "H"}

\* Every search begins at both ends of the pool: the binary search for one
\* photo, and, for two, one walk of i and j towards each other for either
\* cut, which keeps the best pair so far.
WholePool(s) == [cut |-> "V", i |-> 1, j |-> Len(s),
                 best |-> [c \in Cuts |-> <<1, Len(s)>>]]

\* The innermost call of createNode is to place num photos.
Placing(num) == todo # <<>> /\ Head(todo).num = num
Target == Head(todo).target

At(i) == photos[pool[i]]

\* A turn of the loop of findOneImageFor. A photo that fits exactly ends it.
Bisect ==
    /\ Placing(1) /\ search.i + 1 < search.j
    /\ LET mid == (search.i + search.j) \div 2
       IN \/ /\ At(mid) = Target
             /\ search' = [search EXCEPT !.i = mid, !.j = mid]
          \/ /\ At(mid) # Target /\ Less(Target, At(mid))
             /\ search' = [search EXCEPT !.j = mid - 1]
          \/ /\ At(mid) # Target /\ ~Less(Target, At(mid))
             /\ search' = [search EXCEPT !.i = mid + 1]
    /\ UNCHANGED <<callVars, pool, todo, tree, oddSeed, countVars>>

\* The end of findOneImageFor: the position of the photo for the leaf.
Finder == IF Less(Dist(At(search.i), Target), Dist(At(search.j), Target))
          THEN search.i ELSE search.j

\* Side by side the aspect ratios add up, one above the other their
\* reciprocals do.
Sum(cut, p) == IF cut = "V" THEN Plus(At(p[1]), At(p[2]))
               ELSE Plus(Recip(At(p[1])), Recip(At(p[2])))
Aim(cut) == IF cut = "V" THEN Target ELSE Recip(Target)

Nearer(cut, p, q) ==
    IF Less(Dist(Sum(cut, p), Aim(cut)), Dist(Sum(cut, q), Aim(cut))) THEN p ELSE q

\* A mutant: the reciprocals are taken to rise along the pool, too.
UpperEndFirst(cut, tooBig) == tooBig

\* Whether the next pair leaves out the upper end: the ratios rise along the
\* pool, their reciprocals fall.
LeavesUpperEnd(cut, tooBig) == tooBig = (cut = "V")

\* A turn of a loop of findTwoImagesFor. A pair that fits exactly ends it.
Walk ==
    /\ Placing(2) /\ search.i < search.j
    /\ LET c == search.cut
           pair == <<search.i, search.j>>
           upper == LeavesUpperEnd(c, Less(Aim(c), Sum(c, pair)))
       IN \/ /\ Sum(c, pair) = Aim(c)
             /\ search' = [search EXCEPT !.best[c] = pair, !.j = search.i]
          \/ /\ Sum(c, pair) # Aim(c)
             /\ search' = [search EXCEPT !.best[c] = Nearer(c, pair, @),
                                         !.i = IF upper THEN @ ELSE @ + 1,
                                         !.j = IF upper THEN @ - 1 ELSE @]
    /\ UNCHANGED <<callVars, pool, todo, tree, oddSeed, countVars>>

\* After the loop for the vertical cut comes the one for the horizontal cut.
TurnWalk ==
    /\ Placing(2) /\ search.i >= search.j /\ search.cut = "V"
    /\ search' = [search EXCEPT !.cut = "H", !.i = 1, !.j = Len(pool)]
    /\ UNCHANGED <<callVars, pool, todo, tree, oddSeed, countVars>>

\* The aspect ratio of two parts side by side, and one above the other.
Beside(a, b) == Plus(a, b)
Stacked(a, b) == Over(Times(a, b), Plus(a, b))

\* The end of findTwoImagesFor: the cut of the parent of two leaves, and
\* their positions in the pool, from the best pair for either cut.
FoundTwo ==
    LET v == search.best["V"]
        h == search.best["H"]
    IN IF Leq(Misfit(Beside(At(v[1]), At(v[2])), Target),
              Misfit(Stacked(At(h[1]), At(h[2])), Target))
       THEN [type |-> "V", i |-> v[1], j |-> v[2]]
       ELSE [type |-> "H", i |-> h[1], j |-> h[2]]

\* A mutant: the second position is not corrected.
EraseBothAt(s, i, j) == RemoveAt(RemoveAt(s, i), IF j > Len(s) - 1 THEN j - 1 ELSE j)

\* The two erasures: the second position has moved by one after the first.
EraseTwo(s, i, j) == RemoveAt(RemoveAt(s, i), j - 1)

----------------------------------------------------------------------------
(* calculateAspectRatioAt, adjustAspectRatioAt, calculateLayoutRect *)

\* What a child is aimed at when its parent has the target and the cut.
ChildTarget(target, type) == IF type = "V" THEN Half(target) ELSE Double(target)

\* The aspect ratios of the nodes: the leaves have theirs, the others get it
\* from their children.
RatiosOf(type, leaf) ==
    LET ar[n \in DOMAIN type \ DOMAIN leaf] ==
            LET of(m) == IF m \in DOMAIN leaf THEN leaf[m] ELSE ar[m]
            IN IF type[n] = "V" THEN Beside(of(2 * n), of(2 * n + 1))
               ELSE Stacked(of(2 * n), of(2 * n + 1))
    IN [n \in DOMAIN type |-> IF n \in DOMAIN leaf THEN leaf[n] ELSE ar[n]]

Types(t) == [n \in DOMAIN t |-> t[n].type]

Calculated(t) ==
    LET ar == RatiosOf(Types(t), [n \in Leaves(t) |-> t[n].actual])
    IN [n \in DOMAIN t |-> [t[n] EXCEPT !.actual = ar[n]]]

\* realCanvasAspectRatio = calculateAspectRatioAt(localRoot): the root's
\* ratio is also stored where the reference points. In a node other than the
\* root it is a value that has nothing to do with the node: kept to eighths,
\* so that the fractions computed from it stay small.
Eighths(a) == Frac(Max({1, (8 * a[1]) \div a[2]}), 8)

Measured(t, at) ==
    LET c == Calculated(t)
    IN IF at \in {Nowhere, 1} THEN c
       ELSE [c EXCEPT ![at].actual = Eighths(c[1].actual)]

\* errToleranceRate2
NodeTolerance == Plus(One, Half(ErrTolerance))

\* The cut of a node that has the target.
CutFor(node, target) ==
    IF node.type = "leaf" THEN "leaf"
    ELSE IF Less(Times(target, NodeTolerance), node.actual) THEN "H"
    ELSE IF Less(node.actual, Over(target, NodeTolerance)) THEN "V"
    ELSE node.type

\* The targets, from the root's down.
Targets(t) ==
    LET target[n \in DOMAIN t] ==
            IF n = 1 THEN t[1].target
            ELSE ChildTarget(target[n \div 2], CutFor(t[n \div 2], target[n \div 2]))
    IN target

AdjustedTree(t) ==
    LET target == Targets(t)
    IN [n \in DOMAIN t |-> [t[n] EXCEPT !.target = target[n],
                                        !.type = CutFor(t[n], target[n])]]

\* calculateChildLayoutRectAt, from a root of width 1: the first child gets
\* what its aspect ratio asks for, the second one what is left.
ChildLayoutRects(t) ==
    LET rect[n \in DOMAIN t] ==
            LET up == rect[n \div 2]
                w == Times(up.h, t[2 * (n \div 2)].actual)
                h == Over(up.w, t[2 * (n \div 2)].actual)
                first == n % 2 = 0
            IN IF n = 1 THEN [x |-> Zero, y |-> Zero, w |-> One, h |-> Recip(t[1].actual)]
               ELSE IF t[n \div 2].type = "V"
               THEN [up EXCEPT !.x = IF first THEN @ ELSE Plus(@, w),
                               !.w = IF first THEN w ELSE Minus(@, w)]
               ELSE [up EXCEPT !.y = IF first THEN @ ELSE Plus(@, h),
                               !.h = IF first THEN h ELSE Minus(@, h)]
    IN rect

\* The height is scaled to fill the canvas.
Scaled(r, rootHeight, p) ==
    [x |-> r.x, y |-> Over(r.y, rootHeight), w |-> r.w,
     h |-> Over(r.h, rootHeight), photo |-> p]

Layout(t, rects) ==
    [n \in Leaves(t) |-> Scaled(rects[n], rects[1].h, t[n].photo)]

\* toSlotList: the leaves from the first to the last.
SlotList(t) ==
    LET under[n \in DOMAIN t] ==
            IF IsLeaf(t, n) THEN <<n>> ELSE under[2 * n] \o under[2 * n + 1]
        slot == Layout(t, ChildLayoutRects(t))
    IN [k \in DOMAIN under[1] |-> slot[under[1][k]]]

----------------------------------------------------------------------------
(* sampleTree, createTree, createNode, optimize *)

PicWallInit ==
    /\ mPhotos = <<>> /\ pool = <<>> /\ todo = <<>> /\ tree = <<>>
    /\ search = WholePool(<<>>)
    /\ iterCount = 0 /\ reSampleCount = 0
    /\ oddSeed \in BOOLEAN
    /\ realAt = Nowhere
    /\ stage = "idle"

CreateTree(sorted) ==
    /\ pool' = sorted
    /\ search' = WholePool(sorted)
    /\ todo' = <<[node |-> 1, target |-> canvas, num |-> Len(photos)]>>
    /\ tree' = <<>>

SampleTree ==
    /\ stage \in {"idle", "found", "gaveUp"}
    /\ mPhotos' \in SortedOrders
    /\ CreateTree(mPhotos')
    /\ iterCount' = 0 /\ reSampleCount' = 0
    /\ realAt' = 1
    /\ stage' = "creating"
    /\ UNCHANGED <<photos, canvas, oddSeed>>

Place(nodes, calls, left) ==
    /\ tree' = [n \in DOMAIN tree \union DOMAIN nodes |->
                 IF n \in DOMAIN tree THEN tree[n] ELSE nodes[n]]
    /\ todo' = calls \o Tail(todo)
    /\ pool' = left
    /\ search' = WholePool(left)
    /\ UNCHANGED <<callVars, countVars>>

CreateLeaf ==
    /\ Placing(1) /\ search.i + 1 >= search.j
    /\ Place([n \in {Head(todo).node} |-> Node("leaf", Target, pool[Finder])],
             <<>>, RemoveAt(pool, Finder))
    /\ UNCHANGED oddSeed

PlacePair(c, two) ==
    LET child(k) == Node("leaf", ChildTarget(c.target, two.type), pool[k])
    IN Place([n \in {c.node, 2 * c.node, 2 * c.node + 1} |->
                CASE n = c.node         -> Node(two.type, c.target, 0)
                  [] n = 2 * c.node     -> child(two.i)
                  [] n = 2 * c.node + 1 -> child(two.j)],
             <<>>, EraseTwo(pool, two.i, two.j))

CreatePair ==
    /\ Placing(2) /\ search.i >= search.j /\ search.cut = "H"
    /\ PlacePair(Head(todo), FoundTwo)
    /\ UNCHANGED oddSeed

\* The cut is random, the lowest bit of the next random number, unless the
\* target is too far from the canvas. The lowest bit of Math::rand alternates.
CreateDivision ==
    /\ todo # <<>> /\ Head(todo).num > 2
    /\ oddSeed' = ~oddSeed
    /\ LET c == Head(todo)
           type == IF Less(c.target, Half(canvas)) THEN "H"
                   ELSE IF Less(Double(canvas), c.target) \/ oddSeed' THEN "V"
                   ELSE "H"
           target == ChildTarget(c.target, type)
           few == c.num \div 2
       IN Place([n \in {c.node} |-> Node(type, c.target, 0)],
                <<[node |-> 2 * c.node, target |-> target, num |-> few],
                  [node |-> 2 * c.node + 1, target |-> target, num |-> c.num - few]>>,
                pool)

\* The tree is complete. optimize binds realCanvasAspectRatio to the root of
\* the first one. A second tree is created after the first was freed: the
\* reference then dangles, and points to free memory or to whichever node of
\* the new tree the allocator put there.
Measure(redrawn, over) ==
    /\ stage \in {"creating", "recreating"} /\ todo = <<>>
    /\ realAt' \in IF stage = "creating" THEN {1} ELSE {Nowhere} \union DOMAIN tree
    /\ tree' = Measured(tree, realAt')
    /\ reSampleCount' = reSampleCount + redrawn
    /\ stage' = IF reSampleCount' > MaxSampleRepeat THEN over ELSE "optimizing"
    /\ UNCHANGED <<callVars, pool, search, todo, iterCount, oddSeed>>

Redrawn == IF stage = "creating" THEN 0 ELSE 1

MeasureReturnsTheLast == Measure(Redrawn, "found")        \* a mutant
MeasureUncounted == Measure(0, "gaveUp")                  \* a mutant

MeasureTree == Measure(Redrawn, "gaveUp")

Fits(ratio) == /\ Leq(ratio, Times(canvas, Plus(One, ErrTolerance)))
               /\ Leq(Over(canvas, Plus(One, ErrTolerance)), ratio)

\* The value just stored through the reference is the one the loop reads.
RealRatio == tree[1].actual

\* A turn of the loop of optimize.
AdjustTree ==
    /\ stage = "optimizing" /\ ~Fits(RealRatio) /\ iterCount < MaxOptIterations
    /\ LET t == AdjustedTree(tree)
           changed == \E n \in DOMAIN t : t[n].type # tree[n].type
       IN IF ~changed \/ iterCount + 1 >= MaxOptIterations
          THEN /\ CreateTree(mPhotos)
               /\ iterCount' = 0
               /\ stage' = "recreating"
          ELSE /\ tree' = Measured(t, realAt)
               /\ iterCount' = iterCount + 1
               /\ UNCHANGED <<pool, search, todo, stage>>
    /\ UNCHANGED <<callVars, reSampleCount, oddSeed, realAt>>

ReturnTree ==
    /\ stage = "optimizing" /\ (Fits(RealRatio) \/ iterCount >= MaxOptIterations)
    /\ stage' = "found"
    /\ UNCHANGED <<callVars, pool, search, todo, tree, oddSeed,
                   iterCount, reSampleCount, realAt>>

\* sampleTree has not returned.
Sampling == stage \in {"creating", "recreating", "optimizing"}

PicWallStep == \/ Bisect \/ CreateLeaf \/ Walk \/ TurnWalk \/ CreatePair
               \/ CreateDivision \/ MeasureTree \/ AdjustTree \/ ReturnTree

----------------------------------------------------------------------------

\* While createNode distributes the photos, and when it is done, every photo
\* is either on one leaf or in the pool, once: the positions the searches
\* return are the ones erased (findTwoImagesFor erases two, shifting the
\* second), and the counts given to the recursive calls add up.
EachPhotoPlacedOnce ==
    stage # "idle" =>
      \A p \in DOMAIN photos :
        Cardinality({n \in Leaves(tree) : tree[n].photo = p})
          + Cardinality({i \in DOMAIN pool : pool[i] = p}) = 1

\* A tree that sampleTree returns has the canvas's aspect ratio within the
\* tolerance, computed from the photos on its leaves rather than from what
\* its nodes store: the promise of "Return non-null pointer if it could find
\* an optimal solution." Once the dangling reference has hit a leaf of the
\* new tree, that leaf's stored ratio is no longer its photo's.
TrueRatio == RatiosOf(Types(tree), [n \in Leaves(tree) |-> photos[tree[n].photo]])[1]

FoundTreeFits ==
    stage = "found" /\ realAt \in {Nowhere, 1} => Fits(TrueRatio)

\* The two photos just placed are the nearest pair of the pool.
NearestIsPlaced ==
    Placing(2) /\ Head(todo).node \in DOMAIN tree' =>
      LET c == Head(todo)
          value(p) == IF tree'[c.node].type = "V" THEN photos[p] ELSE Recip(photos[p])
          aim == IF tree'[c.node].type = "V" THEN c.target ELSE Recip(c.target)
          off(p, q) == Dist(Plus(value(p), value(q)), aim)
      IN \A i, j \in DOMAIN pool :
           i < j => Leq(off(tree'[2 * c.node].photo, tree'[2 * c.node + 1].photo),
                        off(pool[i], pool[j]))

\* findTwoImagesFor takes, for the cut it decides on, the best pair there is:
\* no two photos of the pool make a part whose aspect ratio (or, for a
\* horizontal cut, its reciprocal) is nearer to the target. Walking from both
\* ends must not step over it.
PairIsTheNearest == [][NearestIsPlaced]_picWallVars
=============================================================================
