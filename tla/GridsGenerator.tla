--------------------------- MODULE GridsGenerator ---------------------------
(***************************************************************************)
(* GridsGenerator::generate (common/GridsGenerator.cpp): the samplers run  *)
(* one after the other on the photos, each one's grids are sorted by       *)
(* GridsOptimizer and appended, and grids with the same layout are         *)
(* filtered out at the end. PicWallSampler runs in the steps of PicWall.   *)
(***************************************************************************)
EXTENDS PicWall, OneBig

CONSTANT
    Requests,     \* the calls of generate: [photos, canvas, algorithms, more]
    MaxGenTimes   \* a bound on the trees of one picture-wall sample

\* A photo without a width or without a height, which checkPhotos refuses, has
\* the ratio Zero.
ASSUME RequestsAssumption == \A r \in Requests :
    r.photos \in Seq(Positives \union {Zero}) /\ r.canvas \in Positives

VARIABLES
    gen,     \* the state of the call: the policy, the samplers still to run,
             \* the trees the picture wall has begun, whether it has returned,
             \* and whether a tree hit by the dangling reference was used
    grids,   \* what generate has collected
    sub      \* the grids of the picture-wall sample being made

vars == <<picWallVars, gen, grids, sub>>

\* The constructor's groups, in the order generate goes through them.
Samplers == <<"equal", "bigCenter", "bigLeftTop", "bigTop", "picWall">>

SampledBy(s) ==
    CASE s = "equal"      -> EqualGrids(Len(photos), gen.more)
      [] s = "bigCenter"  -> BigCenterGrids(Len(photos), gen.more)
      [] s = "bigLeftTop" -> BigLeftTopGrids(Len(photos), gen.more)
      [] s = "bigTop"     -> BigTopGrids(Len(photos), gen.more)

----------------------------------------------------------------------------
(* GridsOptimizer *)

\* RectF::updateAspectRatio.
AspectRatio(s) == IF s.h = Zero THEN Zero ELSE Over(s.w, s.h)

compareSlotAspectRatioInOrder(a, b) == Less(AspectRatio(a), AspectRatio(b))

coordAndAreaSorter(a, b) ==
    Leq(a.x, b.x) /\ Leq(a.y, b.y) /\ Leq(a.w, b.w) /\ Leq(a.h, b.h)

ComesBefore(by, a, b) == IF by = "aspectRatio" THEN compareSlotAspectRatioInOrder(a, b)
                         ELSE coordAndAreaSorter(a, b)

\* std::sort of the library the code is built with, on at most 16 elements:
\* an element that comes before the first one goes to the front, any other
\* one moves back until it does not come before its neighbour. It accepts a
\* comparison that is not an order.
Inserted(by, done, e) ==
    LET k == IF done = <<>> \/ ComesBefore(by, e, done[1]) THEN 0
             ELSE Max({i \in DOMAIN done : ~ComesBefore(by, e, done[i])})
    IN InsertAt(done, k + 1, e)

StdSort(s, by) == FoldLeft(LAMBDA done, e : Inserted(by, done, e), <<>>, s)

\* sort: the slots of every grid by aspect ratio, then the grids by penalty,
\* a measure of comfort that is left open: any order may come out.
SortedGrids(gs) ==
    LET slots == [i \in DOMAIN gs |-> StdSort(gs[i], "aspectRatio")]
    IN {[i \in DOMAIN gs |-> slots[f[i]]] :
          f \in {f \in [DOMAIN gs -> DOMAIN gs] : IsInjective(f)}}

\* approximatelyEqual with GRID_STRUCTURALLY_EQUAL_EPSILON, 0.3 of the larger.
ApproximatelyEqual(a, b) == Leq(Dist(a, b), Times(Larger(a, b), <<3, 10>>))

SameSlot(a, b) == /\ ApproximatelyEqual(a.x, b.x)
                  /\ ApproximatelyEqual(a.y, b.y)
                  /\ ApproximatelyEqual(a.w, b.w)
                  /\ ApproximatelyEqual(a.h, b.h)

IsTwoGridStructurallyEqual(a, b) ==
    Len(a) = Len(b) /\ \A i \in DOMAIN a : SameSlot(a[i], b[i])

\* filterStructurallyEqualGrids: a grid is erased if one kept before it has
\* the same slots, slot by slot in their sorted order.
KeepNew(kept, g) ==
    IF \E k \in DOMAIN kept : IsTwoGridStructurallyEqual(kept[k], g)
    THEN kept ELSE Append(kept, g)

Filtered(gs) ==
    FoldLeft(KeepNew, <<>>, [i \in DOMAIN gs |-> StdSort(gs[i], "coordAndArea")])

----------------------------------------------------------------------------

\* The picture-wall sampler draws 3 + log(photos) trees for more than four
\* photos; std::log is the natural one.
GenTimes == LET n == Len(photos)
                draws == IF n <= 4 THEN 1 ELSE IF n <= 7 THEN 4 ELSE 5
            IN IF draws > MaxGenTimes THEN MaxGenTimes ELSE draws

\* Util::checkPhotos: no photo has a zero side.
CheckPhotos == \A p \in DOMAIN photos : photos[p] # Zero

Init ==
    \E r \in Requests :
      /\ photos = r.photos /\ canvas = r.canvas
      /\ PicWallInit
      /\ gen = [left |-> SelectSeq(Samplers, LAMBDA s : s \in r.algorithms),
              more |-> r.more, trees |-> 0, hit |-> FALSE, done |-> FALSE]
      /\ grids = <<>> /\ sub = <<>>

\* With no photos there is a fixed list of grids, neither sorted nor filtered.
GenerateDefaults ==
    /\ photos = <<>> /\ ~gen.done
    /\ gen' = [gen EXCEPT !.done = TRUE, !.left = <<>>]
    /\ grids' = EqualGrids(2, gen.more) \o EqualGrids(3, gen.more)
                \o EqualGrids(4, gen.more) \o BigCenterGrids(5, gen.more)
                \o EqualGrids(6, gen.more) \o BigLeftTopGrids(8, gen.more)
                \o EqualGrids(9, gen.more) \o BigCenterGrids(9, gen.more)
    /\ UNCHANGED <<picWallVars, sub>>

Running(s) == photos # <<>> /\ gen.left # <<>> /\ Head(gen.left) = s

SampleOneBig ==
    \E s \in {"equal", "bigCenter", "bigLeftTop", "bigTop"} :
      /\ Running(s)
      /\ \E gs \in SortedGrids(SampledBy(s)) : grids' = grids \o gs
      /\ gen' = [gen EXCEPT !.left = Tail(@)]
      /\ UNCHANGED <<picWallVars, sub>>

\* The grid of the last tree, if optimize found one.
LastTree == IF stage = "found" THEN <<SlotList(tree)>> ELSE <<>>
Hit == gen.hit \/ (stage = "found" /\ realAt \notin {Nowhere, 1})

\* The next of the trees of the picture-wall sample is begun.
BeginTree ==
    /\ Running("picWall") /\ CheckPhotos
    /\ stage \in {"idle", "found", "gaveUp"}
    /\ gen.trees < GenTimes
    /\ gen' = [gen EXCEPT !.trees = @ + 1, !.hit = Hit]
    /\ sub' = sub \o LastTree
    /\ SampleTree
    /\ UNCHANGED grids

PicWallRuns == PicWallStep /\ UNCHANGED <<gen, grids, sub>>

EndPicWall ==
    /\ Running("picWall")
    /\ stage \in {"idle", "found", "gaveUp"}
    /\ ~CheckPhotos \/ gen.trees = GenTimes
    /\ \E gs \in SortedGrids(sub \o LastTree) : grids' = grids \o gs
    /\ sub' = <<>>
    /\ gen' = [gen EXCEPT !.left = Tail(@), !.hit = Hit]
    /\ UNCHANGED picWallVars

FilterGrids ==
    /\ photos # <<>> /\ gen.left = <<>> /\ ~gen.done
    /\ grids' = Filtered(grids)
    /\ gen' = [gen EXCEPT !.done = TRUE]
    /\ UNCHANGED <<picWallVars, sub>>

Returned == gen.done /\ UNCHANGED vars

Next == \/ GenerateDefaults \/ SampleOneBig \/ BeginTree \/ PicWallRuns
        \/ EndPicWall \/ FilterGrids \/ Returned

\* generate runs on its caller's thread: a tree that is begun goes on. This is
\* weak fairness of PicWallRuns, which is enabled exactly while Sampling.
Fairness == []<>(~Sampling) \/ []<><<PicWallRuns>>_vars

Spec == Init /\ [][Next]_vars /\ Fairness

----------------------------------------------------------------------------

\* No two slots overlap and together they cover the canvas.
Tiles(g) ==
    /\ \A i, j \in DOMAIN g : i < j =>
         \/ Leq(Right(g[i]), g[j].x) \/ Leq(Right(g[j]), g[i].x)
         \/ Leq(Bottom(g[i]), g[j].y) \/ Leq(Bottom(g[j]), g[i].y)
    /\ \A i \in DOMAIN g : /\ Leq(Zero, g[i].x) /\ Leq(Right(g[i]), One)
                           /\ Leq(Zero, g[i].y) /\ Leq(Bottom(g[i]), One)
    /\ FoldLeft(LAMBDA area, s : Plus(area, Times(s.w, s.h)), Zero, g) = One

\* Every grid covers the canvas with slots that do not overlap, whatever
\* slots adjustToSlotNumbers has merged or cut and however the cuts of the
\* tree were changed after the photos had been placed: as
\* long as no tree used had a ratio overwritten through the reference.
GridsTile == ~gen.hit => \A i \in DOMAIN grids : Tiles(grids[i])

\* No grid shows a photo twice or has fewer slots than photos, although
\* slots are merged, cut and linked by position; a grid has more slots than
\* photos only where the policy allows it.
OneSlotPerPhoto ==
    photos # <<>> =>
      \A i \in DOMAIN grids :
        /\ \A j, k \in DOMAIN grids[i] :
             j # k => \/ grids[i][j].photo = 0
                      \/ grids[i][j].photo # grids[i][k].photo
        /\ Len(grids[i]) >= Len(photos)
        /\ Len(grids[i]) > Len(photos) => gen.more

\* optimize returns: each tree is adjusted, and trees that do not fit are
\* drawn again, only so often, although every new tree sets the count of the
\* adjustments back.
OptimizeReturns == stage = "creating" ~> stage \in {"found", "gaveUp"}

\* "Filter out the grid with similar layouts.": no two grids have the same
\* rectangles.
NoLayoutTwice ==
    gen.done /\ photos # <<>> =>
      \A i, j \in DOMAIN grids :
        LET rects(g) == {<<g[k].x, g[k].y, g[k].w, g[k].h>> : k \in DOMAIN g}
        IN i < j => rects(grids[i]) # rects(grids[j])
=============================================================================
