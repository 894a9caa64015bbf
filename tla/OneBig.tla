------------------------------- MODULE OneBig -------------------------------
(***************************************************************************)
(* The samplers of algorithm/one_big: grids made of a fixed pattern of     *)
(* slots for a number of photos, evened out by adjustToSlotNumbers.        *)
(*                                                                         *)
(* more says that genPolicy is GEN_POLICY_SLOTS_COULD_BE_MORE_THAN_PHOTOS.  *)
(* A slot is its normalized rectangle and the photo linked to it, 0 when   *)
(* it has none; a grid is the sequence of its slots.                       *)
(***************************************************************************)
EXTENDS Ratios, Sequences, SequencesExt, FiniteSetsExt

Slot(x, y, w, h, p) == [x |-> x, y |-> y, w |-> w, h |-> h, photo |-> p]

Right(s)  == Plus(s.x, s.w)
Bottom(s) == Plus(s.y, s.h)

----------------------------------------------------------------------------
(* adjustToSlotNumbers *)

LeftOf(a, b) == /\ b.y = a.y
                /\ b.x = Right(a)
                /\ b.h = a.h

Above(a, b) == /\ b.x = a.x
               /\ b.y = Bottom(a)
               /\ b.w = a.w

\* One turn of the merging loop: the last slot is joined to the first slot
\* it continues, and the two leave the grid for the list of merged slots,
\* which have no photo.
MergeLast(st) ==
    LET s == st.slots
        last == Last(s)
        partners == {k \in DOMAIN s : LeftOf(s[k], last) \/ Above(s[k], last)}
        k == Min(partners)
        joined == IF LeftOf(s[k], last)
                  THEN Slot(s[k].x, s[k].y, Plus(s[k].w, last.w), s[k].h, 0)
                  ELSE Slot(s[k].x, s[k].y, s[k].w, Double(s[k].h), 0)
    IN IF partners = {} THEN st
       ELSE [slots |-> RemoveAt(Front(s), k),
             merged |-> Append(st.merged, joined)]

Merged(slots, t) ==
    LET end == FoldLeft(LAMBDA st, i : MergeLast(st),
                        [slots |-> slots, merged |-> <<>>], [i \in 1 .. t |-> i])
    IN end.slots \o end.merged

FirstUncut(s) == s                                                \* a mutant

\* The first half keeps the slot's photo, the second one has none.
FirstHalf(s) == IF Less(s.h, s.w) THEN [s EXCEPT !.w = Half(s.w)]
                                  ELSE [s EXCEPT !.h = Half(s.h)]
HalfWith(s, p) ==
    IF Less(s.h, s.w)
    THEN Slot(Plus(s.x, Half(s.w)), s.y, Half(s.w), s.h, p)
    ELSE Slot(s.x, Plus(s.y, Half(s.h)), s.w, Half(s.h), p)

SecondIsACopy(s) == HalfWith(s, s.photo)                          \* a mutant

SecondHalf(s) == HalfWith(s, 0)

\* The last t slots, or all of them if there are fewer, are cut in two.
Split(slots, t) ==
    LET n == Len(slots)
        keep == IF n > t THEN n - t ELSE 0
        cut == SubSeq(slots, keep + 1, n)
    IN SubSeq(slots, 1, keep) \o [i \in DOMAIN cut |-> FirstHalf(cut[i])]
                              \o [i \in DOMAIN cut |-> SecondHalf(cut[i])]

Adjusted(slots, n) ==
    IF Len(slots) > n THEN Merged(slots, Len(slots) - n)
    ELSE IF Len(slots) < n THEN Split(slots, n - Len(slots))
    ELSE slots

\* Every sampler keeps an adjusted grid only if it got the number of slots.
Kept(slots, n) == SetToSeq({g \in {Adjusted(slots, n)} : Len(g) = n})

\* The number of slots to generate for n photos, 0 for none at all.
SlotNum(n, least, more) == IF n >= least THEN n
                     ELSE IF more THEN least ELSE 0

\* cols x rows slots in the rectangle, row by row, linked to photos from p.
Cells(x, y, w, h, cols, rows, linked, p) ==
    [i \in 1 .. cols * rows |->
       Slot(Plus(x, Times(w, <<(i - 1) % cols, 1>>)),
            Plus(y, Times(h, <<(i - 1) \div cols, 1>>)),
            w, h, IF linked THEN p + i - 1 ELSE 0)]

----------------------------------------------------------------------------
(* EqualGridSampler *)

maxCols == 5

ByColsRows(cols, rows) ==
    Cells(Zero, Zero, Frac(1, cols), Frac(1, rows), cols, rows, TRUE, 1)

\* The whole part of the square root.
Root(n) == Max({r \in 0 .. n : r * r <= n})

EqualGrids(photosNum, more) ==
    LET n == SlotNum(photosNum, 2, more)
        exact == {c \in 1 .. maxCols : n % c = 0 /\ n \div c <= maxCols}
        fits(c) == Kept(ByColsRows(c, n \div c), n)
        k == Root(n)
    IN IF n = 0 THEN <<>>
       ELSE IF exact # {}
       THEN FlattenSeq([i \in 1 .. maxCols |->
              LET c == maxCols + 1 - i IN IF c \in exact THEN fits(c) ELSE <<>>])
       ELSE IF n - k * k < k * (k + 1) - n
       THEN Kept(ByColsRows(k, k), n)
       ELSE Kept(ByColsRows(k, k + 1), n) \o Kept(ByColsRows(k + 1, k), n)

----------------------------------------------------------------------------
(* BigCenterGridSampler *)

\* A side is cut along its longer edge into the same number of slots.
Divided(s, each) ==
    IF Less(s.h, s.w)
    THEN Cells(s.x, s.y, Over(s.w, <<each, 1>>), s.h, each, 1, FALSE, 0)
    ELSE Cells(s.x, s.y, s.w, Over(s.h, <<each, 1>>), 1, each, FALSE, 0)

BigCenterGrids(photosNum, more) ==
    LET n == SlotNum(photosNum, 5, more)
        q == <<1, 4>>  tq == <<3, 4>>
        sides == << Slot(tq, q, q, tq, 0), Slot(Zero, Zero, q, tq, 0),
                    Slot(q, Zero, tq, q, 0), Slot(Zero, tq, tq, q, 0) >>
        each == (n - 1) \div 4
    IN IF n = 0 THEN <<>>
       ELSE Kept(<<Slot(q, q, <<1, 2>>, <<1, 2>>, 0)>>
                 \o FlattenSeq([i \in 1 .. 4 |-> Divided(sides[i], each)]), n)

----------------------------------------------------------------------------
(* BigTopGridSampler *)

BigTopGrids(photosNum, more) ==
    LET n == SlotNum(photosNum, 2, more)
        k == Root(n)
        top == <<3, 8>>
    IN IF n = 0 THEN <<>>
       ELSE Kept(<<Slot(Zero, Zero, One, top, 0)>>
                 \o Cells(Zero, top, Frac(1, k), Frac(5, 8 * k), k, k, FALSE, 0), n)

----------------------------------------------------------------------------
(* BigLeftTopGridSampler *)

\* round(sqrt(n))
RoundRoot(n) == CHOOSE r \in 0 .. n : /\ (2 * r + 1) * (2 * r + 1) > 4 * n
                                      /\ r > 0 => (2 * r - 1) * (2 * r - 1) < 4 * n

LeastRows(n) == LET q == n \div 4 IN IF q < 1 THEN 1 ELSE IF q > 2 THEN 2 ELSE q

\* The splits of m slots into two blocks the search loop visits.
BlockPairs(m, max) ==
    {b \in [row : 1 .. 2, col : 1 .. max, row2 : 1 .. 2, col2 : 1 .. m] :
       LET v == m - b.row * b.col
       IN /\ v > 0
          /\ b.row >= LeastRows(m)
          /\ b.row2 >= LeastRows(v)
          /\ b.col2 <= RoundRoot(v) + 1
          /\ v = b.row2 * b.col2}

\* a comes before b in the search: columns downwards, rows upwards.
Earlier(a, b) ==
    \/ a.col > b.col
    \/ a.col = b.col /\ a.row < b.row
    \/ a.col = b.col /\ a.row = b.row /\ a.col2 > b.col2
    \/ a.col = b.col /\ a.row = b.row /\ a.col2 = b.col2 /\ a.row2 <= b.row2

FirstPair(pairs) == CHOOSE a \in pairs : \A b \in pairs : Earlier(a, b)

\* The pair found for n - 1 slots, or for the next smaller number that has one.
FoundPair(n, max) ==
    FirstPair(BlockPairs(Max({m \in 1 .. n - 1 : BlockPairs(m, max) # {}}), max))

\* A block is <<rows, columns>>. The wider one of the pair goes to the bottom,
\* the other one to the right, upright.
Upright(r) == IF r[1] = 1 \/ r[2] < r[1] THEN <<r[2], r[1]>> ELSE r

Blocks(f) == IF f.col > f.col2
             THEN [bottom |-> <<f.row, f.col>>, right |-> Upright(<<f.row2, f.col2>>)]
             ELSE [bottom |-> <<f.row2, f.col2>>, right |-> Upright(<<f.row, f.col>>)]

\* The big slot is w x h, a slot of the bottom block bw x bh.
FrameSlots(b, r, w, h, bw, bh) ==
    <<Slot(Zero, Zero, w, h, 1)>>
    \o Cells(Zero, h, bw, bh, b[2], b[1], TRUE, 2)
    \o Cells(w, Zero,
             Smaller(Over(Minus(One, w), <<r[2], 1>>), Times(bw, <<r[2], 1>>)),
             Over(Minus(One, Times(bh, <<b[1], 1>>)), <<r[1], 1>>),
             r[2], r[1], TRUE, 2 + b[1] * b[2])

SizedFrame(b, r, w, h) ==
    FrameSlots(b, r, w, h, Frac(1, b[2]), Over(Minus(One, h), <<b[1], 1>>))

LeftTopFrame(m) ==
    SizedFrame(m.bottom, m.right,
               Larger(<<2, 5>>, Frac(m.bottom[2] - m.right[2], m.bottom[2])),
               Larger(<<2, 5>>, Frac(4 - m.bottom[1], 4)))

BigLeftTopGrids(photosNum, more) ==
    LET n == SlotNum(photosNum, 3, more)
    IN IF n = 0 THEN <<>>
       ELSE Kept(LeftTopFrame(Blocks(FoundPair(n, RoundRoot(n) + 1))), n)
=============================================================================
