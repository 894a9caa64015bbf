-------------------------- MODULE MCGridsGenerator --------------------------
(***************************************************************************)
(* Model checking of GridsGenerator: calls with no photos, with up to five *)
(* photos of three shapes and one without a size, and, for the samplers    *)
(* that only look at the number of photos, with up to sixteen.             *)
(***************************************************************************)
EXTENDS GridsGenerator

h == <<1, 2>>  s == <<1, 1>>  w == <<2, 1>>

Patterns == {"equal", "bigCenter", "bigLeftTop", "bigTop"}

Call(p, c, algorithms, more) ==
    [photos |-> p, canvas |-> c, algorithms |-> algorithms, more |-> more]

\* Lists of photos for the picture wall, in an order that is not sorted.
Walls == {<<w>>} \union [1 .. 2 -> {h, s, w}] \union [1 .. 3 -> {h, s, w}]
         \union { <<w, h, w, h>>, <<s, w, s, h>>, <<h, h, h, h>>, <<w, w, s, w>>,
                  <<w, s, h, s, w>>, <<h, h, h, s, h>>, <<w, h, s, w, h, s>> }

MCRequests ==
    {Call(p, c, {"picWall"}, FALSE) : p \in Walls, c \in {s, <<3, 2>>, h, <<4, 1>>}}
    \union {Call([i \in 1 .. n |-> s], s, Patterns, FALSE) : n \in 6 .. 16}
    \union {Call(<<>>, s, Patterns, m) : m \in BOOLEAN}
    \union {Call(<<s, Zero>>, s, Patterns \union {"picWall"}, m) : m \in BOOLEAN}
    \union {Call(<<w, s, s, h>>, c, Patterns \union {"picWall"}, TRUE) : c \in {s, <<3, 2>>}}

\* Four square photos on a square canvas.
Squares == {Call(<<s, s, s, s>>, s, {"equal", "picWall"}, FALSE)}

MCErrTolerance == <<9, 20>>
=============================================================================
