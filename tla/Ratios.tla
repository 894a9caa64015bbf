------------------------------- MODULE Ratios -------------------------------
(***************************************************************************)
(* Exact fractions <<numerator, denominator>> in lowest terms, standing    *)
(* for the floats of the photo-collage library: its aspect ratios and its  *)
(* normalized coordinates are sums, products and quotients of small        *)
(* fractions, and what its properties tell apart (which of two is larger,  *)
(* whether two edges meet) is far coarser than a float's rounding.         *)
(***************************************************************************)
EXTENDS Integers

Abs(n) == IF n < 0 THEN -n ELSE n

gcd[p \in Nat \X Nat] == IF p[2] = 0 THEN p[1] ELSE gcd[<<p[2], p[1] % p[2]>>]

\* The denominator is kept positive.
Frac(n, d) ==
    LET g == gcd[<<Abs(n), Abs(d)>>]
    IN IF d > 0 THEN <<n \div g, d \div g>> ELSE <<(-n) \div g, (-d) \div g>>

Zero == <<0, 1>>
One == <<1, 1>>

Fractions == Int \X (Int \ {0})

\* The aspect ratios of what has a width and a height.
Positives == (Nat \ {0}) \X (Nat \ {0})

Plus(a, b)  == Frac(a[1] * b[2] + b[1] * a[2], a[2] * b[2])
Times(a, b) == Frac(a[1] * b[1], a[2] * b[2])
Minus(a, b) == Plus(a, <<-b[1], b[2]>>)
Over(a, b)  == Times(a, <<b[2], b[1]>>)   \* b is not zero

Less(a, b) == a[1] * b[2] < b[1] * a[2]
Leq(a, b)  == ~Less(b, a)

Larger(a, b)  == IF Less(a, b) THEN b ELSE a
Smaller(a, b) == IF Less(a, b) THEN a ELSE b

Dist(a, b) == IF Less(a, b) THEN Minus(b, a) ELSE Minus(a, b)

\* How many times the larger of two ratios is the smaller.
Misfit(a, b) == Over(Larger(a, b), Smaller(a, b))

Half(a)   == Over(a, <<2, 1>>)
Double(a) == Times(a, <<2, 1>>)

Recip(a) == <<a[2], a[1]>>                      \* a is positive
=============================================================================
