---------------------------- MODULE TilingProofs ----------------------------
(***************************************************************************)
(* For any photos, canvases, limits and random cuts: every grid that       *)
(* generate collects tiles the canvas, unless the dangling reference has   *)
(* hit a tree.                                                             *)
(*                                                                         *)
(* That is shown on whole numbers: on a common scale the slots of a grid   *)
(* are rectangles that lie in a square, do not overlap, and have its area  *)
(* in all (TiledBy). First every pattern does, and what joining, cutting,  *)
(* sorting and filtering leave of it.                                      *)
(*                                                                         *)
(* Of a tree it takes the ratios stored at its nodes: each is that of its  *)
(* two parts put together (WeighInv), so that its cut shares out its       *)
(* rectangle, and the leaves share out the canvas.                         *)
(***************************************************************************)
EXTENDS PicWallProofs

-----------------------------------------------------------------------------
(*****************************************************************************)
(* Fractions on a scale                                                      *)
(*****************************************************************************)

\* f is the fraction z / d.
Is(f, z, d) == f \in Rationals /\ z \in Int /\ f[1] * d = z * f[2]

\* f is a multiple of 1 / d, and which one.
On(f, d) == \E z : Is(f, z, d)
Num(f, d) == CHOOSE z : Is(f, z, d)

\* A positive factor can be left out of an equation.
LEMMA CancelEq ==
  ASSUME NEW x \in Int, NEW y \in Int, NEW k \in Nat \ {0}, x * k = y * k
  PROVE  x = y
  <1>1. x * k <= y * k /\ y * k <= x * k
    OBVIOUS
  <1> QED
    BY <1>1, Cancel

\* There is one multiple.
LEMMA OnlyNum ==
  ASSUME NEW f, NEW z, NEW d \in Nat \ {0}, Is(f, z, d)
  PROVE  On(f, d) /\ Num(f, d) = z
  <1>1. On(f, d) /\ Is(f, Num(f, d), d)
    BY DEF On, Num
  <1> DEFINE y == Num(f, d)
             k == f[2]
  <1>2. k \in Nat \ {0} /\ z \in Int /\ y \in Int /\ y * k = z * k
    BY <1>1 DEF Is, Rationals
  <1> HIDE DEF y, k
  <1>3. y = z
    BY <1>2, CancelEq
  <1> QED
    BY <1>1, <1>3 DEF y

\* The multiple a fraction is.
LEMMA NumIs ==
  ASSUME NEW f, NEW d, On(f, d)
  PROVE  Is(f, Num(f, d), d)
  BY DEF On, Num

\* A sum.
LEMMA PlusNum ==
  ASSUME NEW d \in Nat \ {0}, NEW a, NEW b, NEW x, NEW y, Is(a, x, d), Is(b, y, d)
  PROVE  Is(Plus(a, b), x + y, d)
  <1> DEFINE a1 == a[1]
             a2 == a[2]
             b1 == b[1]
             b2 == b[2]
             p == Plus(<<a1, a2>>, <<b1, b2>>)
  <1>1. /\ a = <<a1, a2>> /\ a1 \in Int /\ a2 \in Nat \ {0} /\ x \in Int /\ a1 * d = x * a2
        /\ b = <<b1, b2>> /\ b1 \in Int /\ b2 \in Nat \ {0} /\ y \in Int /\ b1 * d = y * b2
    BY DEF Is, Rationals
  <1> HIDE DEF a1, a2, b1, b2
  <1>2. PICK p1 \in Int, p2 \in Nat \ {0} :
          Plus(<<a1, a2>>, <<b1, b2>>) = <<p1, p2>> /\ p1 * (a2 * b2) = (a1 * b2 + b1 * a2) * p2
    BY <1>1, PlusExact
  <1> DEFINE l == p1 * d
             r == (x + y) * p2
             k == a2 * b2
  <1>3. l \in Int /\ r \in Int
    BY <1>1, <1>2
  <1>4. k \in Nat \ {0}
    BY <1>1
  <1>5. l * k = r * k
    <2>1. l * k = d * ((a1 * b2 + b1 * a2) * p2)
      BY <1>1, <1>2
    <2>2. d * ((a1 * b2 + b1 * a2) * p2) = ((a1 * d) * b2 + (b1 * d) * a2) * p2
      BY <1>1, <1>2
    <2>3. ((x * a2) * b2 + (y * b2) * a2) * p2 = r * k
      BY <1>1, <1>2
    <2> QED
      BY <1>1, <2>1, <2>2, <2>3
  <1> HIDE DEF l, r, k
  <1>6. l = r
    BY <1>3, <1>4, <1>5, CancelEq
  <1> QED
    BY <1>1, <1>2, <1>6 DEF Is, Rationals, l, r

\* The opposite of a fraction, and a difference.
LEMMA MinusNum ==
  ASSUME NEW d \in Nat \ {0}, NEW a, NEW b, NEW x, NEW y, Is(a, x, d), Is(b, y, d)
  PROVE  Is(Minus(a, b), x - y, d)
  <1> DEFINE c == <<-b[1], b[2]>>
             z == -y
  <1>1. Is(c, z, d)
    BY DEF Is, Rationals
  <1>2. Minus(a, b) = Plus(a, c) /\ x + z = x - y
    BY DEF Minus, Is
  <1> HIDE DEF c, z
  <1> QED
    BY <1>1, <1>2, PlusNum

\* Comparing.
LEMMA LeqNum ==
  ASSUME NEW d \in Nat \ {0}, NEW a, NEW b, NEW x, NEW y, Is(a, x, d), Is(b, y, d)
  PROVE  (Leq(a, b) <=> x <= y) /\ (Less(a, b) <=> x < y)
  <1> DEFINE a1 == a[1]
             a2 == a[2]
             b1 == b[1]
             b2 == b[2]
             l == a1 * b2
             r == b1 * a2
             k == a2 * b2
  <1>1. /\ a1 \in Int /\ a2 \in Nat \ {0} /\ x \in Int /\ a1 * d = x * a2
        /\ b1 \in Int /\ b2 \in Nat \ {0} /\ y \in Int /\ b1 * d = y * b2
    BY DEF Is, Rationals
  <1> HIDE DEF a1, a2, b1, b2
  <1>2. l \in Int /\ r \in Int /\ k \in Nat \ {0}
    BY <1>1
  <1>3. l * d = x * k /\ r * d = y * k
    <2>1. l * d = (a1 * d) * b2 /\ r * d = (b1 * d) * a2
      BY <1>1
    <2>2. (x * a2) * b2 = x * k /\ (y * b2) * a2 = y * k
      BY <1>1
    <2> QED
      BY <1>1, <2>1, <2>2
  <1>4. (Leq(a, b) <=> ~(r < l)) /\ (Less(a, b) <=> l < r)
    BY Zenon DEF Leq, Less, a1, a2, b1, b2, l, r
  <1> HIDE DEF l, r, k
  <1>5. ASSUME NEW u \in Int, NEW v \in Int, NEW i \in Int, NEW j \in Int,
               u * d = i * k, v * d = j * k
        PROVE  u <= v <=> i <= j
    <2>1. CASE u <= v
      <3>1. u * d <= v * d
        BY <2>1
      <3>2. i <= j
        BY <1>2, <1>5, <3>1, Cancel
      <3> QED
        BY <2>1, <3>2
    <2>2. CASE i <= j
      <3>1. i * k <= j * k
        BY <1>2, <2>2
      <3>2. u <= v
        BY <1>5, <3>1, Cancel
      <3> QED
        BY <2>2, <3>2
    <2> QED
      BY <2>1, <2>2
  <1>6. (l <= r <=> x <= y) /\ (r <= l <=> y <= x)
    BY <1>1, <1>2, <1>3, <1>5
  <1> QED
    BY <1>1, <1>2, <1>4, <1>6

\* The same fraction, or another one of the same value.
LEMMA SameNum ==
  ASSUME NEW d \in Nat \ {0}, NEW a, NEW x, NEW y, Is(a, x, d), Is(a, y, d)
  PROVE  x = y
  <1>1. Num(a, d) = x /\ Num(a, d) = y
    BY OnlyNum
  <1> QED
    BY <1>1

\* A fraction given by its terms.
LEMMA FracNum ==
  ASSUME NEW d \in Nat \ {0}, NEW n \in Int, NEW k \in Int \ {0}, NEW z \in Int, z * k = n * d
  PROVE  Is(Frac(n, k), z, d)
  <1> DEFINE p == Frac(n, k)[1]
             q == Frac(n, k)[2]
             c == IF k > 0 THEN k ELSE -k
             l == p * d
             r == z * q
  <1>1. Frac(n, k) \in Rationals /\ p * k = n * q /\ p \in Int /\ q \in Nat \ {0}
    BY FracExact DEF Rationals
  <1> HIDE DEF p, q
  <1>2. l * k = r * k
    <2>1. l * k = d * (p * k) /\ d * (n * q) = (n * d) * q /\ (z * k) * q = r * k
      BY <1>1
    <2> QED
      BY <1>1, <2>1
  <1>3. l \in Int /\ r \in Int /\ c \in Nat \ {0}
    BY <1>1
  <1>4. l * c = r * c
    BY <1>2, <1>3
  <1> HIDE DEF l, r, c
  <1>5. l = r
    BY <1>3, <1>4, CancelEq
  <1> QED
    BY <1>1, <1>5 DEF Is, l, r, p, q

\* A product.
LEMMA TimesNum ==
  ASSUME NEW d \in Nat \ {0}, NEW a, NEW b, NEW x, NEW y, Is(a, x, d), Is(b, y, d),
         NEW z \in Int, z * d = x * y
  PROVE  Is(Times(a, b), z, d)
  <1> DEFINE a1 == a[1]
             a2 == a[2]
             b1 == b[1]
             b2 == b[2]
             n == a1 * b1
             k == a2 * b2
             l == z * k
             r == n * d
  <1>1. /\ a1 \in Int /\ a2 \in Nat \ {0} /\ x \in Int /\ a1 * d = x * a2
        /\ b1 \in Int /\ b2 \in Nat \ {0} /\ y \in Int /\ b1 * d = y * b2
    BY DEF Is, Rationals
  <1>2. Times(a, b) = Frac(n, k)
    BY DEF Times
  <1> HIDE DEF a1, a2, b1, b2
  <1>3. n \in Int /\ k \in Int \ {0} /\ l \in Int /\ r \in Int
    BY <1>1
  <1>4. l * d = r * d
    <2>1. l * d = (z * d) * k /\ (x * y) * k = (x * a2) * (y * b2)
      BY <1>1
    <2>2. (a1 * d) * (b1 * d) = r * d
      BY <1>1
    <2> QED
      BY <1>1, <2>1, <2>2
  <1> HIDE DEF n, k
  <1>5. l = r
    <2> HIDE DEF l, r
    <2> QED
      BY <1>3, <1>4, CancelEq
  <1> QED
    BY <1>2, <1>3, <1>5, FracNum

\* A multiple.
LEMMA MultipleNum ==
  ASSUME NEW d \in Nat \ {0}, NEW a, NEW x, Is(a, x, d), NEW k \in Int
  PROVE  Is(Times(a, <<k, 1>>), x * k, d)
  <1> DEFINE b == <<k, 1>>
             y == k * d
             z == x * k
  <1>1. x \in Int
    BY DEF Is
  <1>2. Is(b, y, d)
    BY DEF Is, Rationals
  <1>3. z \in Int /\ z * d = x * y
    BY <1>1
  <1> HIDE DEF b, y, z
  <1>4. Is(Times(a, b), z, d)
    BY <1>2, <1>3, TimesNum
  <1> QED
    BY <1>4 DEF b, z

\* A part.
LEMMA PartNum ==
  ASSUME NEW d \in Nat \ {0}, NEW a, NEW x, Is(a, x, d), NEW k \in Nat \ {0},
         NEW z \in Int, z * k = x
  PROVE  Is(Over(a, <<k, 1>>), z, d)
  <1> DEFINE a1 == a[1]
             a2 == a[2]
             m == a2 * k
             l == z * m
             r == a1 * d
  <1>1. a1 \in Int /\ a2 \in Nat \ {0} /\ x \in Int /\ a1 * d = x * a2
    BY DEF Is, Rationals
  <1>2. Over(a, <<k, 1>>) = Frac(a1, m)
    BY <1>1 DEF Over, Times
  <1> HIDE DEF a1, a2
  <1>3. m \in Int \ {0} /\ l = r
    <2>1. l = (z * k) * a2
      BY <1>1
    <2> QED
      BY <1>1, <2>1
  <1> HIDE DEF m
  <1> QED
    BY <1>1, <1>2, <1>3, FracNum

\* A quotient.
LEMMA OverNum ==
  ASSUME NEW d \in Nat \ {0}, NEW a, NEW b, NEW x, NEW y, Is(a, x, d), Is(b, y, d), y > 0,
         NEW z \in Int, z * y = x * d
  PROVE  Is(Over(a, b), z, d)
  <1> DEFINE a1 == a[1]
             a2 == a[2]
             b1 == b[1]
             b2 == b[2]
             n == a1 * b2
             k == a2 * b1
             l == z * k
             r == n * d
  <1>1. /\ a1 \in Int /\ a2 \in Nat \ {0} /\ x \in Int /\ a1 * d = x * a2
        /\ b1 \in Int /\ b2 \in Nat \ {0} /\ y \in Int /\ b1 * d = y * b2
    BY DEF Is, Rationals
  <1>2. Over(a, b) = Frac(n, k)
    BY DEF Over, Times
  <1> HIDE DEF a1, a2, b1, b2
  <1>3. b1 # 0
    <2>1. y * b2 # 0
      BY <1>1
    <2>2. b1 = 0 => b1 * d = 0
      BY <1>1
    <2> QED
      BY <1>1, <2>1, <2>2
  <1>4. n \in Int /\ k \in Int \ {0} /\ l \in Int /\ r \in Int
    BY <1>1, <1>3
  <1>5. l * d = r * d
    <2>1. l * d = z * a2 * (b1 * d) /\ z * a2 * (y * b2) = (z * y) * (a2 * b2)
      BY <1>1
    <2>2. (x * d) * (a2 * b2) = (x * a2) * (b2 * d) /\ (a1 * d) * (b2 * d) = r * d
      BY <1>1
    <2> QED
      BY <1>1, <2>1, <2>2
  <1> HIDE DEF n, k
  <1>6. l = r
    <2> HIDE DEF l, r
    <2> QED
      BY <1>4, <1>5, CancelEq
  <1> QED
    BY <1>2, <1>4, <1>6, FracNum

\* On a finer scale.
LEMMA FinerNum ==
  ASSUME NEW d \in Nat \ {0}, NEW e \in Nat \ {0}, NEW a, NEW x, Is(a, x, d)
  PROVE  Is(a, e * x, e * d)
  <1>1. a[1] \in Int /\ a[2] \in Nat \ {0} /\ x \in Int /\ a[1] * d = x * a[2]
    BY DEF Is, Rationals
  <1>2. a[1] * (e * d) = e * (a[1] * d) /\ e * (x * a[2]) = (e * x) * a[2] /\ e * x \in Int
    BY <1>1
  <1> QED
    BY <1>1, <1>2 DEF Is, Rationals

\* Every fraction lies on the scale of its denominator, and on the finer ones.
LEMMA OwnScale ==
  ASSUME NEW a \in Rationals, NEW e \in Nat \ {0}
  PROVE  a[2] * e \in Nat \ {0} /\ On(a, a[2] * e)
  <1>1. a[1] \in Int /\ a[2] \in Nat \ {0}
    BY DEF Rationals
  <1>2. a[1] * (a[2] * e) = (a[1] * e) * a[2] /\ a[1] * e \in Int /\ a[2] * e \in Nat \ {0}
    BY <1>1
  <1>3. Is(a, a[1] * e, a[2] * e)
    BY <1>2 DEF Is
  <1> QED
    BY <1>2, <1>3 DEF On

\* Finitely many fractions lie on one scale.
LEMMA OneScale ==
  ASSUME NEW n \in Nat, NEW f, \A i \in 1..n : f[i] \in Rationals
  PROVE  \E d \in Nat \ {0} : \A i \in 1..n : On(f[i], d)
  <1> DEFINE P == {k \in 0..n : \E d \in Nat \ {0} : \A i \in 1..k : On(f[i], d)}
  <1>1. 0 \in P
    <2>1. 1 \in Nat \ {0} /\ \A i \in 1..0 : On(f[i], 1)
      OBVIOUS
    <2> QED
      BY <2>1
  <1>2. ASSUME NEW k \in 0..(n - 1), k \in P PROVE k + 1 \in P
    <2>1. PICK d \in Nat \ {0} : \A i \in 1..k : On(f[i], d)
      BY <1>2
    <2> DEFINE a == f[k + 1]
               e == a[2]
               c == e * d
    <2>2. k + 1 \in 1..n /\ a \in Rationals
      OBVIOUS
    <2>3. e \in Nat \ {0}
      BY <2>2 DEF Rationals
    <2>4. c \in Nat \ {0} /\ On(a, c)
      BY <2>2, OwnScale
    <2>5. ASSUME NEW i \in 1..k PROVE On(f[i], c)
      <3>1. PICK x : Is(f[i], x, d)
        BY <2>1 DEF On
      <3> HIDE DEF e
      <3>2. Is(f[i], e * x, c)
        BY <2>3, <3>1, FinerNum
      <3> QED
        BY <3>2 DEF On
    <2>6. ASSUME NEW i \in 1..(k + 1) PROVE On(f[i], c)
      <3>1. i \in 1..k \/ i = k + 1
        OBVIOUS
      <3> QED
        BY <2>4, <2>5, <3>1
    <2> HIDE DEF c
    <2> QED
      BY <2>2, <2>4, <2>6
  <1> HIDE DEF P
  <1>3. n \in P
    BY <1>1, <1>2, Climb
  <1> QED
    BY <1>3 DEF P

-----------------------------------------------------------------------------
(*****************************************************************************)
(* Sums                                                                      *)
(*****************************************************************************)

\* r adds up the first n numbers of a, which make v.
Adds(r, a, n, v) ==
  /\ r \in [0..n -> Int] /\ r[0] = 0 /\ r[n] = v
  /\ \A i \in 1..n : a[i] \in Int /\ r[i] = r[i - 1] + a[i]
Total(a, n, v) == \E r : Adds(r, a, n, v)

\* One number more, anywhere among them.
LEMMA TotalInserted ==
  ASSUME NEW n \in Nat, NEW a, NEW u, Total(a, n, u), NEW e \in Int, NEW j \in 1..(n + 1),
         NEW b, \A i \in 1..(n + 1) : b[i] = IF i < j THEN a[i] ELSE IF i = j THEN e ELSE a[i - 1]
  PROVE  Total(b, n + 1, u + e)
  <1>1. PICK r : Adds(r, a, n, u)
    BY DEF Total
  <1> DEFINE t == [i \in 0..(n + 1) |-> IF i < j THEN r[i] ELSE r[i - 1] + e]
  <1>2. t \in [0..(n + 1) -> Int] /\ t[0] = 0 /\ t[n + 1] = u + e
    BY <1>1 DEF Adds
  <1>3. ASSUME NEW i \in 1..(n + 1) PROVE b[i] \in Int /\ t[i] = t[i - 1] + b[i]
    <2>1. CASE i < j
      <3>1. i \in 1..n /\ i - 1 < j /\ i - 1 \in 0..(n + 1) /\ b[i] = a[i]
        BY <2>1
      <3>2. t[i] = r[i] /\ t[i - 1] = r[i - 1]
        BY <2>1, <3>1
      <3> HIDE DEF t
      <3> QED
        BY <1>1, <3>1, <3>2 DEF Adds
    <2>2. CASE i = j
      <3>1. i - 1 < j /\ i - 1 \in 0..n /\ b[i] = e
        BY <2>2
      <3> QED
        BY <1>1, <2>2, <3>1 DEF Adds
    <2>3. CASE i > j
      <3> DEFINE k == i - 1
      <3>1. k \in 1..n /\ ~(k < j) /\ ~(i < j) /\ i # j
        BY <2>3
      <3>2. /\ r[k] = r[k - 1] + a[k] /\ r[k] \in Int /\ r[k - 1] \in Int
            /\ a[k] \in Int /\ a[k] = b[i]
        BY <1>1, <3>1 DEF Adds
      <3>3. t[i] = r[k] + e /\ t[i - 1] = r[k - 1] + e
        BY <3>1
      <3> QED
        BY <3>2, <3>3
    <2> QED
      BY <2>1, <2>2, <2>3
  <1> HIDE DEF t
  <1> QED
    BY <1>2, <1>3 DEF Total, Adds

\* One number less.
LEMMA TotalRemoved ==
  ASSUME NEW n \in Nat, NEW a, NEW u, Total(a, n, u), NEW j \in 1..n,
         NEW b, \A i \in 1..(n - 1) : b[i] = IF i < j THEN a[i] ELSE a[i + 1]
  PROVE  Total(b, n - 1, u - a[j])
  <1>1. PICK r : Adds(r, a, n, u)
    BY DEF Total
  <1> DEFINE t == [i \in 0..(n - 1) |-> IF i < j THEN r[i] ELSE r[i + 1] - a[j]]
  <1>2. t \in [0..(n - 1) -> Int] /\ t[0] = 0
    BY <1>1, SMTT(30) DEF Adds
  <1>3. t[n - 1] = u - a[j]
    <2>1. CASE j = n
      <3>1. t[n - 1] = r[n - 1] /\ r[n] = r[n - 1] + a[n] /\ r[n - 1] \in Int /\ a[n] \in Int
        BY <1>1, <2>1 DEF Adds
      <3> QED
        BY <1>1, <2>1, <3>1 DEF Adds
    <2>2. CASE j < n
      BY <1>1, <2>2 DEF Adds
    <2> QED
      BY <2>1, <2>2
  <1>4. ASSUME NEW i \in 1..(n - 1) PROVE b[i] \in Int /\ t[i] = t[i - 1] + b[i]
    <2>1. CASE i < j
      <3>1. i \in 1..n /\ i - 1 < j
        BY <2>1
      <3> QED
        BY <1>1, <2>1, <3>1 DEF Adds
    <2>2. CASE i > j
      <3>1. i + 1 \in 1..n /\ ~(i - 1 < j) /\ ~(i < j) /\ (i + 1) - 1 = i
        BY <2>2
      <3>2. r[i + 1] = r[i] + a[i + 1] /\ r[i] \in Int /\ a[i + 1] \in Int /\ b[i] = a[i + 1]
        BY <1>1, <3>1 DEF Adds
      <3>3. t[i] = r[i + 1] - a[j] /\ t[i - 1] = r[i] - a[j] /\ a[j] \in Int
        BY <1>1, <3>1 DEF Adds
      <3> QED
        BY <3>2, <3>3
    <2>3. CASE i = j
      <3>1. i + 1 \in 1..n /\ i \in 1..n /\ i - 1 < j /\ ~(i < j) /\ (i + 1) - 1 = i
        BY <2>3
      <3>2. /\ r[i + 1] = r[i] + a[i + 1] /\ r[i] = r[i - 1] + a[i]
            /\ r[i] \in Int /\ r[i - 1] \in Int /\ a[i + 1] \in Int /\ a[i] \in Int
            /\ b[i] = a[i + 1]
        BY <1>1, <3>1 DEF Adds
      <3>3. t[i] = r[i + 1] - a[i] /\ t[i - 1] = r[i - 1]
        BY <2>3, <3>1
      <3> QED
        BY <3>2, <3>3
    <2> QED
      BY <2>1, <2>2, <2>3
  <1> HIDE DEF t
  <1> QED
    BY <1>2, <1>3, <1>4 DEF Total, Adds

\* Numbers after numbers.
LEMMA TotalJoined ==
  ASSUME NEW n \in Nat, NEW m \in Nat, NEW a, NEW b, NEW u, NEW v,
         Total(a, n, u), Total(b, m, v),
         NEW c, \A i \in 1..(n + m) : c[i] = IF i <= n THEN a[i] ELSE b[i - n]
  PROVE  Total(c, n + m, u + v)
  <1>1. PICK r : Adds(r, a, n, u)
    BY DEF Total
  <1>2. PICK s : Adds(s, b, m, v)
    BY DEF Total
  <1> DEFINE t == [i \in 0..(n + m) |-> IF i <= n THEN r[i] ELSE u + s[i - n]]
  <1>3. t \in [0..(n + m) -> Int] /\ t[0] = 0 /\ t[n + m] = u + v
    BY <1>1, <1>2 DEF Adds
  <1>4. ASSUME NEW i \in 1..(n + m) PROVE c[i] \in Int /\ t[i] = t[i - 1] + c[i]
    <2>1. CASE i <= n
      <3>1. i \in 1..n /\ i - 1 <= n /\ i - 1 \in 0..(n + m) /\ c[i] = a[i]
        BY <2>1
      <3>2. t[i] = r[i] /\ t[i - 1] = r[i - 1]
        BY <2>1, <3>1
      <3> HIDE DEF t
      <3> QED
        BY <1>1, <3>1, <3>2 DEF Adds
    <2>2. CASE i > n
      <3> DEFINE k == i - n
      <3>1. k \in 1..m /\ ~(i <= n) /\ (i - 1) - n = k - 1
        BY <2>2
      <3>2. s[k] = s[k - 1] + b[k] /\ s[k] \in Int /\ s[k - 1] \in Int /\ b[k] \in Int /\ c[i] = b[k]
        BY <1>2, <3>1 DEF Adds
      <3>3. t[i] = u + s[k] /\ u \in Int
        BY <1>1, <3>1 DEF Adds
      <3>4. t[i - 1] = u + s[k - 1]
        <4>1. CASE i - 1 > n
          BY <3>1, <4>1
        <4>2. CASE i - 1 = n
          <5>1. k - 1 = 0 /\ t[i - 1] = r[n]
            BY <3>1, <4>2
          <5> QED
            BY <1>1, <1>2, <5>1 DEF Adds
        <4> QED
          BY <2>2, <4>1, <4>2
      <3> QED
        BY <3>2, <3>3, <3>4
    <2> QED
      BY <2>1, <2>2
  <1> HIDE DEF t
  <1> QED
    BY <1>3, <1>4 DEF Total, Adds

\* The same number over and over.
LEMMA TotalOfEqual ==
  ASSUME NEW n \in Nat, NEW a, NEW e \in Int, \A i \in 1..n : a[i] = e
  PROVE  Total(a, n, n * e)
  <1> DEFINE r == [i \in 0..n |-> i * e]
  <1>1. r \in [0..n -> Int] /\ r[0] = 0 /\ r[n] = n * e
    OBVIOUS
  <1>2. ASSUME NEW i \in 1..n PROVE a[i] \in Int /\ r[i] = r[i - 1] + a[i]
    <2>1. i * e = (i - 1) * e + e
      OBVIOUS
    <2>2. r[i] = i * e /\ r[i - 1] = (i - 1) * e
      OBVIOUS
    <2> QED
      BY <2>1, <2>2
  <1> HIDE DEF r
  <1> QED
    BY <1>1, <1>2 DEF Total, Adds

\* Some numbers always have a total.
LEMMA TotalExists ==
  ASSUME NEW n \in Nat, NEW a, \A i \in 1..n : a[i] \in Int
  PROVE  \E v \in Int : Total(a, n, v)
  <1> DEFINE P == {k \in 0..n : \E v \in Int : Total(a, k, v)}
  <1>1. 0 \in P
    <2>1. Total(a, 0, 0)
      BY TotalOfEqual
    <2> QED
      BY <2>1
  <1>2. ASSUME NEW k \in 0..(n - 1), k \in P PROVE k + 1 \in P
    <2>1. PICK v \in Int : Total(a, k, v)
      BY <1>2
    <2> DEFINE j == k + 1
               e == a[j]
    <2>2. j \in 1..(k + 1) /\ j \in 1..n /\ e \in Int /\ k \in Nat
      OBVIOUS
    <2>3. \A i \in 1..(k + 1) : a[i] = IF i < j THEN a[i] ELSE IF i = j THEN e ELSE a[i - 1]
      OBVIOUS
    <2> HIDE DEF e
    <2>4. Total(a, k + 1, v + e)
      <3> HIDE DEF j
      <3> QED
        BY <2>1, <2>2, <2>3, TotalInserted
    <2> QED
      BY <2>1, <2>2, <2>4
  <1> HIDE DEF P
  <1>3. n \in P
    BY <1>1, <1>2, Climb
  <1> QED
    BY <1>3 DEF P

\* The sums of two numbers each.
LEMMA TotalOfSums ==
  ASSUME NEW n \in Nat, NEW a, NEW b, NEW c, NEW u, NEW v, Total(a, n, u), Total(b, n, v),
         \A i \in 1..n : c[i] = a[i] + b[i]
  PROVE  Total(c, n, u + v)
  <1>1. PICK r : Adds(r, a, n, u)
    BY DEF Total
  <1>2. PICK s : Adds(s, b, n, v)
    BY DEF Total
  <1> DEFINE t == [i \in 0..n |-> r[i] + s[i]]
  <1>3. t \in [0..n -> Int] /\ t[0] = 0 /\ t[n] = u + v
    BY <1>1, <1>2 DEF Adds
  <1>4. ASSUME NEW i \in 1..n PROVE c[i] \in Int /\ t[i] = t[i - 1] + c[i]
    <2>1. /\ r[i] = r[i - 1] + a[i] /\ r[i - 1] \in Int /\ a[i] \in Int
          /\ s[i] = s[i - 1] + b[i] /\ s[i - 1] \in Int /\ b[i] \in Int
      BY <1>1, <1>2 DEF Adds
    <2>2. t[i] = r[i] + s[i] /\ t[i - 1] = r[i - 1] + s[i - 1]
      OBVIOUS
    <2> QED
      BY <2>1, <2>2
  <1> HIDE DEF t
  <1> QED
    BY <1>3, <1>4 DEF Total, Adds

\* Each of them multiplied.
LEMMA TotalScaled ==
  ASSUME NEW n \in Nat, NEW a, NEW b, NEW u, NEW e \in Int, Total(a, n, u),
         \A i \in 1..n : b[i] = e * a[i]
  PROVE  Total(b, n, e * u)
  <1>1. PICK r : Adds(r, a, n, u)
    BY DEF Total
  <1> DEFINE t == [i \in 0..n |-> e * r[i]]
  <1>2. t \in [0..n -> Int] /\ t[0] = 0 /\ t[n] = e * u
    BY <1>1 DEF Adds
  <1>3. ASSUME NEW i \in 1..n PROVE b[i] \in Int /\ t[i] = t[i - 1] + b[i]
    <2>1. r[i] = r[i - 1] + a[i] /\ r[i - 1] \in Int /\ a[i] \in Int
      BY <1>1 DEF Adds
    <2>2. e * r[i] = e * r[i - 1] + e * a[i]
      BY <2>1
    <2> QED
      BY <2>1, <2>2
  <1> HIDE DEF t
  <1> QED
    BY <1>2, <1>3 DEF Total, Adds

\* The same numbers.
LEMMA TotalSame ==
  ASSUME NEW n \in Nat, NEW a, NEW b, NEW u, Total(a, n, u), \A i \in 1..n : b[i] = a[i]
  PROVE  Total(b, n, u)
  <1>1. PICK r : Adds(r, a, n, u)
    BY DEF Total
  <1> QED
    BY <1>1 DEF Total, Adds

-----------------------------------------------------------------------------
(*****************************************************************************)
(* Rectangles                                                                *)
(*****************************************************************************)

\* There is one total.
LEMMA OnlyTotal ==
  ASSUME NEW n \in Nat, NEW a, NEW u, NEW v, Total(a, n, u), Total(a, n, v)
  PROVE  u = v
  <1>1. PICK r : Adds(r, a, n, u)
    BY DEF Total
  <1>2. PICK s : Adds(s, a, n, v)
    BY DEF Total
  <1> DEFINE P == {i \in Nat : r[i] = s[i]}
  <1>3. 0 \in P
    BY <1>1, <1>2 DEF Adds
  <1>4. ASSUME NEW i \in 0..(n - 1), i \in P PROVE i + 1 \in P
    <2> DEFINE k == i + 1
    <2>1. k \in 1..n /\ k - 1 = i /\ k \in Nat
      OBVIOUS
    <2>2. r[k] = r[k - 1] + a[k] /\ s[k] = s[k - 1] + a[k]
      BY <1>1, <1>2, <2>1 DEF Adds
    <2>3. r[i] = s[i]
      BY <1>4
    <2> HIDE DEF k
    <2>4. k \in P
      BY <2>1, <2>2, <2>3
    <2> QED
      BY <2>4 DEF k
  <1> HIDE DEF P
  <1>5. n \in P
    BY <1>3, <1>4, Climb
  <1> QED
    BY <1>1, <1>2, <1>5 DEF P, Adds

\* Rectangles with whole coordinates.
Rects == [x : Int, y : Int, w : Nat \ {0}, h : Nat \ {0}]
Rect(x, y, w, h) == [x |-> x, y |-> y, w |-> w, h |-> h]
Area(a) == a.w * a.h

Apart(a, b) == \/ a.x + a.w <= b.x \/ b.x + b.w <= a.x
               \/ a.y + a.h <= b.y \/ b.y + b.h <= a.y
Within(a, b) == /\ b.x <= a.x /\ a.x + a.w <= b.x + b.w
                /\ b.y <= a.y /\ a.y + a.h <= b.y + b.h

\* A rectangle given by its coordinates.
LEMMA RectIs ==
  ASSUME NEW x \in Int, NEW y \in Int, NEW w \in Nat \ {0}, NEW h \in Nat \ {0}
  PROVE  /\ Rect(x, y, w, h) \in Rects
         /\ Rect(x, y, w, h).x = x /\ Rect(x, y, w, h).y = y
         /\ Rect(x, y, w, h).w = w /\ Rect(x, y, w, h).h = h
  BY DEF Rects, Rect

\* A rectangle has an area.
LEMMA AreaIs ==
  ASSUME NEW a \in Rects
  PROVE  Area(a) \in Nat \ {0}
  BY DEF Rects, Area

\* What lies in a rectangle lies in what the rectangle lies in.
LEMMA WithinTrans ==
  ASSUME NEW a \in Rects, NEW b \in Rects, NEW c \in Rects, Within(a, b), Within(b, c)
  PROVE  Within(a, c)
  BY DEF Rects, Within

\* A rectangle lies in itself.
LEMMA WithinItself ==
  ASSUME NEW a \in Rects
  PROVE  Within(a, a)
  BY DEF Rects, Within

\* What lies in rectangles that are apart is apart.
LEMMA ApartInside ==
  ASSUME NEW a \in Rects, NEW b \in Rects, NEW c \in Rects, NEW d \in Rects,
         Within(a, c), Within(b, d), Apart(c, d)
  PROVE  Apart(a, b)
  BY DEF Rects, Within, Apart

\* Being apart goes both ways.
LEMMA ApartAlike ==
  ASSUME NEW a, NEW b, Apart(a, b)
  PROVE  Apart(b, a)
  BY DEF Apart

Areas(q, n) == [i \in 1..n |-> Area(q[i])]

\* The first n of q are rectangles in those of S, none over another, and
\* their areas make v.
Packed(q, n, S, v) ==
  /\ \A i \in 1..n : q[i] \in Rects /\ \E b \in S : Within(q[i], b)
  /\ \A i, j \in 1..n : i # j => Apart(q[i], q[j])
  /\ Total(Areas(q, n), n, v)

\* A single rectangle.
LEMMA PackedOne ==
  ASSUME NEW a \in Rects, NEW q, q[1] = a
  PROVE  Packed(q, 1, {a}, Area(a))
  <1>1. \A i \in 1..1 : i = 1
    OBVIOUS
  <1>2. \A i \in 1..1 : q[i] \in Rects /\ \E b \in {a} : Within(q[i], b)
    BY <1>1, WithinItself
  <1> DEFINE e == Area(a)
             f == Areas(q, 1)
  <1>3. e \in Int /\ 1 * e = e
    BY AreaIs
  <1>4. \A i \in 1..1 : f[i] = e
    BY <1>1 DEF Areas
  <1> HIDE DEF e, f
  <1>5. Total(f, 1, 1 * e)
    BY <1>3, <1>4, TotalOfEqual
  <1> QED
    BY <1>1, <1>2, <1>3, <1>5 DEF Packed, e, f

\* The rectangles of S lie in those of T.
LEMMA PackedIn ==
  ASSUME NEW q, NEW n \in Nat, NEW S \in SUBSET Rects, NEW T \in SUBSET Rects, NEW v,
         Packed(q, n, S, v), \A a \in S : \E b \in T : Within(a, b)
  PROVE  Packed(q, n, T, v)
  <1>1. ASSUME NEW i \in 1..n PROVE q[i] \in Rects /\ \E b \in T : Within(q[i], b)
    <2>1. PICK a \in S : q[i] \in Rects /\ Within(q[i], a)
      BY DEF Packed
    <2>2. PICK b \in T : Within(a, b)
      BY <2>1
    <2>3. Within(q[i], b)
      BY <2>1, <2>2, WithinTrans
    <2> QED
      BY <2>1, <2>3
  <1> QED
    BY <1>1 DEF Packed

\* Rectangles after rectangles.
LEMMA PackedJoined ==
  ASSUME NEW p, NEW q, NEW n \in Nat, NEW m \in Nat, NEW S \in SUBSET Rects, NEW T \in SUBSET Rects,
         NEW u, NEW v, Packed(p, n, S, u), Packed(q, m, T, v),
         \A a \in S, b \in T : Apart(a, b),
         NEW c, \A i \in 1..(n + m) : c[i] = IF i <= n THEN p[i] ELSE q[i - n]
  PROVE  Packed(c, n + m, S \cup T, u + v)
  <1>1. ASSUME NEW i \in 1..(n + m), i <= n
        PROVE  c[i] = p[i] /\ i \in 1..n /\ c[i] \in Rects /\ \E b \in S : Within(c[i], b)
    <2>1. c[i] = p[i] /\ i \in 1..n
      BY <1>1
    <2> QED
      BY <2>1 DEF Packed
  <1>2. ASSUME NEW i \in 1..(n + m), ~(i <= n)
        PROVE  c[i] = q[i - n] /\ i - n \in 1..m /\ c[i] \in Rects /\ \E b \in T : Within(c[i], b)
    <2>1. c[i] = q[i - n] /\ i - n \in 1..m
      BY <1>2
    <2> QED
      BY <2>1 DEF Packed
  <1>3. \A i \in 1..(n + m) : c[i] \in Rects /\ \E b \in S \cup T : Within(c[i], b)
    BY <1>1, <1>2
  <1>4. ASSUME NEW i \in 1..(n + m), NEW j \in 1..(n + m), i <= n, ~(j <= n)
        PROVE  Apart(c[i], c[j])
    <2>1. PICK a \in S : Within(c[i], a)
      BY <1>1, <1>4
    <2>2. PICK b \in T : Within(c[j], b)
      BY <1>2, <1>4
    <2>3. Apart(a, b) /\ a \in Rects /\ b \in Rects /\ c[i] \in Rects /\ c[j] \in Rects
      BY <1>3
    <2> QED
      BY <2>1, <2>2, <2>3, ApartInside
  <1>5. ASSUME NEW i \in 1..(n + m), NEW j \in 1..(n + m), i # j
        PROVE  Apart(c[i], c[j])
    <2>1. CASE i <= n /\ j <= n
      BY <1>1, <1>5, <2>1 DEF Packed
    <2>2. CASE ~(i <= n) /\ ~(j <= n)
      <3>1. i - n # j - n
        BY <1>5
      <3> QED
        BY <1>2, <2>2, <3>1 DEF Packed
    <2>3. CASE i <= n /\ ~(j <= n)
      BY <1>4, <2>3
    <2>4. CASE ~(i <= n) /\ j <= n
      BY <1>4, <2>4, ApartAlike
    <2> QED
      BY <2>1, <2>2, <2>3, <2>4
  <1>6. Total(Areas(c, n + m), n + m, u + v)
    <2> DEFINE a == Areas(p, n)
               b == Areas(q, m)
               f == Areas(c, n + m)
    <2>1. Total(a, n, u) /\ Total(b, m, v)
      BY DEF Packed
    <2>2. \A i \in 1..(n + m) : f[i] = IF i <= n THEN a[i] ELSE b[i - n]
      BY <1>1, <1>2 DEF Areas
    <2> HIDE DEF a, b, f
    <2>3. Total(f, n + m, u + v)
      BY <2>1, <2>2, TotalJoined
    <2> QED
      BY <2>3 DEF f
  <1> QED
    BY <1>3, <1>5, <1>6 DEF Packed

\* Less often, less far.
LEMMA FewerTimes ==
  ASSUME NEW w \in Nat, NEW a \in Int, NEW b \in Int, a + 1 <= b
  PROVE  w * a + w <= w * b
  <1>1. w * (b - (a + 1)) >= 0
    OBVIOUS
  <1>2. w * (b - (a + 1)) = w * b - (w * a + w)
    OBVIOUS
  <1>3. w * b \in Int /\ w * a \in Int
    OBVIOUS
  <1> QED
    BY <1>1, <1>2, <1>3

\* Cells row by row fill their rectangle.
LEMMA PackedCells ==
  ASSUME NEW x \in Int, NEW y \in Int, NEW w \in Nat \ {0}, NEW h \in Nat \ {0},
         NEW cols \in Nat \ {0}, NEW rows \in Nat \ {0}, NEW q,
         \A i \in 1..(cols * rows) :
           q[i] = Rect(x + w * ((i - 1) % cols), y + h * ((i - 1) \div cols), w, h)
  PROVE  Packed(q, cols * rows, {Rect(x, y, w * cols, h * rows)}, (cols * rows) * (w * h))
  <1> DEFINE n == cols * rows
             B == Rect(x, y, w * cols, h * rows)
             col(i) == (i - 1) % cols
             row(i) == (i - 1) \div cols
  <1>1. n \in Nat \ {0} /\ w * cols \in Nat \ {0} /\ h * rows \in Nat \ {0} /\ w * h \in Nat \ {0}
    OBVIOUS
  <1>2. ASSUME NEW i \in 1..n
        PROVE  /\ col(i) \in Int /\ row(i) \in Int /\ 0 <= col(i) /\ col(i) + 1 <= cols
               /\ 0 <= row(i) /\ row(i) + 1 <= rows /\ i = cols * row(i) + col(i) + 1
    <2>1. i - 1 \in Nat
      OBVIOUS
    <2> DEFINE k == i - 1
               c == k % cols
               r == k \div cols
    <2>2. c \in Nat /\ c < cols /\ r \in Nat /\ k = cols * r + c
      BY <2>1, DivMod
    <2>3. k < cols * rows /\ k \in Nat
      BY <2>1
    <2> HIDE DEF c, r
    <2>4. r + 1 <= rows
      <3>1. SUFFICES ASSUME rows <= r PROVE FALSE
        BY <2>2
      <3>2. cols * (r - rows) >= 0
        BY <2>2, <3>1
      <3>3. cols * (r - rows) = cols * r - cols * rows
        BY <2>2
      <3> QED
        BY <2>2, <2>3, <3>2, <3>3
    <2>5. i = k + 1
      OBVIOUS
    <2> HIDE DEF k
    <2> QED
      BY <2>2, <2>4, <2>5 DEF c, r, k
  <1>3. ASSUME NEW i \in 1..n
        PROVE  /\ q[i] \in Rects /\ q[i].x = x + w * col(i) /\ q[i].y = y + h * row(i)
               /\ q[i].w = w /\ q[i].h = h
    <2> DEFINE c == col(i)
               r == row(i)
    <2>1. q[i] = Rect(x + w * c, y + h * r, w, h) /\ c \in Int /\ r \in Int
      BY <1>2
    <2> HIDE DEF c, r
    <2>2. x + w * c \in Int /\ y + h * r \in Int
      BY <2>1
    <2>3. /\ q[i] \in Rects /\ q[i].x = x + w * c /\ q[i].y = y + h * r
          /\ q[i].w = w /\ q[i].h = h
      BY <2>1, <2>2, RectIs
    <2> QED
      BY <2>3 DEF c, r
  <1>4. B \in Rects /\ B.x = x /\ B.y = y /\ B.w = w * cols /\ B.h = h * rows
    BY <1>1, RectIs
  <1> HIDE DEF col, row, B
  <1>5. ASSUME NEW i \in 1..n PROVE Within(q[i], B)
    <2> DEFINE c == col(i)
               r == row(i)
    <2>1. /\ c \in Int /\ r \in Int /\ 0 <= c /\ c + 1 <= cols /\ 0 <= r /\ r + 1 <= rows
      BY <1>2
    <2> HIDE DEF c, r
    <2>2. w * c + w <= w * cols /\ h * r + h <= h * rows
      BY <2>1, FewerTimes
    <2>3. w * c >= 0 /\ h * r >= 0 /\ w * c \in Int /\ h * r \in Int
      BY <2>1
    <2>4. q[i].x = x + w * c /\ q[i].y = y + h * r /\ q[i].w = w /\ q[i].h = h
      BY <1>3 DEF c, r
    <2> QED
      BY <1>1, <1>4, <2>2, <2>3, <2>4 DEF Within
  <1>6. ASSUME NEW i \in 1..n, NEW j \in 1..n, i # j PROVE Apart(q[i], q[j])
    <2> DEFINE a == col(i)
               b == col(j)
               c == row(i)
               d == row(j)
    <2>1. /\ a \in Int /\ b \in Int /\ c \in Int /\ d \in Int
          /\ i = cols * c + a + 1 /\ j = cols * d + b + 1
      BY <1>2
    <2>2. /\ q[i].x = x + w * a /\ q[j].x = x + w * b /\ q[i].y = y + h * c /\ q[j].y = y + h * d
          /\ q[i].w = w /\ q[i].h = h /\ q[j].w = w /\ q[j].h = h
      BY <1>3
    <2> HIDE DEF a, b, c, d
    <2>3. \/ a + 1 <= b \/ b + 1 <= a \/ c + 1 <= d \/ d + 1 <= c
      <3>1. a # b \/ c # d
        BY <1>6, <2>1
      <3> QED
        BY <2>1, <3>1
    <2>4. \/ w * a + w <= w * b \/ w * b + w <= w * a
          \/ h * c + h <= h * d \/ h * d + h <= h * c
      BY <2>1, <2>3, FewerTimes
    <2>5. w * a \in Int /\ w * b \in Int /\ h * c \in Int /\ h * d \in Int
      BY <2>1
    <2> HIDE DEF n
    <2> QED
      BY <2>2, <2>4, <2>5 DEF Apart
  <1>7. Total(Areas(q, n), n, n * (w * h))
    <2> DEFINE e == w * h
               f == Areas(q, n)
    <2>1. \A i \in 1..n : f[i] = e
      BY <1>3 DEF Areas, Area
    <2>2. e \in Int /\ n \in Nat
      BY <1>1
    <2> HIDE DEF e, f, n
    <2>3. Total(f, n, n * e)
      BY <2>1, <2>2, TotalOfEqual
    <2> QED
      BY <2>3 DEF e, f
  <1> HIDE DEF n
  <1>8. Packed(q, n, {B}, n * (w * h))
    BY <1>3, <1>5, <1>6, <1>7 DEF Packed
  <1> QED
    BY <1>8 DEF n, B

-----------------------------------------------------------------------------
(*****************************************************************************)
(* Grids that tile the canvas                                                *)
(*****************************************************************************)

\* Slots, and their rectangles on a scale.
Slots == [x : Rationals, y : Rationals, w : Rationals, h : Rationals, photo : Nat]

DrawnAs(s, a, d) == Is(s.x, a.x, d) /\ Is(s.y, a.y, d) /\ Is(s.w, a.w, d) /\ Is(s.h, a.h, d)

Board(d) == Rect(0, 0, d, d)

\* On the scale d the slots of g are the rectangles q, which fill the canvas.
TiledBy(g, q, d) ==
  /\ d \in Nat \ {0}
  /\ \A i \in 1..Len(g) : DrawnAs(g[i], q[i], d)
  /\ Packed(q, Len(g), {Board(d)}, d * d)

TiledGrids == {g \in Seq(Slots) : \E d, q : TiledBy(g, q, d)}

\* The canvas.
LEMMA BoardIs ==
  ASSUME NEW d \in Nat \ {0}
  PROVE  /\ Board(d) \in Rects /\ Board(d).x = 0 /\ Board(d).y = 0
         /\ Board(d).w = d /\ Board(d).h = d
  BY RectIs DEF Board

\* Zero and one.
LEMMA ZeroOneNum ==
  ASSUME NEW d \in Nat \ {0}
  PROVE  Is(Zero, 0, d) /\ Is(One, d, d)
  <1>1. Zero \in Rationals /\ One \in Rationals /\ Zero[1] = 0 /\ Zero[2] = 1 /\ One[1] = 1 /\ One[2] = 1
    BY DEF Zero, One, Rationals
  <1> QED
    BY <1>1 DEF Is

\* The edges of a slot.
LEMMA EdgesNum ==
  ASSUME NEW d \in Nat \ {0}, NEW s, NEW a, DrawnAs(s, a, d)
  PROVE  /\ Is(s.x, a.x, d) /\ Is(s.y, a.y, d)
         /\ Is(Right(s), a.x + a.w, d) /\ Is(Bottom(s), a.y + a.h, d)
  BY PlusNum DEF DrawnAs, Right, Bottom

\* The area of a slot.
LEMMA AreaNum ==
  ASSUME NEW d \in Nat \ {0}, NEW s, NEW a \in Rects, DrawnAs(s, a, d)
  PROVE  Is(Times(s.w, s.h), Area(a), d * d)
  <1> DEFINE e == d * d
             u == d * a.w
             v == d * a.h
             z == a.w * a.h
  <1>1. e \in Nat \ {0} /\ a.w \in Int /\ a.h \in Int /\ u \in Int /\ v \in Int /\ z \in Int
    BY DEF Rects
  <1>2. Is(s.w, u, e) /\ Is(s.h, v, e)
    BY FinerNum DEF DrawnAs
  <1>3. z * e = u * v
    BY <1>1
  <1> HIDE DEF e, u, v, z
  <1>4. Is(Times(s.w, s.h), z, e)
    BY <1>1, <1>2, <1>3, TimesNum
  <1> QED
    BY <1>4 DEF e, z, Area

\* A sum that is the whole is One itself.
LEMMA WholeIsOne ==
  ASSUME NEW d \in Nat \ {0}, NEW n \in Int, NEW k \in Nat \ {0}, Is(Frac(n, k), d, d)
  PROVE  Frac(n, k) = One
  <1> DEFINE p == Frac(n, k)[1]
             q == Frac(n, k)[2]
  <1>1. p \in Int /\ q \in Nat \ {0} /\ p * k = n * q /\ p * d = d * q
    BY FracExact DEF Is, Rationals
  <1> HIDE DEF p, q
  <1>2. p = q
    BY <1>1, CancelEq
  <1>3. k * q = n * q
    BY <1>1, <1>2
  <1>4. k = n
    BY <1>1, <1>3, CancelEq
  <1>5. gcd[<<n, n>>] = n
    <2>1. n \in Nat \ {0} /\ n % n = 0
      BY <1>4
    <2>2. <<n, n>> \in Nat \X Nat /\ <<n, 0>> \in Nat \X Nat /\ <<n, n>>[1] = n /\ <<n, n>>[2] = n
          /\ <<n, 0>>[1] = n /\ <<n, 0>>[2] = 0
      BY <2>1
    <2>3. \A u \in Nat \X Nat : gcd[u] = IF u[2] = 0 THEN u[1] ELSE gcd[<<u[2], u[1] % u[2]>>]
      BY GcdEquation, Zenon DEF Equation
    <2>4. gcd[<<n, n>>] = gcd[<<n, n % n>>]
      BY <2>1, <2>2, <2>3
    <2>5. gcd[<<n, 0>>] = n
      BY <2>2, <2>3
    <2> QED
      BY <2>1, <2>4, <2>5
  <1>6. Abs(n) = n /\ Abs(k) = n /\ n \div n = 1
    BY <1>4 DEF Abs
  <1> QED
    BY <1>4, <1>5, <1>6 DEF Frac, One

\* The sum of the areas.
AllAreas(g) == FoldLeft(PlusArea, Zero, g)

\* It takes a turn for each slot.
LEMMA AreaSteps ==
  ASSUME NEW S, NEW s \in Seq(S)
  PROVE  \E r : /\ r[0] = Zero
                /\ \A i \in 0..(Len(s) - 1) : r[i + 1] = PlusArea(r[i], s[i + 1])
                /\ AllAreas(s) = r[Len(s)]
  <1> DEFINE Body(h, T) == IF T = {} THEN Zero ELSE PlusArea(h[T \ {Max(T)}], s[Max(T)])
             h == CHOOSE h : h = [T \in SUBSET DOMAIN s |-> Body(h, T)]
  <1>1. Len(s) \in Nat /\ DOMAIN s = 1..Len(s)
    OBVIOUS
  <1>2. AllAreas(s) = h[DOMAIN s]
    BY DEF AllAreas, FoldLeft, MapThenFoldSet
  <1>3. h = [T \in SUBSET DOMAIN s |-> Body(h, T)]
    <2>1. PICK g : Fold(g, "area", <<>>, Zero, s, 1..Len(s))
      BY <1>1, FoldExists
    <2>2. g = [T \in SUBSET DOMAIN s |-> Body(g, T)]
      BY <1>1, <2>1, Zenon DEF Fold, Turn
    <2> QED
      BY <2>2, Zenon
  <1> HIDE DEF h
  <1>4. Fold(h, "area", <<>>, Zero, s, 1..Len(s))
    BY <1>1, <1>3, Zenon DEF Fold, Turn
  <1>5. PICK r : Run(r, "area", <<>>, Zero, s, Len(s)) /\ r[Len(s)] = h[1..Len(s)]
    BY <1>1, <1>4, FoldSteps
  <1>6. \A i \in 0..(Len(s) - 1) : r[i + 1] = PlusArea(r[i], s[i + 1])
    BY <1>5, Zenon DEF Run, Turn
  <1>7. AllAreas(s) = r[Len(s)]
    BY <1>1, <1>2, <1>5
  <1> QED
    BY <1>5, <1>6, <1>7, Zenon DEF Run

\* The areas of a tiled grid make one.
LEMMA WholeArea ==
  ASSUME NEW g \in Seq(Slots), NEW q, NEW d, TiledBy(g, q, d)
  PROVE  AllAreas(g) = One
  <1> DEFINE n == Len(g)
             e == d * d
             a == Areas(q, n)
  <1>1. /\ n \in Nat /\ d \in Nat \ {0} /\ \A i \in 1..n : DrawnAs(g[i], q[i], d)
        /\ \A i \in 1..n : q[i] \in Rects
    BY DEF TiledBy, Packed
  <1>2. e \in Nat \ {0}
    BY <1>1
  <1>3. PICK t : Adds(t, a, n, e)
    BY DEF TiledBy, Packed, Total
  <1>4. PICK r : /\ r[0] = Zero
                 /\ \A i \in 0..(n - 1) : r[i + 1] = PlusArea(r[i], g[i + 1])
                 /\ AllAreas(g) = r[n]
    BY AreaSteps
  <1>5. \A i \in 1..n : a[i] = Area(q[i])
    BY DEF Areas
  <1>6. \A i \in 1..n : Is(Times(g[i].w, g[i].h), a[i], e)
    BY <1>1, <1>5, AreaNum
  <1> HIDE DEF n, e, a
  <1> DEFINE P == {i \in Nat : Is(r[i], t[i], e)}
  <1>7. 0 \in P
    BY <1>2, <1>3, <1>4, ZeroOneNum DEF Adds
  <1>8. ASSUME NEW i \in 0..(n - 1), i \in P PROVE i + 1 \in P
    <2> DEFINE k == i + 1
    <2>1. k \in 1..n /\ k - 1 = i /\ k \in Nat
      BY <1>1
    <2>2. r[k] = Plus(r[i], Times(g[k].w, g[k].h))
      BY <1>4 DEF PlusArea
    <2> HIDE DEF k
    <2>3. t[k] = t[i] + a[k]
      BY <1>3, <2>1 DEF Adds
    <2>4. Is(r[i], t[i], e)
      BY <1>8
    <2>5. Is(r[k], t[k], e)
      BY <1>2, <1>6, <2>1, <2>2, <2>3, <2>4, PlusNum
    <2> QED
      BY <2>1, <2>5 DEF k
  <1> HIDE DEF P
  <1>9. n \in P
    BY <1>1, <1>7, <1>8, Climb
  <1>10. Is(r[n], e, e)
    BY <1>3, <1>9 DEF P, Adds
  <1>11. n # 0
    <2>1. SUFFICES ASSUME n = 0 PROVE FALSE
      OBVIOUS
    <2> QED
      BY <1>2, <1>3, <2>1 DEF Adds
  <1> DEFINE k == n - 1
             b == r[k]
             c == Times(g[n].w, g[n].h)
  <1>12. k \in 0..(n - 1) /\ k + 1 = n /\ n \in 1..n /\ k \in Nat
    BY <1>1, <1>11
  <1>13. r[n] = Plus(b, c)
    <2>1. r[k + 1] = PlusArea(r[k], g[k + 1])
      BY <1>4, <1>12
    <2> QED
      BY <1>12, <2>1 DEF PlusArea
  <1>14. b \in Rationals /\ c \in Rationals
    <2>1. c \in Rationals
      BY <1>6, <1>12 DEF Is
    <2>2. k \in P
      <3>1. ASSUME NEW i \in 0..(k - 1), i \in P PROVE i + 1 \in P
        <4>1. i \in 0..(n - 1)
          BY <1>1, <1>12
        <4> QED
          BY <1>8, <3>1, <4>1
      <3> HIDE DEF k
      <3> QED
        BY <1>7, <1>12, <3>1, Climb
    <2> QED
      BY <2>1, <2>2 DEF P, Is
  <1> HIDE DEF b, c, k
  <1>15. PICK x \in Int, y \in Nat \ {0} : Plus(b, c) = Frac(x, y)
    <2> DEFINE x == b[1] * c[2] + c[1] * b[2]
               y == b[2] * c[2]
    <2>1. x \in Int /\ y \in Nat \ {0}
      <3>1. b[1] \in Int /\ c[1] \in Int /\ b[2] \in Nat \ {0} /\ c[2] \in Nat \ {0}
        BY <1>14 DEF Rationals
      <3> QED
        BY <3>1, SMTT(30)
    <2> QED
      BY <2>1 DEF Plus
  <1>16. AllAreas(g) = Frac(x, y)
    BY <1>4, <1>13, <1>15
  <1>17. Is(Frac(x, y), e, e)
    BY <1>4, <1>10, <1>16
  <1> QED
    BY <1>2, <1>15, <1>16, <1>17, WholeIsOne

\* A grid that is tiled tiles the canvas.
LEMMA TiledTiles ==
  ASSUME NEW g \in TiledGrids
  PROVE  Tiles(g)
  <1>1. PICK d, q : TiledBy(g, q, d)
    BY DEF TiledGrids
  <1> DEFINE n == Len(g)
  <1>2. /\ g \in Seq(Slots) /\ n \in Nat /\ DOMAIN g = 1..n /\ d \in Nat \ {0}
        /\ \A i \in 1..n : DrawnAs(g[i], q[i], d)
        /\ \A i \in 1..n : q[i] \in Rects /\ Within(q[i], Board(d))
        /\ \A i, j \in 1..n : i # j => Apart(q[i], q[j])
    BY <1>1 DEF TiledGrids, TiledBy, Packed
  <1>3. FoldLeft(LAMBDA area, s : Plus(area, Times(s.w, s.h)), Zero, g) = One
    <2>1. AllAreas(g) = One
      BY <1>1, <1>2, WholeArea
    <2> QED
      BY <2>1, Zenon DEF AllAreas, PlusArea, FoldLeft, MapThenFoldSet
  <1> HIDE DEF n
  <1>4. \A i \in 1..n : /\ Is(g[i].x, q[i].x, d) /\ Is(g[i].y, q[i].y, d)
                        /\ Is(Right(g[i]), q[i].x + q[i].w, d)
                        /\ Is(Bottom(g[i]), q[i].y + q[i].h, d)
    BY <1>2, EdgesNum
  <1>5. Is(Zero, 0, d) /\ Is(One, d, d)
    BY <1>2, ZeroOneNum
  <1>6. ASSUME NEW i \in 1..n
        PROVE  /\ Leq(Zero, g[i].x) /\ Leq(Right(g[i]), One)
               /\ Leq(Zero, g[i].y) /\ Leq(Bottom(g[i]), One)
    <2>1. /\ 0 <= q[i].x /\ q[i].x + q[i].w <= d /\ 0 <= q[i].y /\ q[i].y + q[i].h <= d
      <3>1. Within(q[i], Board(d))
        BY <1>2
      <3>2. Board(d).x = 0 /\ Board(d).y = 0 /\ Board(d).w = d /\ Board(d).h = d
        BY <1>2, BoardIs
      <3> QED
        BY <1>2, <3>1, <3>2 DEF Within
    <2> QED
      BY <1>2, <1>4, <1>5, <2>1, LeqNum
  <1>7. ASSUME NEW i \in 1..n, NEW j \in 1..n, i < j
        PROVE  \/ Leq(Right(g[i]), g[j].x) \/ Leq(Right(g[j]), g[i].x)
               \/ Leq(Bottom(g[i]), g[j].y) \/ Leq(Bottom(g[j]), g[i].y)
    <2>1. Apart(q[i], q[j])
      BY <1>2, <1>7
    <2>2. /\ Leq(Right(g[i]), g[j].x) <=> q[i].x + q[i].w <= q[j].x
          /\ Leq(Right(g[j]), g[i].x) <=> q[j].x + q[j].w <= q[i].x
          /\ Leq(Bottom(g[i]), g[j].y) <=> q[i].y + q[i].h <= q[j].y
          /\ Leq(Bottom(g[j]), g[i].y) <=> q[j].y + q[j].h <= q[i].y
      BY <1>2, <1>4, LeqNum
    <2> QED
      BY <2>1, <2>2 DEF Apart
  <1> QED
    BY <1>2, <1>3, <1>6, <1>7 DEF Tiles

\* u holds the first n elements of s in the order f, in which their numbers in a make v.
Shuffles(f, u, n, s, a, v) ==
  /\ Len(u) = n
  /\ \A k \in 1..n : f[k] \in 1..n /\ u[k] = s[f[k]]
  /\ \A j, k \in 1..n : j # k => f[j] # f[k]
  /\ Total([k \in 1..n |-> a[f[k]]], n, v)

\* One element more.
LEMMA ShufflesOn ==
  ASSUME NEW S, NEW s \in Seq(S), NEW a, NEW n \in Nat, n + 1 <= Len(s), NEW u \in Seq(S), NEW v \in Int,
         a[n + 1] \in Int, NEW f, Shuffles(f, u, n, s, a, v), NEW p \in 1..(n + 1)
  PROVE  \E g : Shuffles(g, InsertAt(u, p, s[n + 1]), n + 1, s, a, v + a[n + 1])
  <1> DEFINE m == n + 1
             e == s[m]
             z == a[m]
             w == InsertAt(u, p, e)
             g == [k \in 1..m |-> IF k < p THEN f[k] ELSE IF k = p THEN m ELSE f[k - 1]]
             b == [k \in 1..n |-> a[f[k]]]
             c == [k \in 1..m |-> a[g[k]]]
  <1>1. m \in 1..Len(s) /\ e \in S /\ Len(s) \in Nat /\ m = n + 1 /\ z \in Int
    OBVIOUS
  <1>2. /\ Len(u) = n
        /\ \A k \in 1..n : f[k] \in 1..n /\ u[k] = s[f[k]]
        /\ \A j, k \in 1..n : j # k => f[j] # f[k]
        /\ Total(b, n, v)
    BY DEF Shuffles
  <1> HIDE DEF e, m, z
  <1>3. /\ Len(w) = m
        /\ \A k \in 1..m : w[k] = IF k < p THEN u[k] ELSE IF k = p THEN e ELSE u[k - 1]
    <2>1. p \in 1..(Len(u) + 1)
      BY <1>2
    <2>2. LET x == InsertAt(u, p, e) IN
          /\ x \in Seq(S) /\ Len(x) = Len(u) + 1
          /\ \A k \in 1..Len(x) :
               x[k] = IF k < p THEN u[k] ELSE IF k = p THEN e ELSE u[k - 1]
      BY <1>1, <2>1, WithOneMore
    <2> QED
      BY <1>1, <1>2, <2>2
  <1>4. \A k \in 1..m : g[k] = IF k < p THEN f[k] ELSE IF k = p THEN m ELSE f[k - 1]
    OBVIOUS
  <1>5. \A k \in 1..m : k # p => IF k < p THEN k \in 1..n ELSE k - 1 \in 1..n
    BY <1>1
  <1>6. \A k \in 1..m : c[k] = a[g[k]]
    OBVIOUS
  <1>7. \A k \in 1..n : b[k] = a[f[k]]
    OBVIOUS
  <1>8. p \in 1..m /\ m \in Nat /\ m \notin 1..n /\ 1..n \subseteq 1..m
    BY <1>1
  <1> HIDE DEF w, g, b, c
  <1>9. ASSUME NEW k \in 1..m PROVE g[k] \in 1..m /\ w[k] = s[g[k]]
    <2>1. CASE k < p
      <3>1. k \in 1..n /\ g[k] = f[k] /\ w[k] = u[k]
        BY <1>3, <1>4, <1>5, <1>8, <2>1
      <3> QED
        BY <1>2, <1>8, <3>1
    <2>2. CASE k = p
      BY <1>3, <1>4, <1>8, <2>2 DEF e
    <2>3. CASE ~(k < p) /\ k # p
      <3>1. k - 1 \in 1..n /\ g[k] = f[k - 1] /\ w[k] = u[k - 1]
        BY <1>3, <1>4, <1>5, <2>3
      <3> QED
        BY <1>2, <1>8, <3>1
    <2> QED
      BY <2>1, <2>2, <2>3
  <1>10. ASSUME NEW j \in 1..m, NEW k \in 1..m, j < k PROVE g[j] # g[k]
    <2>1. CASE j = p
      <3>1. k - 1 \in 1..n /\ g[k] = f[k - 1] /\ g[j] = m
        BY <1>4, <1>5, <1>10, <2>1
      <3> QED
        BY <1>2, <1>8, <3>1
    <2>2. CASE k = p
      <3>1. j \in 1..n /\ g[k] = m /\ g[j] = f[j]
        BY <1>4, <1>5, <1>10, <2>2
      <3> QED
        BY <1>2, <1>8, <3>1
    <2>3. CASE j # p /\ k # p
      <3> DEFINE x == IF j < p THEN j ELSE j - 1
                 y == IF k < p THEN k ELSE k - 1
      <3>1. g[j] = f[x] /\ g[k] = f[y]
        BY <1>4, <2>3
      <3>2. x \in 1..n /\ y \in 1..n
        BY <1>5, <2>3
      <3>3. x # y
        BY <1>10, <2>3
      <3> HIDE DEF x, y
      <3> QED
        BY <1>2, <3>1, <3>2, <3>3
    <2> QED
      BY <2>1, <2>2, <2>3
  <1>11. \A j, k \in 1..m : j # k => g[j] # g[k]
    <2> SUFFICES ASSUME NEW j \in 1..m, NEW k \in 1..m, j # k PROVE g[j] # g[k]
      OBVIOUS
    <2>1. j < k \/ k < j
      BY <1>8
    <2> QED
      BY <1>10, <2>1
  <1>12. Total(c, m, v + z)
    <2>1. \A k \in 1..m : c[k] = IF k < p THEN b[k] ELSE IF k = p THEN z ELSE b[k - 1]
      <3> SUFFICES ASSUME NEW k \in 1..m
                   PROVE  c[k] = IF k < p THEN b[k] ELSE IF k = p THEN z ELSE b[k - 1]
        OBVIOUS
      <3>1. CASE k < p
        BY <1>4, <1>5, <1>6, <1>7, <3>1
      <3>2. CASE k = p
        BY <1>4, <1>6, <3>2 DEF z
      <3>3. CASE ~(k < p) /\ k # p
        <4>1. k - 1 \in 1..n /\ g[k] = f[k - 1]
          BY <1>4, <1>5, <3>3
        <4> QED
          BY <1>6, <1>7, <3>3, <4>1
      <3> QED
        BY <3>1, <3>2, <3>3
    <2>2. p \in 1..(n + 1)
          /\ \A k \in 1..(n + 1) : c[k] = IF k < p THEN b[k] ELSE IF k = p THEN z ELSE b[k - 1]
      BY <1>1, <2>1
    <2>3. Total(b, n, v) /\ z \in Int
      BY <1>1, <1>2
    <2>4. Total(c, n + 1, v + z)
      BY <2>2, <2>3, TotalInserted
    <2> QED
      BY <1>1, <2>4
  <1>13. Shuffles(g, w, m, s, a, v + z)
    BY <1>3, <1>9, <1>11, <1>12 DEF Shuffles, c
  <1> QED
    BY <1>13 DEF w, m, e, z

-----------------------------------------------------------------------------
(*****************************************************************************)
(* Sorting and filtering tiled grids                                         *)
(*****************************************************************************)

\* std::sort changes the order, whatever it compares.
LEMMA SortShuffles ==
  ASSUME NEW by, NEW S, NEW s \in Seq(S), NEW a, NEW v, Total(a, Len(s), v)
  PROVE  StdSort(s, by) \in Seq(S) /\ \E f : Shuffles(f, StdSort(s, by), Len(s), s, a, v)
  <1> DEFINE n == Len(s)
  <1>1. PICK r : /\ r[0] = <<>>
                 /\ \A i \in 0..(n - 1) : r[i + 1] = Inserted(by, r[i], s[i + 1])
                 /\ StdSort(s, by) = r[n]
    BY SortSteps
  <1>2. PICK t : Adds(t, a, n, v)
    BY DEF Total
  <1>3. n \in Nat /\ \A i \in 1..n : s[i] \in S
    OBVIOUS
  <1> DEFINE Done(i) == r[i] \in Seq(S) /\ \E f : Shuffles(f, r[i], i, s, a, t[i])
             P == {i \in Nat : Done(i)}
  <1>4. 0 \in P
    <2> DEFINE f == [k \in 1..0 |-> 0]
               b == [k \in 1..0 |-> a[f[k]]]
    <2>1. <<>> \in Seq(S) /\ Len(<<>>) = 0 /\ 1..0 = {}
      OBVIOUS
    <2>2. Total(b, 0, 0)
      <3> HIDE DEF b
      <3> QED
        BY TotalOfEqual
    <2>3. t[0] = 0 /\ r[0] = <<>>
      BY <1>1, <1>2 DEF Adds
    <2>4. Shuffles(f, <<>>, 0, s, a, 0)
      BY <2>1, <2>2, <2>3 DEF Shuffles
    <2> HIDE DEF f, b
    <2>5. Done(0)
      BY <2>1, <2>3, <2>4
    <2> HIDE DEF Done
    <2> QED
      BY <2>5
  <1>5. ASSUME NEW i \in 0..(n - 1), i \in P PROVE i + 1 \in P
    <2> DEFINE u == r[i]
               w == t[i]
               m == i + 1
    <2>1. i \in Nat /\ m \in 1..n /\ m - 1 = i /\ i + 1 <= Len(s) /\ m \in Nat
      BY <1>3
    <2>2. Done(i)
      BY <1>5
    <2>3. PICK f : Shuffles(f, u, i, s, a, w)
      BY <2>2
    <2>4. u \in Seq(S) /\ Len(u) = i
      BY <2>2, <2>3 DEF Shuffles
    <2>5. r[m] = Inserted(by, u, s[m])
      BY <1>1
    <2>6. t[m] = w + a[m] /\ w \in Int /\ a[m] \in Int
      <3> HIDE DEF m
      <3>1. t[m] = t[m - 1] + a[m] /\ a[m] \in Int /\ t[i] \in Int
        BY <1>2, <2>1 DEF Adds
      <3> QED
        BY <2>1, <3>1
    <2>7. PICK p \in 1..(i + 1) : r[m] = InsertAt(u, p, s[m])
      <3> HIDE DEF u, m
      <3>1. PICK p \in 1..(Len(u) + 1) : Inserted(by, u, s[m]) = InsertAt(u, p, s[m])
        BY <2>4, InsertedSomewhere
      <3> QED
        BY <2>4, <2>5, <3>1
    <2> HIDE DEF u, w, Done
    <2>8. \E g : Shuffles(g, InsertAt(u, p, s[i + 1]), i + 1, s, a, w + a[i + 1])
      <3>1. a[i + 1] \in Int
        BY <2>6
      <3> QED
        BY <2>1, <2>3, <2>4, <2>6, <3>1, ShufflesOn
    <2>9. \E g : Shuffles(g, r[m], m, s, a, t[m])
      BY <2>6, <2>7, <2>8
    <2>10. r[m] \in Seq(S)
      <3>1. s[m] \in S /\ p \in 1..(Len(u) + 1)
        BY <1>3, <2>1, <2>4, <2>7
      <3> HIDE DEF m
      <3>2. LET x == InsertAt(u, p, s[m]) IN x \in Seq(S)
        BY <2>4, <3>1, WithOneMore
      <3> QED
        BY <2>7, <3>2
    <2>11. Done(m)
      BY <2>9, <2>10 DEF Done
    <2> QED
      BY <2>1, <2>11
  <1> HIDE DEF P
  <1>6. n \in P
    BY <1>3, <1>4, <1>5, Climb
  <1>7. Done(n)
    BY <1>6 DEF P
  <1>8. t[n] = v
    BY <1>2 DEF Adds
  <1> QED
    BY <1>1, <1>7, <1>8

\* Sorted, a tiled grid is tiled.
LEMMA SortTiled ==
  ASSUME NEW by, NEW g \in TiledGrids
  PROVE  StdSort(g, by) \in TiledGrids
  <1> DEFINE n == Len(g)
             u == StdSort(g, by)
  <1>1. PICK d, q : TiledBy(g, q, d)
    BY DEF TiledGrids
  <1> DEFINE a == Areas(q, n)
             e == d * d
  <1>2. /\ g \in Seq(Slots) /\ n \in Nat /\ d \in Nat \ {0}
        /\ \A i \in 1..n : DrawnAs(g[i], q[i], d)
        /\ \A i \in 1..n : q[i] \in Rects /\ \E b \in {Board(d)} : Within(q[i], b)
        /\ \A i, j \in 1..n : i # j => Apart(q[i], q[j])
        /\ Total(a, n, e)
    BY <1>1 DEF TiledGrids, TiledBy, Packed
  <1>3. u \in Seq(Slots) /\ \E f : Shuffles(f, u, n, g, a, e)
    <2> HIDE DEF a, e
    <2>1. Total(a, Len(g), e)
      BY <1>2
    <2> QED
      BY <1>2, <2>1, SortShuffles
  <1>4. PICK f : Shuffles(f, u, n, g, a, e)
    BY <1>3
  <1> HIDE DEF u
  <1> DEFINE p == [i \in 1..n |-> q[f[i]]]
  <1>5. /\ Len(u) = n
        /\ \A i \in 1..n : f[i] \in 1..n /\ u[i] = g[f[i]] /\ p[i] = q[f[i]]
        /\ \A i, j \in 1..n : i # j => f[i] # f[j]
    BY <1>4 DEF Shuffles
  <1>6. Total(Areas(p, n), n, e)
    <2> DEFINE b == [i \in 1..n |-> a[f[i]]]
               c == Areas(p, n)
    <2>1. Total(b, n, e)
      BY <1>4 DEF Shuffles
    <2>2. \A i \in 1..n : c[i] = b[i]
      BY <1>5 DEF Areas
    <2> HIDE DEF b, c
    <2>3. Total(c, n, e)
      BY <1>2, <2>1, <2>2, TotalSame
    <2> QED
      BY <2>3 DEF c
  <1> HIDE DEF p
  <1>7. Packed(p, n, {Board(d)}, e)
    BY <1>2, <1>5, <1>6, SMTT(30) DEF Packed
  <1>8. TiledBy(u, p, d)
    BY <1>2, <1>5, <1>7 DEF TiledBy
  <1> QED
    BY <1>3, <1>8 DEF TiledGrids, u

\* Sorting the grids.
LEMMA SortedGridsTiled ==
  ASSUME NEW gs \in Seq(TiledGrids), NEW hs \in SortedGrids(gs)
  PROVE  hs \in Seq(TiledGrids)
  <1> DEFINE slots == [i \in DOMAIN gs |-> StdSort(gs[i], "aspectRatio")]
  <1>1. DOMAIN gs = 1..Len(gs) /\ Len(gs) \in Nat /\ \A i \in DOMAIN gs : gs[i] \in TiledGrids
    BY Members
  <1>2. PICK f \in [DOMAIN gs -> DOMAIN gs] : hs = [i \in DOMAIN gs |-> slots[f[i]]]
    <2>1. hs \in {[i \in DOMAIN gs |-> slots[f[i]]] :
                   f \in {f \in [DOMAIN gs -> DOMAIN gs] : IsInjective(f)}}
      BY Zenon DEF SortedGrids
    <2> HIDE DEF slots
    <2> QED
      BY <2>1
  <1>3. \A i \in DOMAIN gs : slots[i] \in TiledGrids
    BY <1>1, SortTiled
  <1> HIDE DEF slots
  <1>4. hs \in [1..Len(gs) -> TiledGrids]
    BY <1>1, <1>2, <1>3
  <1> QED
    BY <1>1, <1>4

\* What filtering leaves.
LEMMA FilteredTiled ==
  ASSUME NEW gs \in Seq(TiledGrids)
  PROVE  Filtered(gs) \in Seq(TiledGrids)
  <1> DEFINE sorted == [i \in DOMAIN gs |-> StdSort(gs[i], "coordAndArea")]
  <1>1. DOMAIN gs = 1..Len(gs) /\ Len(gs) \in Nat /\ \A i \in DOMAIN gs : gs[i] \in TiledGrids
    BY Members
  <1>2. \A i \in DOMAIN gs : sorted[i] \in TiledGrids
    BY <1>1, SortTiled
  <1>3. Filtered(gs) = AllKept(sorted)
    BY Zenon DEF Filtered, AllKept
  <1>4. sorted \in [1..Len(gs) -> TiledGrids]
    BY <1>1, <1>2
  <1> HIDE DEF sorted
  <1>5. sorted \in Seq(TiledGrids)
    BY <1>1, <1>4
  <1> QED
    BY <1>3, <1>5, KeepsSome

-----------------------------------------------------------------------------
(*****************************************************************************)
(* Slots cut in two                                                          *)
(*****************************************************************************)

\* What is drawn for a slot is a rectangle of fractions.
LEMMA DrawnSlot ==
  ASSUME NEW s, NEW a, NEW d \in Nat \ {0}, DrawnAs(s, a, d), s \in Slots
  PROVE  /\ a.x \in Int /\ a.y \in Int /\ a.w \in Int /\ a.h \in Int
         /\ IsSlot(s)
  BY DEF DrawnAs, Is, Slots, IsSlot

\* A slot made from fractions.
LEMMA SlotIs ==
  ASSUME NEW x, NEW y, NEW w, NEW h, NEW p \in Nat, NEW a, NEW d,
         Is(x, a.x, d), Is(y, a.y, d), Is(w, a.w, d), Is(h, a.h, d)
  PROVE  Slot(x, y, w, h, p) \in Slots /\ DrawnAs(Slot(x, y, w, h, p), a, d)
  BY DEF Slot, Slots, DrawnAs, Is

\* A rectangle on twice the scale, and its halves.
Doubled(a) == Rect(2 * a.x, 2 * a.y, 2 * a.w, 2 * a.h)
First(a) == IF a.h < a.w THEN Rect(2 * a.x, 2 * a.y, a.w, 2 * a.h)
                         ELSE Rect(2 * a.x, 2 * a.y, 2 * a.w, a.h)
Second(a) == IF a.h < a.w THEN Rect(2 * a.x + a.w, 2 * a.y, a.w, 2 * a.h)
                          ELSE Rect(2 * a.x, 2 * a.y + a.h, 2 * a.w, a.h)

\* They lie in it, apart, and have half its area each.
LEMMA HalvesAre ==
  ASSUME NEW a \in Rects
  PROVE  /\ Doubled(a) \in Rects /\ First(a) \in Rects /\ Second(a) \in Rects
         /\ Within(First(a), Doubled(a)) /\ Within(Second(a), Doubled(a))
         /\ Apart(First(a), Second(a))
         /\ Area(Doubled(a)) = 4 * Area(a)
         /\ Area(First(a)) + Area(Second(a)) = 4 * Area(a)
  <1> DEFINE x == a.x
             y == a.y
             w == a.w
             h == a.h
  <1>1. x \in Int /\ y \in Int /\ w \in Nat \ {0} /\ h \in Nat \ {0}
    BY DEF Rects
  <1>2. /\ 2 * x \in Int /\ 2 * y \in Int /\ 2 * w \in Nat \ {0} /\ 2 * h \in Nat \ {0}
        /\ 2 * x + w \in Int /\ 2 * y + h \in Int
    BY <1>1
  <1> DEFINE D == Rect(2 * x, 2 * y, 2 * w, 2 * h)
             l == Rect(2 * x, 2 * y, w, 2 * h)
             r == Rect(2 * x + w, 2 * y, w, 2 * h)
             t == Rect(2 * x, 2 * y, 2 * w, h)
             b == Rect(2 * x, 2 * y + h, 2 * w, h)
  <1>3. /\ D \in Rects /\ l \in Rects /\ r \in Rects /\ t \in Rects /\ b \in Rects
        /\ D.x = 2 * x /\ D.y = 2 * y /\ D.w = 2 * w /\ D.h = 2 * h
        /\ l.x = 2 * x /\ l.y = 2 * y /\ l.w = w /\ l.h = 2 * h
        /\ r.x = 2 * x + w /\ r.y = 2 * y /\ r.w = w /\ r.h = 2 * h
        /\ t.x = 2 * x /\ t.y = 2 * y /\ t.w = 2 * w /\ t.h = h
        /\ b.x = 2 * x /\ b.y = 2 * y + h /\ b.w = 2 * w /\ b.h = h
    BY <1>1, <1>2 DEF Rects, Rect
  <1>4. /\ Doubled(a) = D /\ First(a) = (IF h < w THEN l ELSE t)
        /\ Second(a) = (IF h < w THEN r ELSE b) /\ Area(a) = w * h
    BY DEF Doubled, First, Second, Area
  <1> HIDE DEF x, y, w, h, D, l, r, t, b
  <1>5. /\ Within(l, D) /\ Within(r, D) /\ Within(t, D) /\ Within(b, D)
        /\ Apart(l, r) /\ Apart(t, b)
    BY <1>1, <1>3 DEF Within, Apart
  <1>6. /\ Area(D) = (2 * w) * (2 * h) /\ Area(l) = w * (2 * h) /\ Area(r) = w * (2 * h)
        /\ Area(t) = (2 * w) * h /\ Area(b) = (2 * w) * h
    BY <1>3 DEF Area
  <1>7. /\ (2 * w) * (2 * h) = 4 * (w * h) /\ w * (2 * h) + w * (2 * h) = 4 * (w * h)
        /\ (2 * w) * h + (2 * w) * h = 4 * (w * h)
    BY <1>1
  <1> QED
    BY <1>3, <1>4, <1>5, <1>6, <1>7

\* Inside and apart on twice the scale.
LEMMA DoubledKeeps ==
  ASSUME NEW a \in Rects, NEW b \in Rects
  PROVE  /\ Within(a, b) => Within(Doubled(a), Doubled(b))
         /\ Apart(a, b) => Apart(Doubled(a), Doubled(b))
  <1>1. /\ Doubled(a).x = 2 * a.x /\ Doubled(a).y = 2 * a.y
        /\ Doubled(a).w = 2 * a.w /\ Doubled(a).h = 2 * a.h
        /\ Doubled(b).x = 2 * b.x /\ Doubled(b).y = 2 * b.y
        /\ Doubled(b).w = 2 * b.w /\ Doubled(b).h = 2 * b.h
    BY DEF Doubled, Rect
  <1>2. /\ a.x \in Int /\ a.y \in Int /\ a.w \in Int /\ a.h \in Int
        /\ b.x \in Int /\ b.y \in Int /\ b.w \in Int /\ b.h \in Int
    BY DEF Rects
  <1> QED
    BY <1>1, <1>2 DEF Within, Apart

\* The canvas on twice the scale is the canvas.
LEMMA DoubledBoard ==
  ASSUME NEW d \in Nat \ {0}
  PROVE  Doubled(Board(d)) = Board(2 * d) /\ (2 * d) * (2 * d) = 4 * (d * d)
  <1>1. Doubled(Board(d)) = Rect(2 * 0, 2 * 0, 2 * d, 2 * d)
    BY BoardIs DEF Doubled
  <1> QED
    BY <1>1 DEF Board

\* A fraction on twice the scale, and its half.
LEMMA HalfNum ==
  ASSUME NEW d \in Nat \ {0}, NEW f, NEW z, Is(f, z, d)
  PROVE  Is(f, 2 * z, 2 * d) /\ Is(Half(f), z, 2 * d)
  <1> DEFINE e == 2 * d
             y == 2 * z
             k == 2
             g == Over(f, <<k, 1>>)
  <1>1. e \in Nat \ {0} /\ z \in Int /\ k \in Nat \ {0}
    BY DEF Is
  <1>2. Is(f, y, e)
    BY FinerNum
  <1>3. z * k = y
    BY <1>1
  <1>4. Half(f) = g
    BY DEF Half
  <1> HIDE DEF e, y, k
  <1>5. Is(g, z, e)
    BY <1>1, <1>2, <1>3, PartNum
  <1> QED
    BY <1>2, <1>4, <1>5 DEF e, y

\* A slot and its halves on twice the scale.
LEMMA HalvesDrawn ==
  ASSUME NEW d \in Nat \ {0}, NEW s \in Slots, NEW a \in Rects, DrawnAs(s, a, d)
  PROVE  /\ DrawnAs(s, Doubled(a), 2 * d)
         /\ FirstHalf(s) \in Slots /\ DrawnAs(FirstHalf(s), First(a), 2 * d)
         /\ SecondHalf(s) \in Slots /\ DrawnAs(SecondHalf(s), Second(a), 2 * d)
  <1> DEFINE e == 2 * d
             x == s.x
             y == s.y
             w == s.w
             h == s.h
             p == s.photo
             ax == 2 * a.x
             ay == 2 * a.y
             aw == 2 * a.w
             ah == 2 * a.h
  <1>1. s = Slot(x, y, w, h, p) /\ p \in Nat /\ e \in Nat \ {0}
    BY DEF Slots, Slot
  <1>2. Is(x, a.x, d) /\ Is(y, a.y, d) /\ Is(w, a.w, d) /\ Is(h, a.h, d)
    BY DEF DrawnAs
  <1>3. /\ Is(x, ax, e) /\ Is(y, ay, e) /\ Is(w, aw, e) /\ Is(h, ah, e)
        /\ Is(Half(w), a.w, e) /\ Is(Half(h), a.h, e)
    BY <1>2, HalfNum
  <1>4. Less(h, w) <=> a.h < a.w
    BY <1>2, LeqNum
  <1> HIDE DEF x, y, w, h, p, e, ax, ay, aw, ah
  <1>5. Is(Plus(x, Half(w)), ax + a.w, e) /\ Is(Plus(y, Half(h)), ay + a.h, e)
    BY <1>1, <1>3, PlusNum
  <1>6. /\ Doubled(a) = Rect(ax, ay, aw, ah)
        /\ First(a) = IF a.h < a.w THEN Rect(ax, ay, a.w, ah) ELSE Rect(ax, ay, aw, a.h)
        /\ Second(a) = IF a.h < a.w THEN Rect(ax + a.w, ay, a.w, ah)
                                    ELSE Rect(ax, ay + a.h, aw, a.h)
    BY DEF Doubled, First, Second, ax, ay, aw, ah
  <1>7. \A u, v, f, g : /\ Rect(u, v, f, g).x = u /\ Rect(u, v, f, g).y = v
                        /\ Rect(u, v, f, g).w = f /\ Rect(u, v, f, g).h = g
    BY DEF Rect
  <1>8. FirstHalf(s) = IF Less(h, w) THEN Slot(x, y, Half(w), h, p) ELSE Slot(x, y, w, Half(h), p)
    <2>1. /\ s.x = x /\ s.y = y /\ s.w = w /\ s.h = h /\ s.photo = p
      BY DEF x, y, w, h, p
    <2>2. /\ [s EXCEPT !.w = Half(w)] = Slot(x, y, Half(w), h, p)
          /\ [s EXCEPT !.h = Half(h)] = Slot(x, y, w, Half(h), p)
      BY <1>1 DEF Slot
    <2> QED
      BY <2>1, <2>2, Zenon DEF FirstHalf
  <1>9. SecondHalf(s) = IF Less(h, w) THEN Slot(Plus(x, Half(w)), y, Half(w), h, 0)
                                      ELSE Slot(x, Plus(y, Half(h)), w, Half(h), 0)
    BY Zenon DEF SecondHalf, HalfWith, x, y, w, h
  <1>10. DrawnAs(s, Doubled(a), e)
    <2>1. s.x = x /\ s.y = y /\ s.w = w /\ s.h = h
      BY DEF x, y, w, h
    <2> QED
      BY <1>3, <1>6, <1>7, <2>1 DEF DrawnAs
  <1>11. FirstHalf(s) \in Slots /\ DrawnAs(FirstHalf(s), First(a), e)
    <2>1. CASE a.h < a.w
      <3> DEFINE b == Rect(ax, ay, a.w, ah)
      <3>1. Is(x, b.x, e) /\ Is(y, b.y, e) /\ Is(Half(w), b.w, e) /\ Is(h, b.h, e)
        BY <1>3, <1>7
      <3>2. First(a) = b /\ FirstHalf(s) = Slot(x, y, Half(w), h, p)
        BY <1>4, <1>6, <1>8, <2>1
      <3> HIDE DEF b
      <3> QED
        BY <1>1, <3>1, <3>2, SlotIs
    <2>2. CASE ~(a.h < a.w)
      <3> DEFINE b == Rect(ax, ay, aw, a.h)
      <3>1. Is(x, b.x, e) /\ Is(y, b.y, e) /\ Is(w, b.w, e) /\ Is(Half(h), b.h, e)
        BY <1>3, <1>7
      <3>2. First(a) = b /\ FirstHalf(s) = Slot(x, y, w, Half(h), p)
        BY <1>4, <1>6, <1>8, <2>2
      <3> HIDE DEF b
      <3> QED
        BY <1>1, <3>1, <3>2, SlotIs
    <2> QED
      BY <2>1, <2>2
  <1>12. SecondHalf(s) \in Slots /\ DrawnAs(SecondHalf(s), Second(a), e)
    <2> DEFINE z == 0
    <2>1. z \in Nat
      OBVIOUS
    <2>2. CASE a.h < a.w
      <3> DEFINE b == Rect(ax + a.w, ay, a.w, ah)
      <3>1. Is(Plus(x, Half(w)), b.x, e) /\ Is(y, b.y, e) /\ Is(Half(w), b.w, e) /\ Is(h, b.h, e)
        BY <1>3, <1>5, <1>7
      <3>2. Second(a) = b /\ SecondHalf(s) = Slot(Plus(x, Half(w)), y, Half(w), h, z)
        BY <1>4, <1>6, <1>9, <2>2
      <3> HIDE DEF b, z
      <3> QED
        BY <2>1, <3>1, <3>2, SlotIs
    <2>3. CASE ~(a.h < a.w)
      <3> DEFINE b == Rect(ax, ay + a.h, aw, a.h)
      <3>1. Is(x, b.x, e) /\ Is(Plus(y, Half(h)), b.y, e) /\ Is(w, b.w, e) /\ Is(Half(h), b.h, e)
        BY <1>3, <1>5, <1>7
      <3>2. Second(a) = b /\ SecondHalf(s) = Slot(x, Plus(y, Half(h)), w, Half(h), z)
        BY <1>4, <1>6, <1>9, <2>3
      <3> HIDE DEF b, z
      <3> QED
        BY <2>1, <3>1, <3>2, SlotIs
    <2> QED
      BY <2>2, <2>3
  <1> QED
    BY <1>10, <1>11, <1>12 DEF e

\* The slots after cutting: the whole ones, the first halves, the second halves.
LEMMA SplitIs ==
  ASSUME NEW g \in Seq(Slots), NEW t \in Nat
  PROVE  \E keep \in 0..Len(g) :
           /\ Split(g, t) \in Seq(Slots) /\ Len(Split(g, t)) = Len(g) + (Len(g) - keep)
           /\ \A i \in 1..keep : Split(g, t)[i] = g[i]
           /\ \A i \in (keep + 1)..Len(g) : Split(g, t)[i] = FirstHalf(g[i])
           /\ \A i \in (Len(g) + 1)..(Len(g) + (Len(g) - keep)) :
                Split(g, t)[i] = SecondHalf(g[i - (Len(g) - keep)])
  <1> DEFINE n == Len(g)
             keep == IF n > t THEN n - t ELSE 0
             m == n - keep
             a == SubSeq(g, 1, keep)
             cut == SubSeq(g, keep + 1, n)
             b == [i \in DOMAIN cut |-> FirstHalf(cut[i])]
             c == [i \in DOMAIN cut |-> SecondHalf(cut[i])]
             d == a \o b
             e == d \o c
  <1>1. n \in Nat /\ \A i \in 1..n : g[i] \in Slots
    OBVIOUS
  <1>2. keep \in 0..n
    BY <1>1
  <1>3. Split(g, t) = e
    BY Zenon DEF Split
  <1> HIDE DEF keep, n
  <1>4. a \in Seq(Slots) /\ Len(a) = keep /\ \A i \in 1..keep : a[i] = g[i]
    <2>1. \A i \in 1..keep : g[i] \in Slots
      BY <1>1, <1>2
    <2>2. keep \in Nat
      BY <1>1, <1>2
    <2> QED
      BY <2>1, <2>2, SubSeqProperties
  <1>5. /\ cut \in Seq(Slots) /\ Len(cut) = m
        /\ \A i \in 1..m : cut[i] = g[keep + i]
    <2>1. \A i \in (keep + 1)..n : g[i] \in Slots
      BY <1>1, <1>2
    <2>2. keep + 1 \in Nat /\ n + 1 - (keep + 1) = m /\ keep + 1 <= n + 1
      BY <1>1, <1>2
    <2>3. \A i \in 1..m : (keep + 1) + i - 1 = keep + i
      BY <1>1, <1>2
    <2> HIDE DEF m
    <2> QED
      BY <1>1, <2>1, <2>2, <2>3, SubSeqProperties
  <1> HIDE DEF a, cut
  <1>6. m \in Nat /\ DOMAIN cut = 1..m /\ keep + m = n /\ keep \in Nat
    <2>1. m \in Nat /\ keep + m = n /\ keep \in Nat
      BY <1>1, <1>2
    <2> HIDE DEF m
    <2> QED
      BY <1>5, <2>1
  <1> HIDE DEF m
  <1>7. \A s \in Slots : FirstHalf(s) \in Slots /\ SecondHalf(s) \in Slots
    <2> TAKE s \in Slots
    <2>1. \A f \in Rationals : Half(f) \in Rationals
      <3> TAKE f \in Rationals
      <3>1. f[1] \in Int /\ f[2] \in Nat \ {0} /\ <<2, 1>>[1] = 2 /\ <<2, 1>>[2] = 1
        BY DEF Rationals
      <3>2. <<1, 2>>[1] = 1 /\ <<1, 2>>[2] = 2
        OBVIOUS
      <3>3. Half(f) = Frac(f[1] * 1, f[2] * 2)
        BY <3>1, <3>2 DEF Half, Over, Times
      <3>4. f[1] * 1 \in Int /\ f[2] * 2 \in Int \ {0}
        BY <3>1
      <3> QED
        BY <3>3, <3>4, FracExact
    <2>2. \A f, h \in Rationals : Plus(f, h) \in Rationals
      <3> TAKE f, h \in Rationals
      <3>1. f[1] * h[2] + h[1] * f[2] \in Int /\ f[2] * h[2] \in Int \ {0}
        <4> DEFINE f1 == f[1]
                   f2 == f[2]
                   h1 == h[1]
                   h2 == h[2]
        <4>1. f1 \in Int /\ f2 \in Nat \ {0} /\ h1 \in Int /\ h2 \in Nat \ {0}
          BY DEF Rationals
        <4> HIDE DEF f1, f2, h1, h2
        <4>2. f1 * h2 + h1 * f2 \in Int /\ f2 * h2 \in Int \ {0}
          BY <4>1
        <4> QED
          BY <4>2 DEF f1, f2, h1, h2
      <3> QED
        BY <3>1, FracExact DEF Plus
    <2>3. /\ s.x \in Rationals /\ s.y \in Rationals /\ s.w \in Rationals /\ s.h \in Rationals
          /\ s = Slot(s.x, s.y, s.w, s.h, s.photo) /\ s.photo \in Nat
      BY DEF Slots, Slot
    <2>4. \A x, y, w, h \in Rationals, p \in Nat : Slot(x, y, w, h, p) \in Slots
      BY DEF Slot, Slots
    <2>5. FirstHalf(s) \in Slots
      BY <2>1, <2>3 DEF FirstHalf, Slots
    <2>6. SecondHalf(s) \in Slots
      BY <2>1, <2>2, <2>3, <2>4 DEF SecondHalf, HalfWith
    <2> QED
      BY <2>5, <2>6
  <1>8. /\ b \in [1..m -> Slots] /\ c \in [1..m -> Slots]
        /\ \A i \in 1..m : b[i] = FirstHalf(g[keep + i]) /\ c[i] = SecondHalf(g[keep + i])
    <2>1. \A i \in 1..m : cut[i] \in Slots
      BY <1>5, <1>6
    <2> QED
      BY <1>5, <1>6, <1>7, <2>1
  <1> HIDE DEF b, c
  <1>9. b \in Seq(Slots) /\ Len(b) = m /\ c \in Seq(Slots) /\ Len(c) = m
    BY <1>6, <1>8
  <1>10. /\ d \in Seq(Slots) /\ Len(d) = n
         /\ \A i \in 1..n : d[i] = IF i <= keep THEN a[i] ELSE b[i - keep]
    <2>1. /\ d \in Seq(Slots) /\ Len(d) = Len(a) + Len(b)
          /\ \A i \in 1..Len(a) + Len(b) : d[i] = IF i <= Len(a) THEN a[i] ELSE b[i - Len(a)]
      BY <1>4, <1>9, ConcatProperties
    <2> QED
      BY <1>4, <1>6, <1>9, <2>1
  <1> HIDE DEF d
  <1>11. /\ e \in Seq(Slots) /\ Len(e) = n + m
         /\ \A i \in 1..(n + m) : e[i] = IF i <= n THEN d[i] ELSE c[i - n]
    <2>1. /\ e \in Seq(Slots) /\ Len(e) = Len(d) + Len(c)
          /\ \A i \in 1..Len(d) + Len(c) : e[i] = IF i <= Len(d) THEN d[i] ELSE c[i - Len(d)]
      BY <1>9, <1>10, ConcatProperties
    <2> QED
      BY <1>9, <1>10, <2>1
  <1> HIDE DEF e
  <1>12. \A i \in 1..keep : e[i] = g[i]
    <2> TAKE i \in 1..keep
    <2>1. i \in 1..n /\ i \in 1..(n + m) /\ i <= n /\ i <= keep
      BY <1>1, <1>6
    <2> QED
      BY <1>4, <1>10, <1>11, <2>1
  <1>13. \A i \in (keep + 1)..n : e[i] = FirstHalf(g[i])
    <2> TAKE i \in (keep + 1)..n
    <2>1. i \in 1..n /\ i \in 1..(n + m) /\ i <= n /\ ~(i <= keep)
          /\ i - keep \in 1..m /\ keep + (i - keep) = i
      BY <1>1, <1>6
    <2> QED
      BY <1>8, <1>10, <1>11, <2>1
  <1>14. \A i \in (n + 1)..(n + m) : e[i] = SecondHalf(g[i - m])
    <2> TAKE i \in (n + 1)..(n + m)
    <2>1. i \in 1..(n + m) /\ ~(i <= n) /\ i - n \in 1..m /\ keep + (i - n) = i - m
      BY <1>1, <1>6
    <2>2. e[i] = c[i - n] /\ c[i - n] = SecondHalf(g[keep + (i - n)])
      BY <1>8, <1>11, <2>1
    <2> QED
      BY <2>1, <2>2
  <1>15. m = n - keep
    BY DEF m
  <1> QED
    BY <1>2, <1>3, <1>11, <1>12, <1>13, <1>14, <1>15 DEF n

\* Cutting some slots in two leaves the grid tiled.
LEMMA SplitTiled ==
  ASSUME NEW g \in TiledGrids, NEW t \in Nat
  PROVE  Split(g, t) \in TiledGrids
  <1> DEFINE n == Len(g)
             r == Split(g, t)
  <1>1. PICK d, q : TiledBy(g, q, d)
    BY DEF TiledGrids
  <1>2. /\ g \in Seq(Slots) /\ n \in Nat /\ d \in Nat \ {0}
        /\ \A i \in 1..n : g[i] \in Slots /\ DrawnAs(g[i], q[i], d)
        /\ \A i \in 1..n : q[i] \in Rects /\ Within(q[i], Board(d))
        /\ \A i, j \in 1..n : i # j => Apart(q[i], q[j])
        /\ Total(Areas(q, n), n, d * d)
    BY <1>1 DEF TiledGrids, TiledBy, Packed
  <1>3. PICK keep \in 0..n :
           /\ r \in Seq(Slots) /\ Len(r) = n + (n - keep)
           /\ \A i \in 1..keep : r[i] = g[i]
           /\ \A i \in (keep + 1)..n : r[i] = FirstHalf(g[i])
           /\ \A i \in (n + 1)..(n + (n - keep)) : r[i] = SecondHalf(g[i - (n - keep)])
    BY <1>2, SplitIs
  <1> DEFINE m == n - keep
             k == n + m
             p == [i \in 1..k |-> IF i <= keep THEN Doubled(q[i])
                                  ELSE IF i <= n THEN First(q[i]) ELSE Second(q[i - m])]
             from(i) == IF i <= n THEN i ELSE i - m
  <1> HIDE DEF n, r
  <1>4. m \in Nat /\ k \in Nat /\ keep \in Nat /\ keep + m = n /\ k = n + m /\ 2 * d \in Nat \ {0}
    BY <1>2, <1>3
  <1>5. /\ Len(r) = k
        /\ \A i \in (n + 1)..k : r[i] = SecondHalf(g[i - m])
    BY <1>3
  <1>6. ASSUME NEW i \in 1..k, i <= keep
        PROVE  /\ i \in 1..n /\ from(i) = i /\ p[i] = Doubled(q[i]) /\ r[i] = g[i]
    <2>1. i \in 1..n /\ i \in 1..keep /\ i <= n
      BY <1>2, <1>3, <1>6
    <2> HIDE DEF m, k
    <2> QED
      BY <1>3, <1>6, <2>1
  <1>7. ASSUME NEW i \in 1..k, ~(i <= keep), i <= n
        PROVE  /\ i \in 1..n /\ from(i) = i /\ p[i] = First(q[i]) /\ r[i] = FirstHalf(g[i])
    <2>1. i \in 1..n /\ i \in (keep + 1)..n
      BY <1>2, <1>3, <1>7
    <2> HIDE DEF m, k
    <2> QED
      BY <1>3, <1>7, <2>1
  <1>8. ASSUME NEW i \in 1..k, ~(i <= n)
        PROVE  /\ i - m \in 1..n /\ from(i) = i - m /\ ~(i - m <= keep) /\ p[i] = Second(q[i - m])
               /\ r[i] = SecondHalf(g[i - m])
    <2>1. i \in (n + 1)..k /\ ~(i <= keep) /\ i - m \in 1..n /\ ~(i - m <= keep)
      BY <1>2, <1>3, <1>4, <1>8, SMTT(30)
    <2>2. r[i] = SecondHalf(g[i - m])
      BY <1>5, <2>1
    <2> HIDE DEF m, k
    <2> QED
      BY <1>8, <2>1, <2>2
  <1> HIDE DEF m, k, p, from
  <1>9. ASSUME NEW i \in 1..k
        PROVE  /\ from(i) \in 1..n /\ p[i] \in Rects /\ Within(p[i], Doubled(q[from(i)]))
               /\ DrawnAs(r[i], p[i], 2 * d)
    <2>1. CASE i <= keep
      <3>1. q[i] \in Rects /\ g[i] \in Slots /\ DrawnAs(g[i], q[i], d)
        BY <1>2, <1>6, <2>1
      <3>2. Doubled(q[i]) \in Rects /\ Within(Doubled(q[i]), Doubled(q[i]))
            /\ DrawnAs(g[i], Doubled(q[i]), 2 * d)
        BY <1>2, <3>1, HalvesAre, HalvesDrawn, WithinItself
      <3> QED
        BY <1>6, <2>1, <3>2
    <2>2. CASE ~(i <= keep) /\ i <= n
      <3>1. q[i] \in Rects /\ g[i] \in Slots /\ DrawnAs(g[i], q[i], d)
        BY <1>2, <1>7, <2>2
      <3>2. First(q[i]) \in Rects /\ Within(First(q[i]), Doubled(q[i]))
            /\ DrawnAs(FirstHalf(g[i]), First(q[i]), 2 * d)
        BY <1>2, <3>1, HalvesAre, HalvesDrawn
      <3> QED
        BY <1>7, <2>2, <3>2
    <2>3. CASE ~(i <= n)
      <3> DEFINE j == i - m
      <3>1. q[j] \in Rects /\ g[j] \in Slots /\ DrawnAs(g[j], q[j], d)
        BY <1>2, <1>8, <2>3
      <3>2. Second(q[j]) \in Rects /\ Within(Second(q[j]), Doubled(q[j]))
            /\ DrawnAs(SecondHalf(g[j]), Second(q[j]), 2 * d)
        BY <1>2, <3>1, HalvesAre, HalvesDrawn
      <3> QED
        BY <1>8, <2>3, <3>2
    <2> QED
      BY <2>1, <2>2, <2>3
  <1>10. ASSUME NEW i \in 1..k PROVE Within(p[i], Board(2 * d))
    <2> DEFINE j == from(i)
               a == q[j]
               b == Board(d)
    <2>1. j \in 1..n /\ p[i] \in Rects /\ Within(p[i], Doubled(a)) /\ a \in Rects
          /\ Within(a, b) /\ b \in Rects
      BY <1>2, <1>9, BoardIs
    <2> HIDE DEF j, a, b
    <2>2. Within(Doubled(a), Doubled(b)) /\ Doubled(a) \in Rects /\ Doubled(b) \in Rects
      BY <2>1, DoubledKeeps, HalvesAre
    <2>3. Within(p[i], Doubled(b))
      BY <2>1, <2>2, WithinTrans
    <2> QED
      BY <1>2, <2>3, DoubledBoard DEF b
  <1>11. ASSUME NEW i \in 1..k, NEW j \in 1..k, i < j PROVE Apart(p[i], p[j])
    <2>1. CASE from(i) # from(j)
      <3> DEFINE a == q[from(i)]
                 b == q[from(j)]
      <3>1. Apart(a, b) /\ a \in Rects /\ b \in Rects
        BY <1>2, <1>9, <2>1
      <3>2. /\ p[i] \in Rects /\ Within(p[i], Doubled(a)) /\ p[j] \in Rects /\ Within(p[j], Doubled(b))
        BY <1>9
      <3> HIDE DEF a, b
      <3>3. Apart(Doubled(a), Doubled(b)) /\ Doubled(a) \in Rects /\ Doubled(b) \in Rects
        BY <3>1, DoubledKeeps, HalvesAre
      <3> QED
        BY <3>2, <3>3, ApartInside
    <2>2. CASE from(i) = from(j)
      <3>1. j > n /\ i = j - m /\ ~(i <= keep) /\ i <= n
        <4> DEFINE a == from(i)
                   b == from(j)
        <4>1. a = (IF i <= n THEN i ELSE i - m) /\ b = (IF j <= n THEN j ELSE j - m) /\ a = b
          BY <2>2 DEF from
        <4>2. i \in Int /\ j \in Int /\ n \in Int /\ m \in Int /\ i < j
          BY <1>2, <1>4, <1>11
        <4> HIDE DEF a, b
        <4>3. j > n /\ i <= n /\ i = j - m
          BY <4>1, <4>2
        <4> QED
          BY <1>8, <4>2, <4>3
      <3>2. p[i] = First(q[i]) /\ i \in 1..n /\ p[j] = Second(q[i])
        <4>1. ~(j <= n) /\ j - m = i
          BY <1>2, <1>4, <3>1
        <4> QED
          BY <1>7, <1>8, <3>1, <4>1
      <3> QED
        BY <1>2, <3>2, HalvesAre
    <2> QED
      BY <2>1, <2>2
  <1>12. Total(Areas(p, k), k, (2 * d) * (2 * d))
    <2> DEFINE A == Areas(q, n)
               B == [i \in 1..n |-> Area(Doubled(q[i]))]
               B2 == [i \in 1..m |-> Area(Doubled(q[keep + i]))]
               F == [i \in 1..m |-> Area(First(q[keep + i]))]
               L == [i \in 1..m |-> Area(Second(q[keep + i]))]
               C == Areas(p, k)
               D == Areas(p, n)
               e == d * d
    <2>1. \A i \in 1..m : keep + i \in 1..n /\ q[keep + i] \in Rects
      BY <1>2, <1>4
    <2>2. /\ \A i \in 1..n : q[i] \in Rects /\ A[i] = Area(q[i]) /\ B[i] = Area(Doubled(q[i]))
          /\ \A i \in 1..m : /\ B2[i] = Area(Doubled(q[keep + i]))
                             /\ F[i] = Area(First(q[keep + i])) /\ L[i] = Area(Second(q[keep + i]))
          /\ \A i \in 1..k : C[i] = Area(p[i])
          /\ \A i \in 1..n : D[i] = Area(p[i])
          /\ Total(A, n, e) /\ e \in Int
      BY <1>2 DEF Areas
    <2> HIDE DEF A, B, B2, F, L, C, D, e
    <2>3. Total(B, n, 4 * e)
      <3> DEFINE c == 4
      <3>1. c \in Int
        OBVIOUS
      <3>2. \A i \in 1..n : B[i] = c * A[i]
        BY <2>2, HalvesAre, SMTT(30)
      <3> HIDE DEF c
      <3>3. Total(B, n, c * e)
        BY <1>2, <2>2, <3>1, <3>2, TotalScaled
      <3> QED
        BY <3>3 DEF c
    <2>4. /\ \A i \in 1..keep : B[i] \in Int /\ D[i] = B[i]
          /\ \A i \in 1..m : F[i] \in Int /\ L[i] \in Int /\ B2[i] = F[i] + L[i]
      <3>1. ASSUME NEW i \in 1..keep PROVE B[i] \in Int /\ D[i] = B[i]
        <4>1. i \in 1..n /\ i \in 1..k /\ i <= keep
          BY <1>2, <1>4
        <4>2. p[i] = Doubled(q[i]) /\ B[i] = Area(Doubled(q[i])) /\ D[i] = Area(p[i]) /\ q[i] \in Rects
          BY <1>6, <2>2, <4>1
        <4> QED
          BY <4>2, HalvesAre, AreaIs
      <3>2. ASSUME NEW i \in 1..m PROVE F[i] \in Int /\ L[i] \in Int /\ B2[i] = F[i] + L[i]
        <4> DEFINE a == q[keep + i]
        <4>1. a \in Rects /\ B2[i] = Area(Doubled(a)) /\ F[i] = Area(First(a)) /\ L[i] = Area(Second(a))
          BY <2>1, <2>2
        <4> HIDE DEF a
        <4>2. /\ First(a) \in Rects /\ Second(a) \in Rects
              /\ Area(Doubled(a)) = Area(First(a)) + Area(Second(a))
          BY <4>1, HalvesAre
        <4>3. Area(First(a)) \in Int /\ Area(Second(a)) \in Int
          BY <4>2, AreaIs
        <4> QED
          BY <4>1, <4>2, <4>3
      <3> QED
        BY <3>1, <3>2
    <2>5. PICK u \in Int : Total(B, keep, u)
      BY <1>4, <2>4, TotalExists
    <2>6. PICK v \in Int : Total(F, m, v)
      BY <1>4, <2>4, TotalExists
    <2>7. PICK w \in Int : Total(L, m, w)
      BY <1>4, <2>4, TotalExists
    <2>8. Total(B2, m, v + w)
      BY <1>4, <2>4, <2>6, <2>7, TotalOfSums
    <2>9. Total(B, n, u + (v + w))
      <3>1. \A i \in 1..(keep + m) : B[i] = IF i <= keep THEN B[i] ELSE B2[i - keep]
        <4> SUFFICES ASSUME NEW i \in 1..(keep + m), ~(i <= keep) PROVE B[i] = B2[i - keep]
          OBVIOUS
        <4>1. i \in 1..n /\ i - keep \in 1..m /\ keep + (i - keep) = i
          BY <1>2, <1>4
        <4> QED
          BY <2>2, <4>1
      <3>2. Total(B, keep + m, u + (v + w))
        BY <1>4, <2>5, <2>8, <3>1, TotalJoined
      <3> QED
        BY <1>4, <3>2
    <2>10. u + (v + w) = 4 * e
      BY <1>2, <2>3, <2>9, OnlyTotal
    <2>11. Total(D, n, u + v)
      <3>1. \A i \in 1..(keep + m) : D[i] = IF i <= keep THEN B[i] ELSE F[i - keep]
        <4> SUFFICES ASSUME NEW i \in 1..(keep + m), ~(i <= keep) PROVE D[i] = F[i - keep]
          BY <2>4
        <4>1. i \in 1..n /\ i \in 1..k /\ i <= n /\ i - keep \in 1..m /\ keep + (i - keep) = i
          BY <1>2, <1>4
        <4>2. p[i] = First(q[i])
          BY <1>7, <4>1
        <4> QED
          BY <2>2, <4>1, <4>2
      <3>2. Total(D, keep + m, u + v)
        BY <1>4, <2>5, <2>6, <3>1, TotalJoined
      <3> QED
        BY <1>4, <3>2
    <2>12. Total(C, n + m, (u + v) + w)
      <3>1. \A i \in 1..(n + m) : C[i] = IF i <= n THEN D[i] ELSE L[i - n]
        <4> TAKE i \in 1..(n + m)
        <4>0. i \in 1..k
          BY <1>4
        <4>1. CASE i <= n
          <5>1. i \in 1..n
            BY <1>2, <4>1
          <5> QED
            BY <2>2, <4>0, <4>1, <5>1
        <4>2. CASE ~(i <= n)
          <5>1. i - n \in 1..m /\ keep + (i - n) = i - m
            BY <1>2, <1>4, <4>2
          <5>2. p[i] = Second(q[i - m])
            BY <1>8, <4>0, <4>2
          <5> QED
            BY <2>2, <4>0, <4>2, <5>1, <5>2
        <4> QED
          BY <4>1, <4>2
      <3> DEFINE s == u + v
      <3>2. Total(D, n, s) /\ Total(L, m, w) /\ n \in Nat /\ m \in Nat
        BY <1>2, <1>4, <2>7, <2>11
      <3> HIDE DEF s
      <3>3. Total(C, n + m, s + w)
        BY <3>1, <3>2, TotalJoined
      <3> QED
        BY <3>3 DEF s
    <2>13. (u + v) + w = (2 * d) * (2 * d)
      BY <1>2, <2>10, DoubledBoard DEF e
    <2> QED
      BY <1>4, <2>12, <2>13 DEF C
  <1>13. \A i, j \in 1..k : i # j => Apart(p[i], p[j])
    <2> SUFFICES ASSUME NEW i \in 1..k, NEW j \in 1..k, i # j PROVE Apart(p[i], p[j])
      OBVIOUS
    <2>1. i < j \/ j < i
      BY <1>4
    <2> QED
      BY <1>11, <2>1, ApartAlike
  <1>14. TiledBy(r, p, 2 * d)
    BY <1>4, <1>5, <1>9, <1>10, <1>12, <1>13 DEF TiledBy, Packed
  <1> QED
    BY <1>3, <1>14 DEF TiledGrids, r

-----------------------------------------------------------------------------
(*****************************************************************************)
(* Slots joined                                                              *)
(*****************************************************************************)

\* Without one of the rectangles.
LEMMA PackedWithout ==
  ASSUME NEW n \in Nat, NEW c, NEW S, NEW v, Packed(c, n, S, v), NEW k \in 1..n,
         NEW b, \A i \in 1..(n - 1) : b[i] = IF i < k THEN c[i] ELSE c[i + 1]
  PROVE  /\ Packed(b, n - 1, S, v - Area(c[k]))
         /\ \A i \in 1..(n - 1) : \E j \in 1..n : j # k /\ b[i] = c[j]
  <1>1. \A i \in 1..(n - 1) : IF i < k THEN i \in 1..n ELSE i + 1 \in 1..n /\ i + 1 # k
    OBVIOUS
  <1>2. ASSUME NEW i \in 1..(n - 1) PROVE \E j \in 1..n : j # k /\ b[i] = c[j]
    <2>1. CASE i < k
      <3>1. i \in 1..n /\ i # k /\ b[i] = c[i]
        BY <1>1, <2>1
      <3> QED
        BY <3>1
    <2>2. CASE ~(i < k)
      BY <1>1, <2>2
    <2> QED
      BY <2>1, <2>2
  <1>3. \A i \in 1..(n - 1) : b[i] \in Rects /\ \E a \in S : Within(b[i], a)
    BY <1>2 DEF Packed
  <1>4. ASSUME NEW i \in 1..(n - 1), NEW j \in 1..(n - 1), i # j PROVE Apart(b[i], b[j])
    <2> DEFINE x == IF i < k THEN i ELSE i + 1
               y == IF j < k THEN j ELSE j + 1
    <2>1. x \in 1..n /\ y \in 1..n /\ x # y
      BY <1>1, <1>4
    <2>2. b[i] = c[x] /\ b[j] = c[y]
      OBVIOUS
    <2> HIDE DEF x, y
    <2> QED
      BY <2>1, <2>2 DEF Packed
  <1>5. Total(Areas(b, n - 1), n - 1, v - Area(c[k]))
    <2> DEFINE A == Areas(c, n)
               B == Areas(b, n - 1)
    <2>1. \A i \in 1..n : A[i] = Area(c[i])
      BY DEF Areas
    <2>2. \A i \in 1..(n - 1) : B[i] = Area(b[i])
      BY DEF Areas
    <2>3. Total(A, n, v)
      BY DEF Packed
    <2> HIDE DEF A, B
    <2>4. \A i \in 1..(n - 1) : B[i] = IF i < k THEN A[i] ELSE A[i + 1]
      <3> TAKE i \in 1..(n - 1)
      <3>1. CASE i < k
        BY <1>1, <2>1, <2>2, <3>1
      <3>2. CASE ~(i < k)
        BY <1>1, <2>1, <2>2, <3>2
      <3> QED
        BY <3>1, <3>2
    <2>5. Total(B, n - 1, v - A[k])
      BY <2>3, <2>4, TotalRemoved
    <2> QED
      BY <2>1, <2>5 DEF B
  <1> QED
    BY <1>2, <1>3, <1>4, <1>5 DEF Packed

\* With one more at the end.
LEMMA PackedAnother ==
  ASSUME NEW n \in Nat, NEW c, NEW S, NEW v, Packed(c, n, S, v),
         NEW a \in Rects, \E s \in S : Within(a, s), \A i \in 1..n : Apart(c[i], a),
         NEW b, \A i \in 1..(n + 1) : b[i] = IF i <= n THEN c[i] ELSE a
  PROVE  Packed(b, n + 1, S, v + Area(a))
  <1>1. ASSUME NEW i \in 1..(n + 1)
        PROVE  (i <= n => i \in 1..n /\ b[i] = c[i]) /\ (~(i <= n) => i = n + 1 /\ b[i] = a)
    OBVIOUS
  <1>2. \A i \in 1..(n + 1) : b[i] \in Rects /\ \E s \in S : Within(b[i], s)
    BY <1>1 DEF Packed
  <1>3. ASSUME NEW i \in 1..(n + 1), NEW j \in 1..(n + 1), i < j PROVE Apart(b[i], b[j])
    <2>1. i <= n /\ i \in 1..n /\ b[i] = c[i]
      BY <1>1, <1>3
    <2>2. CASE j <= n
      BY <1>1, <1>3, <2>1, <2>2 DEF Packed
    <2>3. CASE ~(j <= n)
      BY <1>1, <2>1, <2>3
    <2> QED
      BY <2>2, <2>3
  <1>4. \A i, j \in 1..(n + 1) : i # j => Apart(b[i], b[j])
    <2> SUFFICES ASSUME NEW i \in 1..(n + 1), NEW j \in 1..(n + 1), i # j PROVE Apart(b[i], b[j])
      OBVIOUS
    <2>1. i < j \/ j < i
      OBVIOUS
    <2> QED
      BY <1>3, <2>1, ApartAlike
  <1>5. Total(Areas(b, n + 1), n + 1, v + Area(a))
    <2> DEFINE A == Areas(c, n)
               B == Areas(b, n + 1)
               e == Area(a)
               k == n + 1
    <2>1. \A i \in 1..n : A[i] = Area(c[i])
      BY DEF Areas
    <2>2. \A i \in 1..(n + 1) : B[i] = Area(b[i])
      BY DEF Areas
    <2>3. Total(A, n, v) /\ e \in Int /\ k \in 1..(n + 1)
      BY AreaIs DEF Packed
    <2>4. \A i \in 1..(n + 1) : i < k <=> i <= n
      OBVIOUS
    <2> HIDE DEF A, B, k
    <2>5. \A i \in 1..(n + 1) : B[i] = IF i < k THEN A[i] ELSE IF i = k THEN e ELSE A[i - 1]
      BY <1>1, <2>1, <2>2, <2>4 DEF k
    <2> HIDE DEF e
    <2>6. Total(B, n + 1, v + e)
      BY <2>3, <2>5, TotalInserted
    <2> QED
      BY <2>6 DEF B, e
  <1> QED
    BY <1>2, <1>4, <1>5 DEF Packed

\* Two rectangles joined: side by side, or one above the other if they are equally high.
Union(a, b) == IF b.y = a.y THEN Rect(a.x, a.y, a.w + b.w, a.h)
                            ELSE Rect(a.x, a.y, a.w, 2 * a.h)
Meets(a, b) == \/ b.y = a.y /\ b.x = a.x + a.w /\ b.h = a.h
               \/ b.x = a.x /\ b.y = a.y + a.h /\ b.w = a.w

\* Rectangles that meet are joined to one in their place, with the area of both.
LEMMA UnionIs ==
  ASSUME NEW a \in Rects, NEW b \in Rects, Meets(a, b), a.w = b.w => a.h = b.h
  PROVE  /\ Union(a, b) \in Rects /\ Area(Union(a, b)) = Area(a) + Area(b)
         /\ \A c \in Rects : Within(a, c) /\ Within(b, c) => Within(Union(a, b), c)
         /\ \A c \in Rects : Apart(c, a) /\ Apart(c, b) => Apart(c, Union(a, b))
  <1> DEFINE j == Union(a, b)
  <1>1. /\ a.x \in Int /\ a.y \in Int /\ a.w \in Nat \ {0} /\ a.h \in Nat \ {0}
        /\ b.x \in Int /\ b.y \in Int /\ b.w \in Nat \ {0} /\ b.h \in Nat \ {0}
    BY DEF Rects
  <1>2. \A c \in Rects : c.x \in Int /\ c.y \in Int /\ c.w \in Nat \ {0} /\ c.h \in Nat \ {0}
    BY DEF Rects
  <1>3. CASE b.y = a.y
    <2>1. b.x = a.x + a.w /\ b.h = a.h
      BY <1>1, <1>3 DEF Meets
    <2>2. j \in Rects /\ j.x = a.x /\ j.y = a.y /\ j.w = a.w + b.w /\ j.h = a.h
      BY <1>1, <1>3 DEF Union, Rect, Rects
    <2> HIDE DEF j
    <2>3. Area(j) = Area(a) + Area(b)
      BY <1>1, <2>1, <2>2 DEF Area
    <2>4. \A c \in Rects : Within(a, c) /\ Within(b, c) => Within(j, c)
      BY <1>1, <1>2, <1>3, <2>1, <2>2 DEF Within
    <2>5. \A c \in Rects : Apart(c, a) /\ Apart(c, b) => Apart(c, j)
      BY <1>1, <1>2, <1>3, <2>1, <2>2 DEF Apart
    <2> QED
      BY <2>2, <2>3, <2>4, <2>5 DEF j
  <1>4. CASE b.y # a.y
    <2>1. b.x = a.x /\ b.y = a.y + a.h /\ b.w = a.w /\ b.h = a.h
      BY <1>1, <1>4 DEF Meets
    <2>2. j \in Rects /\ j.x = a.x /\ j.y = a.y /\ j.w = a.w /\ j.h = 2 * a.h
      BY <1>1, <1>4 DEF Union, Rect, Rects
    <2> HIDE DEF j
    <2>3. Area(j) = Area(a) + Area(b)
      <3>1. a.w * (2 * a.h) = a.w * a.h + a.w * a.h
        BY <1>1
      <3> QED
        BY <2>1, <2>2, <3>1 DEF Area
    <2>4. \A c \in Rects : Within(a, c) /\ Within(b, c) => Within(j, c)
      BY <1>1, <1>2, <2>1, <2>2 DEF Within
    <2>5. \A c \in Rects : Apart(c, a) /\ Apart(c, b) => Apart(c, j)
      BY <1>1, <1>2, <2>1, <2>2 DEF Apart
    <2> QED
      BY <2>2, <2>3, <2>4, <2>5 DEF j
  <1> QED
    BY <1>3, <1>4

\* Slots as wide as each other are as high as each other.
Even(q, n) == \A i, j \in 1..n : q[i].w = q[j].w => q[i].h = q[j].h

\* The slots that are left and those that are merged tile the canvas.
MergeTiled(st, q, d) ==
  /\ st.slots \in Seq(Slots) /\ st.merged \in Seq(Slots)
  /\ TiledBy(st.slots \o st.merged, q, d)
  /\ Even(q, Len(st.slots))

\* Two slots that are joined.
JoinedSlot(s, t) == IF LeftOf(s, t) THEN Slot(s.x, s.y, Plus(s.w, t.w), s.h, 0)
                                    ELSE Slot(s.x, s.y, s.w, Double(s.h), 0)

\* They are drawn as the union of their rectangles.
LEMMA JoinedDrawn ==
  ASSUME NEW d \in Nat \ {0}, NEW s, NEW t, NEW a \in Rects, NEW b \in Rects,
         DrawnAs(s, a, d), DrawnAs(t, b, d), LeftOf(s, t) \/ Above(s, t)
  PROVE  /\ Meets(a, b) /\ JoinedSlot(s, t) \in Slots /\ DrawnAs(JoinedSlot(s, t), Union(a, b), d)
  <1>1. /\ Is(s.x, a.x, d) /\ Is(s.y, a.y, d) /\ Is(s.w, a.w, d) /\ Is(s.h, a.h, d)
        /\ Is(t.x, b.x, d) /\ Is(t.y, b.y, d) /\ Is(t.w, b.w, d) /\ Is(t.h, b.h, d)
        /\ Is(Right(s), a.x + a.w, d) /\ Is(Bottom(s), a.y + a.h, d)
    BY EdgesNum DEF DrawnAs
  <1>2. 0 \in Nat /\ a.h \in Nat \ {0}
    BY DEF Rects
  <1>3. \A u, v, f, g : /\ Rect(u, v, f, g).x = u /\ Rect(u, v, f, g).y = v
                        /\ Rect(u, v, f, g).w = f /\ Rect(u, v, f, g).h = g
    BY DEF Rect
  <1>4. CASE LeftOf(s, t)
    <2>1. t.y = s.y /\ t.x = Right(s) /\ t.h = s.h
      BY <1>4 DEF LeftOf
    <2>2. b.y = a.y /\ b.x = a.x + a.w /\ b.h = a.h
      BY <1>1, <2>1, SameNum
    <2> DEFINE w == Plus(s.w, t.w)
               c == Rect(a.x, a.y, a.w + b.w, a.h)
    <2>3. Is(w, a.w + b.w, d)
      BY <1>1, PlusNum
    <2>4. Is(s.x, c.x, d) /\ Is(s.y, c.y, d) /\ Is(w, c.w, d) /\ Is(s.h, c.h, d)
      BY <1>1, <1>3, <2>3
    <2>5. JoinedSlot(s, t) = Slot(s.x, s.y, w, s.h, 0) /\ Union(a, b) = c
      BY <1>4, <2>2 DEF JoinedSlot, Union
    <2> HIDE DEF w, c
    <2>6. Slot(s.x, s.y, w, s.h, 0) \in Slots /\ DrawnAs(Slot(s.x, s.y, w, s.h, 0), c, d)
      BY <1>2, <2>4, SlotIs
    <2> QED
      BY <2>2, <2>5, <2>6 DEF Meets
  <1>5. CASE ~LeftOf(s, t)
    <2>1. t.x = s.x /\ t.y = Bottom(s) /\ t.w = s.w
      BY <1>5 DEF Above
    <2>2. b.x = a.x /\ b.y = a.y + a.h /\ b.w = a.w
      BY <1>1, <2>1, SameNum
    <2>3. b.y # a.y
      BY <1>2, <2>2 DEF Rects
    <2> DEFINE h == Double(s.h)
               c == Rect(a.x, a.y, a.w, 2 * a.h)
    <2>4. Is(h, 2 * a.h, d)
      <3> DEFINE k == 2
                 g == Times(s.h, <<k, 1>>)
      <3>1. k \in Int /\ h = g
        BY DEF Double
      <3> HIDE DEF k, h
      <3>2. Is(g, a.h * k, d)
        BY <1>1, <3>1, MultipleNum
      <3>3. a.h * k = 2 * a.h
        BY <1>2 DEF k
      <3> HIDE DEF g
      <3> QED
        BY <3>1, <3>2, <3>3
    <2>5. Is(s.x, c.x, d) /\ Is(s.y, c.y, d) /\ Is(s.w, c.w, d) /\ Is(h, c.h, d)
      BY <1>1, <1>3, <2>4
    <2>6. JoinedSlot(s, t) = Slot(s.x, s.y, s.w, h, 0) /\ Union(a, b) = c
      BY <1>5, <2>3 DEF JoinedSlot, Union
    <2> HIDE DEF h, c
    <2>7. Slot(s.x, s.y, s.w, h, 0) \in Slots /\ DrawnAs(Slot(s.x, s.y, s.w, h, 0), c, d)
      BY <1>2, <2>5, SlotIs
    <2> QED
      BY <2>2, <2>6, <2>7 DEF Meets
  <1> QED
    BY <1>4, <1>5

\* All elements but the last one.
LEMMA FrontIs ==
  ASSUME NEW S, NEW s \in Seq(S), Len(s) # 0
  PROVE  /\ Front(s) \in Seq(S) /\ Len(Front(s)) = Len(s) - 1
         /\ \A i \in 1..(Len(s) - 1) : Front(s)[i] = s[i]
  <1> DEFINE n == Len(s) - 1
             r == SubSeq(s, 1, n)
  <1>1. n \in Nat /\ \A i \in 1..n : s[i] \in S
    OBVIOUS
  <1> HIDE DEF n
  <1>2. r \in Seq(S) /\ Len(r) = n /\ \A i \in 1..n : r[i] = s[i]
    BY <1>1, SubSeqProperties
  <1> HIDE DEF r
  <1> QED
    BY <1>2 DEF r, n, Front

\* The lists after the k-th and the last of the n slots are joined to e.
JoinedLists(s, g, all, e, k, n, m) ==
  LET t == RemoveAt(Front(s), k)
      h == Append(g, e)
      new == t \o h
  IN /\ t \in Seq(Slots) /\ Len(t) = n - 2 /\ h \in Seq(Slots) /\ Len(new) = n + m - 1
     /\ \A i \in 1..(n + m - 2) :
          new[i] = IF i < k THEN all[i] ELSE IF i < n - 1 THEN all[i + 1] ELSE all[i + 2]
     /\ new[n + m - 1] = e

\* The turn of the merging loop makes these lists.
LEMMA JoinedListsAre ==
  ASSUME NEW s \in Seq(Slots), NEW g \in Seq(Slots), NEW e \in Slots, NEW n \in Nat, Len(s) = n,
         NEW m \in Nat, Len(g) = m, NEW k \in 1..(n - 1), NEW all, all = s \o g
  PROVE  JoinedLists(s, g, all, e, k, n, m)
  <1> DEFINE f == Front(s)
             t == RemoveAt(f, k)
             h == Append(g, e)
             new == t \o h
  <1>1. n - 1 \in Nat /\ n \in 1..n /\ n - 1 + 1 = n
    OBVIOUS
  <1>2. f \in Seq(Slots) /\ Len(f) = n - 1 /\ \A i \in 1..(n - 1) : f[i] = s[i]
    <2>1. Len(s) # 0
      OBVIOUS
    <2>2. f \in Seq(Slots) /\ Len(f) = Len(s) - 1 /\ \A i \in 1..(Len(s) - 1) : f[i] = s[i]
      BY <2>1, FrontIs
    <2> HIDE DEF f
    <2> QED
      BY <2>2
  <1> HIDE DEF f
  <1>3. /\ t \in Seq(Slots) /\ Len(t) = n - 2
        /\ \A i \in 1..(n - 2) : t[i] = IF i < k THEN f[i] ELSE f[i + 1]
    <2>1. k \in 1..Len(f)
      BY <1>2
    <2>2. /\ t \in Seq(Slots) /\ Len(t) = Len(f) - 1
          /\ \A i \in 1..Len(t) : t[i] = IF i < k THEN f[i] ELSE f[i + 1]
      BY <1>2, <2>1, WithoutOne
    <2>3. Len(f) - 1 = n - 2
      BY <1>2
    <2> HIDE DEF t
    <2> QED
      BY <2>2, <2>3
  <1>4. /\ h \in Seq(Slots) /\ Len(h) = m + 1 /\ h[m + 1] = e /\ \A i \in 1..m : h[i] = g[i]
    BY AppendProperties
  <1> HIDE DEF t, h
  <1>5. /\ Len(new) = (n - 2) + (m + 1)
        /\ \A i \in 1..((n - 2) + (m + 1)) : new[i] = IF i <= n - 2 THEN t[i] ELSE h[i - (n - 2)]
    <2>1. /\ Len(new) = Len(t) + Len(h)
          /\ \A i \in 1..Len(t) + Len(h) : new[i] = IF i <= Len(t) THEN t[i] ELSE h[i - Len(t)]
      BY <1>3, <1>4, ConcatProperties
    <2> QED
      BY <1>3, <1>4, <2>1
  <1>6. /\ \A i \in 1..(n + m) : all[i] = IF i <= n THEN s[i] ELSE g[i - n]
    BY ConcatProperties
  <1> HIDE DEF new
  <1>7. ASSUME NEW i \in 1..(n + m - 2)
        PROVE  new[i] = IF i < k THEN all[i] ELSE IF i < n - 1 THEN all[i + 1] ELSE all[i + 2]
    <2>1. i \in 1..((n - 2) + (m + 1)) /\ i \in 1..(n + m) /\ i + 1 \in 1..(n + m) /\ i + 2 \in 1..(n + m)
      OBVIOUS
    <2>2. CASE i < k
      <3>1. i <= n - 2 /\ i \in 1..(n - 2) /\ i \in 1..(n - 1) /\ i <= n
        BY <2>2
      <3> QED
        BY <1>2, <1>3, <1>5, <1>6, <2>1, <2>2, <3>1
    <2>3. CASE ~(i < k) /\ i < n - 1
      <3>1. i <= n - 2 /\ i \in 1..(n - 2) /\ i + 1 \in 1..(n - 1) /\ i + 1 <= n
        BY <2>3
      <3> QED
        BY <1>2, <1>3, <1>5, <1>6, <2>1, <2>3, <3>1
    <2>4. CASE ~(i < k) /\ ~(i < n - 1)
      <3>1. ~(i <= n - 2) /\ i - (n - 2) \in 1..m /\ ~(i + 2 <= n) /\ (i + 2) - n = i - (n - 2)
        BY <2>4
      <3>2. new[i] = h[i - (n - 2)]
        BY <1>5, <2>1, <3>1
      <3>3. all[i + 2] = g[(i + 2) - n]
        BY <1>6, <2>1, <3>1
      <3>4. h[i - (n - 2)] = g[i - (n - 2)]
        BY <1>4, <3>1
      <3>5. new[i] = all[i + 2]
        BY <3>1, <3>2, <3>3, <3>4
      <3> QED
        BY <2>4, <3>5
    <2> QED
      BY <2>2, <2>3, <2>4
  <1>8. new[n + m - 1] = e
    <2> DEFINE i == n + m - 1
    <2>1. i \in 1..((n - 2) + (m + 1)) /\ ~(i <= n - 2) /\ i - (n - 2) = m + 1
      OBVIOUS
    <2>2. new[i] = h[m + 1]
      BY <1>5, <2>1
    <2> QED
      BY <1>4, <2>2
  <1>9. (n - 2) + (m + 1) = n + m - 1
    OBVIOUS
  <1> QED
    BY <1>3, <1>4, <1>5, <1>7, <1>8, <1>9, Zenon DEF JoinedLists, new, t, h, f

\* One more turn of the merging loop.
LEMMA MergeLastTiled ==
  ASSUME NEW st, NEW q, NEW d, MergeTiled(st, q, d)
  PROVE  \E p : MergeTiled(MergeLast(st), p, d)
  <1> DEFINE s == st.slots
             g == st.merged
             last == Last(s)
             partners == {i \in DOMAIN s : LeftOf(s[i], last) \/ Above(s[i], last)}
             k == Min(partners)
             e == JoinedSlot(s[k], last)
             t == RemoveAt(Front(s), k)
             h == Append(g, e)
             new == t \o h
             all == s \o g
             n == Len(s)
             m == Len(g)
  <1>1. MergeLast(st) = IF partners = {} THEN st ELSE [slots |-> t, merged |-> h]
    BY Zenon DEF MergeLast, JoinedSlot
  <1>2. CASE partners = {}
    BY <1>1, <1>2, Zenon
  <1>3. CASE partners # {}
    <2>1. s \in Seq(Slots) /\ g \in Seq(Slots) /\ TiledBy(all, q, d) /\ Even(q, n)
      BY DEF MergeTiled
    <2>2. n \in Nat /\ m \in Nat /\ DOMAIN s = 1..n
      BY <2>1
    <2>3. k \in 1..n /\ (LeftOf(s[k], last) \/ Above(s[k], last))
      <3>1. partners \in SUBSET Nat /\ partners \subseteq 1..n
        BY <2>2
      <3>2. k \in partners
        <4> HIDE DEF partners
        <4> QED
          BY <1>3, <3>1, MinIsIn
      <3> QED
        BY <3>1, <3>2
    <2>4. last = s[n]
      BY DEF Last
    <2> HIDE DEF k, last, t, h, new, e
    <2>5. /\ Len(all) = n + m
          /\ \A i \in 1..(n + m) : all[i] = IF i <= n THEN s[i] ELSE g[i - n]
      BY <2>1, ConcatProperties
    <2>6. /\ d \in Nat \ {0} /\ \A i \in 1..(n + m) : DrawnAs(all[i], q[i], d)
          /\ Packed(q, n + m, {Board(d)}, d * d)
      BY <2>1, <2>5 DEF TiledBy
    <2> DEFINE a == q[k]
               b == q[n]
               j == Union(a, b)
    <2> HIDE DEF n, m, s, g, all
    <2>7. k \in 1..(n + m) /\ n \in 1..(n + m) /\ n \in 1..n /\ k <= n
      BY <2>2, <2>3
    <2>8. a \in Rects /\ b \in Rects /\ DrawnAs(s[k], a, d) /\ DrawnAs(last, b, d)
      <3>1. s[k] = all[k] /\ last = all[n]
        BY <2>4, <2>5, <2>7
      <3> QED
        BY <2>6, <2>7, <3>1 DEF Packed
    <2>9. Meets(a, b) /\ e \in Slots /\ DrawnAs(e, j, d)
      BY <2>3, <2>6, <2>8, JoinedDrawn DEF e
    <2>10. k # n
      <3> SUFFICES ASSUME k = n PROVE FALSE
        OBVIOUS
      <3> QED
        BY <2>8, <2>9 DEF Meets, Rects
    <2>11. k \in 1..(n - 1)
      BY <2>2, <2>3, <2>10
    <2>12. a.w = b.w => a.h = b.h
      BY <2>1, <2>3, <2>7 DEF Even
    <2> HIDE DEF a, b, j
    <2>13. /\ j \in Rects /\ Area(j) = Area(a) + Area(b)
           /\ \A c \in Rects : Within(a, c) /\ Within(b, c) => Within(j, c)
           /\ \A c \in Rects : Apart(c, a) /\ Apart(c, b) => Apart(c, j)
      BY <2>8, <2>9, <2>12, UnionIs DEF j
    <2>14. /\ t \in Seq(Slots) /\ Len(t) = n - 2 /\ h \in Seq(Slots) /\ Len(new) = n + m - 1
           /\ \A i \in 1..(n + m - 2) :
                new[i] = IF i < k THEN all[i] ELSE IF i < n - 1 THEN all[i + 1] ELSE all[i + 2]
           /\ new[n + m - 1] = e
      <3>1. Len(s) = n /\ Len(g) = m /\ all = s \o g
        BY DEF n, m, all
      <3>2. n \in Nat /\ m \in Nat /\ e \in Slots /\ s \in Seq(Slots) /\ g \in Seq(Slots)
        BY <2>1, <2>2, <2>9
      <3>3. JoinedLists(s, g, all, e, k, n, m)
        BY <2>11, <3>1, <3>2, JoinedListsAre
      <3> QED
        BY <3>3, Zenon DEF JoinedLists, t, h, new
    <2> DEFINE N == n + m
               S == {Board(d)}
               v == d * d
               p1 == [i \in 1..(N - 1) |-> IF i < n THEN q[i] ELSE q[i + 1]]
               p2 == [i \in 1..(N - 2) |-> IF i < k THEN p1[i] ELSE p1[i + 1]]
               p == [i \in 1..(N - 1) |-> IF i <= N - 2 THEN p2[i] ELSE j]
    <2>15. N \in Nat /\ n \in 1..N /\ N - 1 \in Nat /\ N - 2 \in Nat /\ (N - 1) - 1 = N - 2
           /\ k \in 1..(N - 1) /\ (N - 2) + 1 = N - 1
      BY <2>2, <2>7, <2>11
    <2>16. Packed(q, N, S, v)
      BY <2>6
    <2>17. \A i \in 1..(N - 1) : p1[i] = IF i < n THEN q[i] ELSE q[i + 1]
      OBVIOUS
    <2>18. \A i \in 1..(N - 2) : p2[i] = IF i < k THEN p1[i] ELSE p1[i + 1]
      OBVIOUS
    <2>19. \A i \in 1..(N - 1) : p[i] = IF i <= N - 2 THEN p2[i] ELSE j
      OBVIOUS
    <2> HIDE DEF p1, p2, p, v, S
    <2>20. /\ Packed(p1, N - 1, S, v - Area(b))
           /\ \A i \in 1..(N - 1) : \E l \in 1..N : l # n /\ p1[i] = q[l]
      <3> HIDE DEF N
      <3> QED
        BY <2>15, <2>16, <2>17, PackedWithout DEF b
    <2>21. p1[k] = a
      BY <2>11, <2>15, <2>17 DEF a
    <2> DEFINE N1 == N - 1
               u == v - Area(b)
    <2>22. /\ Packed(p2, N1 - 1, S, u - Area(a))
           /\ \A i \in 1..(N1 - 1) : \E l \in 1..N1 : l # k /\ p2[i] = p1[l]
      <3>1. N1 \in Nat /\ k \in 1..N1 /\ \A i \in 1..(N1 - 1) : p2[i] = IF i < k THEN p1[i] ELSE p1[i + 1]
        BY <2>15, <2>18
      <3>2. Packed(p1, N1, S, u)
        BY <2>20
      <3> HIDE DEF N1, u
      <3> QED
        BY <2>21, <3>1, <3>2, PackedWithout
    <2>23. \A i \in 1..(N - 2) : p2[i] = IF i < k THEN q[i] ELSE IF i < n - 1 THEN q[i + 1] ELSE q[i + 2]
      <3> TAKE i \in 1..(N - 2)
      <3>1. i \in 1..(N - 1) /\ i + 1 \in 1..(N - 1) /\ (i + 1) + 1 = i + 2 /\ i \in Int
        BY <2>15
      <3>2. CASE i < k
        <4>1. i < n
          BY <2>2, <2>11, <3>1, <3>2
        <4> QED
          BY <2>17, <2>18, <3>1, <3>2, <4>1
      <3>3. CASE ~(i < k)
        <4>1. i + 1 < n <=> i < n - 1
          BY <2>2, <3>1
        <4>2. p2[i] = p1[i + 1]
          BY <2>18, <3>3
        <4>3. p1[i + 1] = IF i + 1 < n THEN q[i + 1] ELSE q[(i + 1) + 1]
          BY <2>17, <3>1
        <4> QED
          BY <3>1, <3>3, <4>1, <4>2, <4>3
      <3> QED
        BY <3>2, <3>3
    <2>24. \A i \in 1..(N - 2) : Apart(p2[i], j)
      <3> TAKE i \in 1..(N - 2)
      <3> DEFINE c == p2[i]
                 o == IF i < k THEN i ELSE IF i < n - 1 THEN i + 1 ELSE i + 2
      <3>1. c = q[o]
        BY <2>23
      <3>2. o \in 1..N /\ o # k /\ o # n
        BY <2>2, <2>11, <2>15
      <3> HIDE DEF c, o
      <3>3. c \in Rects /\ Apart(c, a) /\ Apart(c, b)
        <4>1. k \in 1..N
          BY <2>15
        <4> QED
          BY <2>15, <2>16, <3>1, <3>2, <4>1 DEF Packed, a, b
      <3> QED
        BY <2>13, <3>3 DEF c
    <2>25. \E c \in S : Within(j, c)
      <3>1. Board(d) \in Rects
        BY <2>6, BoardIs
      <3>2. k \in 1..N
        BY <2>15
      <3>3. Within(a, Board(d)) /\ Within(b, Board(d))
        BY <2>15, <2>16, <3>2 DEF Packed, a, b, S
      <3> QED
        BY <2>13, <3>1, <3>3 DEF S
    <2>26. Packed(p, N - 1, S, v)
      <3> DEFINE N2 == N1 - 1
                 w == u - Area(a)
      <3>1. N2 \in Nat /\ N2 = N - 2 /\ N2 + 1 = N - 1
        BY <2>15
      <3>2. Packed(p2, N2, S, w)
        BY <2>22
      <3>3. \A i \in 1..(N2 + 1) : p[i] = IF i <= N2 THEN p2[i] ELSE j
        BY <2>15, <2>19
      <3>4. \A i \in 1..N2 : Apart(p2[i], j)
        BY <2>24, <3>1
      <3>5. w + Area(j) = v
        <4>1. v \in Int /\ Area(a) \in Int /\ Area(b) \in Int
          BY <2>6, <2>8, AreaIs DEF v
        <4> QED
          BY <2>13, <4>1
      <3> HIDE DEF N2, w
      <3>6. Packed(p, N2 + 1, S, w + Area(j))
        BY <2>13, <2>25, <3>1, <3>2, <3>3, <3>4, PackedAnother
      <3> QED
        BY <3>1, <3>5, <3>6
    <2>27. \A i \in 1..(N - 1) : DrawnAs(new[i], p[i], d)
      <3> TAKE i \in 1..(N - 1)
      <3>1. CASE i <= N - 2
        <4> DEFINE o == IF i < k THEN i ELSE IF i < n - 1 THEN i + 1 ELSE i + 2
        <4>1. i \in 1..(N - 2) /\ i \in 1..(n + m - 2) /\ o \in 1..(n + m)
          BY <2>2, <2>11, <2>15, <3>1
        <4>2. new[i] = all[o]
          BY <2>14, <4>1
        <4>3. p[i] = q[o]
          BY <2>19, <2>23, <3>1, <4>1
        <4> HIDE DEF o
        <4> QED
          BY <2>6, <4>1, <4>2, <4>3
      <3>2. CASE ~(i <= N - 2)
        <4>1. i = n + m - 1
          BY <2>2, <2>15, <3>2
        <4>2. new[i] = e /\ p[i] = j
          BY <2>14, <2>19, <3>2, <4>1
        <4> QED
          BY <2>9, <4>2
      <3> QED
        BY <3>1, <3>2
    <2>28. Even(p, n - 2)
      <3>1. ASSUME NEW i \in 1..(n - 2) PROVE \E o \in 1..n : p[i] = q[o]
        <4> DEFINE o == IF i < k THEN i ELSE i + 1
        <4>1. i \in 1..(N - 2) /\ i \in 1..(N - 1) /\ i <= N - 2 /\ i < n - 1 /\ o \in 1..n
          BY <2>2, <2>11, <2>15
        <4>2. p[i] = q[o]
          BY <2>19, <2>23, <4>1
        <4> QED
          BY <4>1, <4>2
      <3> QED
        BY <2>1, <3>1 DEF Even
    <2>29. TiledBy(new, p, d)
      <3>1. Len(new) = N - 1
        <4>1. n + m - 1 = N - 1
          BY <2>2
        <4>2. Len(new) = n + m - 1
          BY <2>14
        <4> QED
          BY <4>1, <4>2
      <3> QED
        BY <2>6, <2>26, <2>27, <3>1 DEF TiledBy, S, v
    <2> DEFINE next == [slots |-> t, merged |-> h]
    <2>30. MergeTiled(next, p, d)
      <3>1. next.slots = t /\ next.merged = h
        OBVIOUS
      <3> HIDE DEF next
      <3> QED
        BY <2>14, <2>28, <2>29, <3>1 DEF MergeTiled, new
    <2>31. MergeLast(st) = next
      BY <1>1, <1>3, Zenon
    <2> HIDE DEF next
    <2> QED
      BY <2>30, <2>31
  <1> QED
    BY <1>2, <1>3

\* Joining slots leaves the grid tiled.
LEMMA MergedTiled ==
  ASSUME NEW g \in Seq(Slots), NEW q, NEW d, TiledBy(g, q, d), Even(q, Len(g)), NEW t \in Nat
  PROVE  Merged(g, t) \in TiledGrids
  <1>1. PICK r : /\ r[0] = [slots |-> g, merged |-> <<>>]
                 /\ \A i \in 0..(t - 1) : r[i + 1] = MergeLast(r[i])
                 /\ Merged(g, t) = r[t].slots \o r[t].merged
    BY MergeSteps
  <1> DEFINE P == {i \in Nat : \E p : MergeTiled(r[i], p, d)}
  <1>2. 0 \in P
    <2>1. <<>> \in Seq(Slots) /\ g \o <<>> = g
      OBVIOUS
    <2>2. r[0].slots = g /\ r[0].merged = <<>>
      BY <1>1
    <2>3. MergeTiled(r[0], q, d)
      BY <2>1, <2>2 DEF MergeTiled
    <2> QED
      BY <2>3
  <1>3. ASSUME NEW i \in 0..(t - 1), i \in P PROVE i + 1 \in P
    <2>1. r[i + 1] = MergeLast(r[i]) /\ i + 1 \in Nat
      BY <1>1
    <2>2. PICK p : MergeTiled(r[i], p, d)
      BY <1>3
    <2>3. \E u : MergeTiled(MergeLast(r[i]), u, d)
      BY <2>2, MergeLastTiled
    <2> QED
      BY <2>1, <2>3
  <1> HIDE DEF P
  <1>4. t \in P
    BY <1>2, <1>3, Climb
  <1>5. PICK p : MergeTiled(r[t], p, d)
    BY <1>4 DEF P
  <1> DEFINE a == r[t].slots
             b == r[t].merged
  <1>6. a \in Seq(Slots) /\ b \in Seq(Slots) /\ TiledBy(a \o b, p, d)
    BY <1>5 DEF MergeTiled
  <1>7. Merged(g, t) = a \o b
    BY <1>1
  <1> HIDE DEF a, b
  <1>8. a \o b \in Seq(Slots)
    BY <1>6, ConcatProperties
  <1> QED
    BY <1>6, <1>7, <1>8 DEF TiledGrids

\* So does adjustToSlotNumbers, if the slots it joins are even.
LEMMA AdjustedTiled ==
  ASSUME NEW g \in Seq(Slots), NEW q, NEW d, TiledBy(g, q, d), NEW n \in Nat,
         Len(g) > n => Even(q, Len(g))
  PROVE  Adjusted(g, n) \in TiledGrids
  <1>1. g \in TiledGrids /\ Len(g) \in Nat
    BY DEF TiledGrids
  <1>2. CASE Len(g) > n
    <2>1. Adjusted(g, n) = Merged(g, Len(g) - n) /\ Len(g) - n \in Nat
      BY <1>1, <1>2 DEF Adjusted
    <2> QED
      BY <1>2, <2>1, MergedTiled
  <1>3. CASE Len(g) < n
    <2>1. Adjusted(g, n) = Split(g, n - Len(g)) /\ n - Len(g) \in Nat
      BY <1>1, <1>3 DEF Adjusted
    <2> QED
      BY <1>1, <2>1, SplitTiled
  <1>4. CASE Len(g) = n
    <2>1. Adjusted(g, n) = g
      BY <1>4 DEF Adjusted
    <2> QED
      BY <1>1, <2>1
  <1> QED
    BY <1>1, <1>2, <1>3, <1>4

\* What a sampler keeps of its pattern.
LEMMA KeptTiled ==
  ASSUME NEW g \in Seq(Slots), NEW q, NEW d, TiledBy(g, q, d), NEW n \in Nat,
         Len(g) > n => Even(q, Len(g))
  PROVE  Kept(g, n) \in Seq(TiledGrids)
  <1> DEFINE a == Adjusted(g, n)
  <1>1. a \in TiledGrids
    BY AdjustedTiled
  <1>2. Kept(g, n) = IF Len(a) = n THEN <<a>> ELSE <<>>
    <2>1. Kept(g, n) = SetToSeq({h \in {a} : Len(h) = n})
      BY Zenon DEF Kept
    <2>2. {h \in {a} : Len(h) = n} = {b \in {a} : Len(a) = n}
      OBVIOUS
    <2>3. (Len(a) = n) \in BOOLEAN
      OBVIOUS
    <2> HIDE DEF a
    <2> QED
      BY <2>1, <2>2, <2>3, SeqOfOne
  <1> HIDE DEF a
  <1>3. <<a>> \in Seq(TiledGrids) /\ <<>> \in Seq(TiledGrids)
    BY <1>1
  <1> QED
    BY <1>2, <1>3

-----------------------------------------------------------------------------
(*****************************************************************************)
(* Blocks of cells                                                           *)
(*****************************************************************************)

\* On the scale d the slots of g are the rectangles q, which lie in those of S, none over
\* another, and have v units of area in all.
Drawing(g, q, d, S, v) ==
  /\ d \in Nat \ {0}
  /\ g \in Seq(Slots)
  /\ \A i \in 1..Len(g) : DrawnAs(g[i], q[i], d)
  /\ Packed(q, Len(g), S, v)

Drawn(g, d, S, v) == \E q : Drawing(g, q, d, S, v)

\* One list of slots after another.
LEMMA DrawingJoined ==
  ASSUME NEW d, NEW a, NEW p, NEW b, NEW q, NEW S \in SUBSET Rects, NEW T \in SUBSET Rects,
         NEW u, NEW v, Drawing(a, p, d, S, u), Drawing(b, q, d, T, v),
         \A r \in S, s \in T : Apart(r, s),
         NEW c, \A i \in 1..(Len(a) + Len(b)) : c[i] = IF i <= Len(a) THEN p[i] ELSE q[i - Len(a)]
  PROVE  Drawing(a \o b, c, d, S \cup T, u + v)
  <1> DEFINE n == Len(a)
             m == Len(b)
             g == a \o b
  <1>1. n \in Nat /\ m \in Nat /\ a \in Seq(Slots) /\ b \in Seq(Slots) /\ d \in Nat \ {0}
    BY DEF Drawing
  <1>2. g \in Seq(Slots) /\ Len(g) = n + m
        /\ \A i \in 1..(n + m) : g[i] = IF i <= n THEN a[i] ELSE b[i - n]
    BY <1>1, ConcatProperties
  <1>3. Packed(p, n, S, u) /\ Packed(q, m, T, v)
        /\ (\A i \in 1..n : DrawnAs(a[i], p[i], d)) /\ \A i \in 1..m : DrawnAs(b[i], q[i], d)
    BY DEF Drawing
  <1>4. \A i \in 1..(n + m) : c[i] = IF i <= n THEN p[i] ELSE q[i - n]
    OBVIOUS
  <1> HIDE DEF n, m, g
  <1>5. Packed(c, n + m, S \cup T, u + v)
    <2>1. \A r \in S, s \in T : Apart(r, s)
      OBVIOUS
    <2>2. n \in Nat /\ m \in Nat /\ Packed(p, n, S, u) /\ Packed(q, m, T, v)
      BY <1>1, <1>3
    <2> QED
      BY <2>1, <2>2, <1>4, PackedJoined, ZenonT(60)
  <1>6. ASSUME NEW i \in 1..(n + m) PROVE DrawnAs(g[i], c[i], d)
    <2>1. CASE i <= n
      <3>1. i \in 1..n /\ g[i] = a[i] /\ c[i] = p[i]
        BY <1>1, <1>2, <1>4, <2>1
      <3> QED
        BY <1>3, <3>1
    <2>2. CASE ~(i <= n)
      <3> DEFINE k == i - n
      <3>1. k \in 1..m /\ g[i] = b[k] /\ c[i] = q[k]
        BY <1>1, <1>2, <1>4, <2>2
      <3> HIDE DEF k
      <3> QED
        BY <1>3, <3>1
    <2> QED
      BY <2>1, <2>2
  <1> QED
    BY <1>1, <1>2, <1>5, <1>6 DEF Drawing, g

\* The same, whatever the rectangles.
LEMMA DrawnJoined ==
  ASSUME NEW d, NEW a, NEW b, NEW S \in SUBSET Rects, NEW T \in SUBSET Rects,
         NEW u, NEW v, Drawn(a, d, S, u), Drawn(b, d, T, v), \A r \in S, s \in T : Apart(r, s)
  PROVE  Drawn(a \o b, d, S \cup T, u + v)
  <1>1. PICK p : Drawing(a, p, d, S, u)
    BY DEF Drawn
  <1>2. PICK q : Drawing(b, q, d, T, v)
    BY DEF Drawn
  <1> DEFINE c == [i \in 1..(Len(a) + Len(b)) |-> IF i <= Len(a) THEN p[i] ELSE q[i - Len(a)]]
  <1>3. \A i \in 1..(Len(a) + Len(b)) : c[i] = IF i <= Len(a) THEN p[i] ELSE q[i - Len(a)]
    OBVIOUS
  <1> HIDE DEF c
  <1>4. Drawing(a \o b, c, d, S \cup T, u + v)
    BY <1>1, <1>2, <1>3, DrawingJoined
  <1> QED
    BY <1>4 DEF Drawn

\* A single slot.
LEMMA DrawingOne ==
  ASSUME NEW x, NEW y, NEW w, NEW h, NEW p \in Nat, NEW d \in Nat \ {0}, NEW a \in Rects,
         Is(x, a.x, d), Is(y, a.y, d), Is(w, a.w, d), Is(h, a.h, d),
         NEW q, q[1] = a
  PROVE  Drawing(<<Slot(x, y, w, h, p)>>, q, d, {a}, Area(a))
  <1> DEFINE s == Slot(x, y, w, h, p)
             g == <<s>>
  <1>1. s \in Slots /\ DrawnAs(s, a, d)
    BY SlotIs
  <1> HIDE DEF s
  <1>2. g \in Seq(Slots) /\ Len(g) = 1 /\ g[1] = s
    BY <1>1
  <1> HIDE DEF g
  <1>3. Packed(q, 1, {a}, Area(a))
    BY PackedOne
  <1>4. \A i \in 1..1 : i = 1
    OBVIOUS
  <1>5. Drawing(g, q, d, {a}, Area(a))
    BY <1>1, <1>2, <1>3, <1>4 DEF Drawing
  <1> QED
    BY <1>5 DEF g, s

\* A block of cells.
LEMMA DrawingCells ==
  ASSUME NEW d \in Nat \ {0}, NEW x, NEW y, NEW w, NEW h, NEW X \in Int, NEW Y \in Int,
         NEW W \in Nat \ {0}, NEW H \in Nat \ {0},
         Is(x, X, d), Is(y, Y, d), Is(w, W, d), Is(h, H, d),
         NEW cols \in Nat \ {0}, NEW rows \in Nat \ {0}, NEW linked \in BOOLEAN, NEW p \in Nat, NEW q,
         \A i \in 1..(cols * rows) :
           q[i] = Rect(X + W * ((i - 1) % cols), Y + H * ((i - 1) \div cols), W, H)
  PROVE  Drawing(Cells(x, y, w, h, cols, rows, linked, p), q, d,
                 {Rect(X, Y, W * cols, H * rows)}, (cols * rows) * (W * H))
  <1> DEFINE n == cols * rows
             g == Cells(x, y, w, h, cols, rows, linked, p)
  <1>1. n \in Nat
    OBVIOUS
  <1>2. Packed(q, n, {Rect(X, Y, W * cols, H * rows)}, n * (W * H))
    BY PackedCells
  <1>3. ASSUME NEW i \in 1..n PROVE g[i] \in Slots /\ DrawnAs(g[i], q[i], d)
    <2> DEFINE j == i - 1
               c == j % cols
               r == j \div cols
               X1 == X + W * c
               Y1 == Y + H * r
               ph == IF linked THEN p + i - 1 ELSE 0
               x1 == Plus(x, Times(w, <<c, 1>>))
               y1 == Plus(y, Times(h, <<r, 1>>))
               a == Rect(X1, Y1, W, H)
    <2>1. j \in Nat /\ ph \in Nat /\ i \in Nat
      OBVIOUS
    <2>2. g[i] = Slot(x1, y1, w, h, ph) /\ q[i] = a
      BY DEF Cells
    <2> HIDE DEF j, ph
    <2>3. c \in Int /\ r \in Int
      <3>1. c \in 0..(cols - 1) /\ r \in Nat
        BY <2>1, DivMod
      <3> HIDE DEF c, r
      <3> QED
        BY <3>1
    <2> HIDE DEF c, r
    <2>4. Is(Times(w, <<c, 1>>), W * c, d)
      BY <2>3, MultipleNum
    <2>9. Is(Times(h, <<r, 1>>), H * r, d)
      BY <2>3, MultipleNum
    <2>5. Is(x1, X1, d) /\ Is(y1, Y1, d)
      BY <2>4, <2>9, PlusNum
    <2>6. X1 \in Int /\ Y1 \in Int
      BY <2>3
    <2> HIDE DEF x1, y1, X1, Y1
    <2>7. a.x = X1 /\ a.y = Y1 /\ a.w = W /\ a.h = H
      BY DEF Rect
    <2> HIDE DEF a
    <2>8. Slot(x1, y1, w, h, ph) \in Slots /\ DrawnAs(Slot(x1, y1, w, h, ph), a, d)
      BY <2>1, <2>5, <2>7, SlotIs
    <2> QED
      BY <2>2, <2>8
  <1>4. g = [i \in 1..n |-> g[i]]
    BY Zenon DEF Cells
  <1> HIDE DEF g, n
  <1>7. \A i \in 1..n : g[i] \in Slots
    BY <1>3
  <1>5. g \in Seq(Slots) /\ Len(g) = n
    BY <1>1, <1>4, <1>7
  <1>6. Drawing(g, q, d, {Rect(X, Y, W * cols, H * rows)}, n * (W * H))
    BY <1>2, <1>3, <1>5 DEF Drawing
  <1> QED
    BY <1>6 DEF g, n

\* The same, whatever the rectangles.
LEMMA DrawnCells ==
  ASSUME NEW d \in Nat \ {0}, NEW x, NEW y, NEW w, NEW h, NEW X \in Int, NEW Y \in Int,
         NEW W \in Nat \ {0}, NEW H \in Nat \ {0},
         Is(x, X, d), Is(y, Y, d), Is(w, W, d), Is(h, H, d),
         NEW cols \in Nat \ {0}, NEW rows \in Nat \ {0}, NEW linked \in BOOLEAN, NEW p \in Nat
  PROVE  Drawn(Cells(x, y, w, h, cols, rows, linked, p), d,
               {Rect(X, Y, W * cols, H * rows)}, (cols * rows) * (W * H))
  <1> DEFINE q == [i \in 1..(cols * rows) |->
                     Rect(X + W * ((i - 1) % cols), Y + H * ((i - 1) \div cols), W, H)]
  <1>1. \A i \in 1..(cols * rows) :
          q[i] = Rect(X + W * ((i - 1) % cols), Y + H * ((i - 1) \div cols), W, H)
    OBVIOUS
  <1> HIDE DEF q
  <1>2. Drawing(Cells(x, y, w, h, cols, rows, linked, p), q, d,
               {Rect(X, Y, W * cols, H * rows)}, (cols * rows) * (W * H))
    BY <1>1, DrawingCells
  <1> QED
    BY <1>2 DEF Drawn

\* Slots within larger rectangles.
LEMMA DrawingIn ==
  ASSUME NEW g, NEW q, NEW d, NEW S \in SUBSET Rects, NEW v, Drawing(g, q, d, S, v),
         NEW T \in SUBSET Rects, \A a \in S : \E b \in T : Within(a, b)
  PROVE  Drawing(g, q, d, T, v)
  <1>1. Len(g) \in Nat /\ Packed(q, Len(g), S, v)
    BY DEF Drawing
  <1>2. Packed(q, Len(g), T, v)
    BY <1>1, PackedIn
  <1> QED
    BY <1>2 DEF Drawing

\* A list of slots that fills the canvas tiles it.
LEMMA DrawingTiles ==
  ASSUME NEW g, NEW q, NEW d, NEW S \in SUBSET Rects, NEW v, Drawing(g, q, d, S, v), v = d * d,
         \A a \in S : Within(a, Board(d))
  PROVE  g \in Seq(Slots) /\ TiledBy(g, q, d)
  <1>1. d \in Nat \ {0}
    BY DEF Drawing
  <1>2. Board(d) \in Rects
    BY <1>1, BoardIs
  <1>3. Drawing(g, q, d, {Board(d)}, v)
    BY <1>2, DrawingIn
  <1> QED
    BY <1>3 DEF Drawing, TiledBy

-----------------------------------------------------------------------------
(*****************************************************************************)
(* The equal grids                                                           *)
(*****************************************************************************)

\* The whole part of a square root.
LEMMA RootSquare ==
  ASSUME NEW n \in Nat, n >= 1
  PROVE  Root(n) \in Nat \ {0} /\ Root(n) * Root(n) <= n
  <1> DEFINE T == {r \in 0..n : r * r <= n}
  <1>1. T \in SUBSET (0..n) /\ 1 \in T
    OBVIOUS
  <1>2. \A r \in T : r \in 0..n /\ r * r <= n
    OBVIOUS
  <1> HIDE DEF T
  <1>3. T # {}
    BY <1>1
  <1>4. Max(T) \in T /\ \A k \in T : k <= Max(T)
    BY <1>1, <1>3, MaxIsIn
  <1>5. Root(n) = Max(T)
    BY Zenon DEF Root, T
  <1> DEFINE k == Root(n)
  <1>6. k \in T /\ 1 <= k
    BY <1>1, <1>4, <1>5
  <1> HIDE DEF k
  <1>7. k \in 0..n /\ k * k <= n
    BY <1>2, <1>6
  <1>8. k \in Nat \ {0}
    BY <1>6, <1>7
  <1> QED
    BY <1>7, <1>8 DEF k

\* Equal slots in columns and rows.
LEMMA EqualTiled ==
  ASSUME NEW c \in Nat \ {0}, NEW r \in Nat \ {0}, NEW n \in Nat
  PROVE  Kept(ByColsRows(c, r), n) \in Seq(TiledGrids)
  <1> DEFINE d == c * r
             w == Frac(1, c)
             h == Frac(1, r)
             g == ByColsRows(c, r)
             q == [i \in 1..(c * r) |-> Rect(0 + r * ((i - 1) % c), 0 + c * ((i - 1) \div c), r, c)]
             B == Rect(0, 0, r * c, c * r)
             one == 1
  <1>1. d \in Nat \ {0} /\ r * c = one * d /\ c * r = one * d /\ one \in Int /\ one \in Nat /\ 0 \in Int
    OBVIOUS
  <1>2. g = Cells(Zero, Zero, w, h, c, r, TRUE, one)
    BY DEF ByColsRows
  <1>3. \A i \in 1..(c * r) : q[i] = Rect(0 + r * ((i - 1) % c), 0 + c * ((i - 1) \div c), r, c)
    OBVIOUS
  <1>4. \A i \in 1..(c * r) : q[i].w = r /\ q[i].h = c
    BY DEF Rect
  <1> HIDE DEF q
  <1>5. Is(Zero, 0, d)
    BY <1>1, ZeroOneNum
  <1> HIDE DEF d, one
  <1>6. Is(Frac(one, c), r, d) /\ Is(Frac(one, r), c, d)
    BY <1>1, FracNum
  <1>7. Is(w, r, d) /\ Is(h, c, d)
    BY <1>6 DEF one
  <1> HIDE DEF w, h, g
  <1>8. Drawing(Cells(Zero, Zero, w, h, c, r, TRUE, one), q, d, {B}, (c * r) * (r * c))
    BY <1>1, <1>3, <1>5, <1>7, DrawingCells
  <1>9. B \in Rects /\ Within(B, Board(d))
    <2>1. B.x = 0 /\ B.y = 0 /\ B.w = d /\ B.h = d
      BY <1>1 DEF Rect, one
    <2>2. B \in Rects
      BY <1>1 DEF Rect, Rects
    <2>3. Board(d).x = 0 /\ Board(d).y = 0 /\ Board(d).w = d /\ Board(d).h = d
      BY <1>1, BoardIs
    <2> QED
      BY <1>1, <2>1, <2>2, <2>3 DEF Within
  <1> HIDE DEF B
  <1>10. Drawing(g, q, d, {B}, d * d) /\ Len(g) = c * r
    <2>1. (c * r) * (r * c) = d * d
      BY <1>1 DEF d
    <2>2. Len(Cells(Zero, Zero, w, h, c, r, TRUE, one)) = c * r
      BY DEF Cells
    <2> QED
      BY <1>2, <1>8, <2>1, <2>2
  <1>11. g \in Seq(Slots) /\ TiledBy(g, q, d)
    <2>1. {B} \in SUBSET Rects /\ \A a \in {B} : Within(a, Board(d))
      BY <1>9
    <2> QED
      BY <1>10, <2>1, DrawingTiles
  <1>12. Even(q, Len(g))
    BY <1>4, <1>10 DEF Even
  <1>13. Kept(g, n) \in Seq(TiledGrids)
    BY <1>11, <1>12, KeptTiled
  <1> QED
    BY <1>13 DEF g

\* No grid is a list of grids.
LEMMA NoGridsTiled == <<>> \in Seq(TiledGrids)
  OBVIOUS

\* equal.
LEMMA EqualGridsTiled ==
  ASSUME NEW m \in Nat, NEW more
  PROVE  EqualGrids(m, more) \in Seq(TiledGrids)
  <1> DEFINE n == SlotNum(m, 2, more)
             exact == {c \in 1..maxCols : n % c = 0 /\ n \div c <= maxCols}
             fits(c) == Kept(ByColsRows(c, n \div c), n)
             k == Root(n)
             l == k + 1
             all == [i \in 1..maxCols |->
                       LET c == maxCols + 1 - i IN IF c \in exact THEN fits(c) ELSE <<>>]
  <1>1. EqualGrids(m, more) =
          IF n = 0 THEN <<>>
          ELSE IF exact # {} THEN FlattenSeq(all)
          ELSE IF n - k * k < k * (k + 1) - n THEN Kept(ByColsRows(k, k), n)
          ELSE Kept(ByColsRows(k, l), n) \o Kept(ByColsRows(l, k), n)
    BY Zenon DEF EqualGrids
  <1>2. n # 0 => n \in Nat /\ n >= 1
    <2>1. n # 0 => n \in Nat /\ n >= 2
      BY SlotNumIs
    <2> HIDE DEF n
    <2> QED
      BY <2>1
  <1> HIDE DEF n
  <1>3. CASE n = 0
    BY <1>1, <1>3, NoGridsTiled
  <1>4. ASSUME n # 0 PROVE FlattenSeq(all) \in Seq(TiledGrids)
    <2>1. DOMAIN all = 1..5 /\ all = [i \in 1..5 |-> all[i]]
      BY DEF maxCols
    <2>2. ASSUME NEW i \in 1..5 PROVE all[i] \in Seq(TiledGrids)
      <3> DEFINE c == maxCols + 1 - i
                 r == n \div c
      <3>1. c \in Nat \ {0}
        BY DEF maxCols
      <3>2. all[i] = IF c \in exact THEN fits(c) ELSE <<>>
        BY Zenon DEF maxCols
      <3>3. c \in exact => n % c = 0 /\ n \in Nat
        BY <1>2, <1>4
      <3> HIDE DEF c
      <3>4. c \in exact => r \in Nat \ {0}
        <4>1. r \in Nat /\ n % c \in 0..(c - 1) /\ n = c * r + (n % c)
          <5>1. n \in Nat
            BY <1>2, <1>4
          <5> QED
            BY <5>1, <3>1, DivMod
        <4> HIDE DEF r
        <4>2. CASE c \in exact
          <5>1. n = c * r + 0
            BY <3>3, <4>1, <4>2
          <5>2. r = 0 => n = 0
            BY <3>1, <5>1
          <5> QED
            BY <1>4, <4>1, <5>2
        <4> QED
          BY <4>2
      <3>5. fits(c) = Kept(ByColsRows(c, r), n)
        OBVIOUS
      <3> HIDE DEF r, exact
      <3>6. c \in exact => fits(c) \in Seq(TiledGrids)
        BY <1>2, <1>4, <3>1, <3>4, <3>5, EqualTiled
      <3> QED
        BY <3>2, <3>6, NoGridsTiled
    <2> HIDE DEF all
    <2>3. all \in Seq(Seq(TiledGrids))
      BY <2>1, <2>2
    <2> QED
      BY <2>3, FlattenIn
  <1>5. n # 0 => k \in Nat \ {0}
    BY <1>2, RootSquare
  <1> HIDE DEF exact, all, k
  <1>6. CASE n # 0
    <2>1. k \in Nat \ {0} /\ l \in Nat \ {0} /\ n \in Nat
      BY <1>2, <1>5, <1>6
    <2> HIDE DEF l
    <2> DEFINE a == Kept(ByColsRows(k, k), n)
               b == Kept(ByColsRows(k, l), n)
               c == Kept(ByColsRows(l, k), n)
    <2>2. a \in Seq(TiledGrids) /\ b \in Seq(TiledGrids) /\ c \in Seq(TiledGrids)
      BY <2>1, EqualTiled
    <2>3. EqualGrids(m, more) = FlattenSeq(all) \/ EqualGrids(m, more) = a
          \/ EqualGrids(m, more) = b \o c
      BY <1>1, <1>6
    <2> HIDE DEF a, b, c
    <2>4. b \o c \in Seq(TiledGrids)
      BY <2>2, ConcatProperties
    <2> QED
      BY <1>4, <1>6, <2>2, <2>3, <2>4
  <1> QED
    BY <1>3, <1>6

-----------------------------------------------------------------------------
(*****************************************************************************)
(* The big slot at the top                                                   *)
(*****************************************************************************)

\* bigTop: a big slot above k x k cells. They are joined only if there are as many cells as
\* slots were asked for.
LEMMA BigTopTiled ==
  ASSUME NEW n \in Nat, n >= 2, NEW k \in Nat \ {0}, k * k <= n
  PROVE  Kept(<<Slot(Zero, Zero, One, <<3, 8>>, 0)>>
              \o Cells(Zero, <<3, 8>>, Frac(1, k), Frac(5, 8 * k), k, k, FALSE, 0), n)
           \in Seq(TiledGrids)
  <1> DEFINE d == 8 * k
             t == 3 * k
             top == <<3, 8>>
             w == Frac(1, k)
             h == Frac(5, d)
             A == Rect(0, 0, d, t)
             C == Rect(0, t, 8 * k, 5 * k)
             z == 0
             a == <<Slot(Zero, Zero, One, top, z)>>
             b == Cells(Zero, top, w, h, k, k, FALSE, z)
             g == a \o b
             kk == k * k
             p == [i \in 1..1 |-> A]
             q == [i \in 1..kk |-> Rect(0 + 8 * ((i - 1) % k), t + 5 * ((i - 1) \div k), 8, 5)]
             c == [i \in 1..(1 + kk) |-> IF i <= 1 THEN p[i] ELSE q[i - 1]]
  <1>1. d \in Nat \ {0} /\ t \in Nat \ {0} /\ z \in Nat /\ z = 0 /\ kk \in Nat
        /\ 8 \in Nat \ {0} /\ 5 \in Nat \ {0}
        /\ z \in Int /\ t \in Int
    OBVIOUS
  <1>2. Is(Zero, z, d) /\ Is(One, d, d)
    BY <1>1, ZeroOneNum
  <1>3. Is(top, t, d)
    BY DEF Is, Rationals
  <1>4. Is(w, 8, d)
    <2> DEFINE one == 1
               x == 8
    <2>1. one \in Int /\ x \in Int /\ x * k = one * d /\ k \in Int \ {0}
      OBVIOUS
    <2> HIDE DEF one, x, d, w
    <2>2. Is(Frac(one, k), x, d)
      BY <1>1, <2>1, FracNum
    <2> QED
      BY <2>2 DEF one, x, w
  <1>5. Is(h, 5, d)
    <2> DEFINE f == 5
    <2>1. f \in Int /\ d \in Int \ {0} /\ f * d = f * d
      OBVIOUS
    <2> HIDE DEF f, d, h
    <2>2. Is(Frac(f, d), f, d)
      BY <1>1, <2>1, FracNum
    <2> QED
      BY <2>2 DEF f, h
  <1>6. A \in Rects /\ A.x = z /\ A.y = z /\ A.w = d /\ A.h = t
    BY <1>1 DEF Rect, Rects
  <1>7. p[1] = A
    OBVIOUS
  <1>8. \A i \in 1..(k * k) : q[i] = Rect(0 + 8 * ((i - 1) % k), t + 5 * ((i - 1) \div k), 8, 5)
    OBVIOUS
  <1>9. \A i \in 1..kk : q[i].w = 8 /\ q[i].h = 5
    BY DEF Rect
  <1>10. \A i \in 1..(1 + kk) : c[i] = IF i <= 1 THEN p[i] ELSE q[i - 1]
    OBVIOUS
  <1>11. C \in Rects /\ C.x = 0 /\ C.y = t /\ C.w = 8 * k /\ C.h = 5 * k
    BY <1>1 DEF Rect, Rects
  <1>12. g = a \o b
    OBVIOUS
  <1>13. Len(b) = kk /\ Len(a) = 1
    BY DEF Cells
  <1> HIDE DEF c, p, q, g
  <1>14. Drawing(a, p, d, {A}, Area(A))
    <2> HIDE DEF A, z, top, d
    <2> QED
      BY <1>1, <1>2, <1>3, <1>6, <1>7, DrawingOne
  <1>15. Drawing(b, q, d, {C}, kk * (8 * 5))
    <2> DEFINE W == 8
               H == 5
    <2>1. W \in Nat \ {0} /\ H \in Nat \ {0} /\ Is(w, W, d) /\ Is(h, H, d)
          /\ \A i \in 1..(k * k) : q[i] = Rect(0 + W * ((i - 1) % k), t + H * ((i - 1) \div k), W, H)
      BY <1>4, <1>5, <1>8
    <2> HIDE DEF W, H
    <2>2. \A i \in 1..(k * k) : q[i] = Rect(z + W * ((i - 1) % k), t + H * ((i - 1) \div k), W, H)
      BY <2>1 DEF z
    <2> HIDE DEF w, h, top, z, d, t
    <2>3. FALSE \in BOOLEAN
      OBVIOUS
    <2>4. Drawing(Cells(Zero, top, w, h, k, k, FALSE, z), q, d, {Rect(z, t, W * k, H * k)}, (k * k) * (W * H))
      BY <1>1, <1>2, <1>3, <2>1, <2>2, <2>3, DrawingCells
    <2> QED
      BY <2>4 DEF W, H, z
  <1>16. Drawing(g, c, d, {A} \cup {C}, Area(A) + kk * (8 * 5))
    <2> DEFINE u == Area(A)
               v == kk * (8 * 5)
               S == {A}
               T == {C}
    <2>1. S \in SUBSET Rects /\ T \in SUBSET Rects
      BY <1>6, <1>11
    <2>2. \A r \in S, s \in T : Apart(r, s)
      BY <1>1, <1>6, <1>11 DEF Apart
    <2>3. \A i \in 1..(Len(a) + Len(b)) : c[i] = IF i <= Len(a) THEN p[i] ELSE q[i - Len(a)]
      BY <1>10, <1>13
    <2>4. Drawing(a, p, d, S, u) /\ Drawing(b, q, d, T, v)
      BY <1>14, <1>15
    <2> HIDE DEF a, b, S, T, u, v, d
    <2>5. Drawing(a \o b, c, d, S \cup T, u + v)
      BY <2>1, <2>2, <2>3, <2>4, DrawingJoined
    <2> QED
      BY <1>12, <2>5 DEF S, T, u, v
  <1>17. Area(A) + kk * (8 * 5) = d * d
    <2>1. Area(A) = d * t
      BY <1>6 DEF Area
    <2>2. d * t = 24 * kk /\ d * d = 64 * kk
      OBVIOUS
    <2> QED
      BY <1>1, <2>1, <2>2
  <1>18. Len(g) = 1 + kk
    <2>1. a \in Seq(Slots) /\ b \in Seq(Slots)
      BY <1>14, <1>15 DEF Drawing
    <2>2. Len(b) = kk /\ Len(a) = 1
      BY <1>13
    <2> HIDE DEF a, b
    <2>3. Len(a \o b) = Len(a) + Len(b)
      BY <2>1, ConcatProperties
    <2> QED
      BY <1>12, <2>2, <2>3
  <1>19. g \in Seq(Slots) /\ TiledBy(g, c, d)
    <2> DEFINE S == {A} \cup {C}
               v == Area(A) + kk * (8 * 5)
    <2>1. Board(d).x = 0 /\ Board(d).y = 0 /\ Board(d).w = d /\ Board(d).h = d
      BY <1>1, BoardIs
    <2>2. Within(A, Board(d)) /\ Within(C, Board(d))
      BY <1>1, <1>6, <1>11, <2>1 DEF Within
    <2>3. S \in SUBSET Rects /\ \A r \in S : Within(r, Board(d))
      BY <1>6, <1>11, <2>2
    <2>4. Drawing(g, c, d, S, v) /\ v = d * d
      BY <1>16, <1>17
    <2> HIDE DEF S, v, d
    <2> QED
      BY <2>3, <2>4, DrawingTiles
  <1>20. Len(g) > n => Even(c, Len(g))
    <2> SUFFICES ASSUME Len(g) > n PROVE Even(c, Len(g))
      OBVIOUS
    <2>1. k # 1
      BY <1>18
    <2>2. d # 8
      BY <2>1
    <2>3. c[1] = A
      BY <1>1, <1>7, <1>10
    <2>4. ASSUME NEW i \in 1..(1 + kk)
          PROVE  (c[i].w = d /\ c[i].h = t /\ i = 1) \/ (c[i].w = 8 /\ c[i].h = 5)
      <3>1. CASE i = 1
        BY <1>6, <2>3, <3>1
      <3>2. CASE i # 1
        <4>1. c[i] = q[i - 1] /\ i - 1 \in 1..kk
          BY <1>1, <1>10, <3>2
        <4> QED
          BY <1>9, <4>1
      <3> QED
        BY <3>1, <3>2
    <2> HIDE DEF d, t, kk
    <2> QED
      BY <1>18, <2>2, <2>4 DEF Even
  <1>21. Kept(g, n) \in Seq(TiledGrids)
    BY <1>19, <1>20, KeptTiled
  <1> QED
    BY <1>12, <1>21

\* The big slot over a block of cells tiles the canvas, joined or cut to the number.
LEMMA BigTopGridsTiled ==
  ASSUME NEW m \in Nat, NEW more
  PROVE  BigTopGrids(m, more) \in Seq(TiledGrids)
  <1> DEFINE n == SlotNum(m, 2, more)
             k == Root(n)
             g == <<Slot(Zero, Zero, One, <<3, 8>>, 0)>>
                  \o Cells(Zero, <<3, 8>>, Frac(1, k), Frac(5, 8 * k), k, k, FALSE, 0)
  <1>1. BigTopGrids(m, more) = IF n = 0 THEN <<>> ELSE Kept(g, n)
    BY Zenon DEF BigTopGrids
  <1>2. n # 0 => n \in Nat /\ n >= 2
    BY SlotNumIs
  <1> HIDE DEF n
  <1>3. n # 0 => k \in Nat \ {0} /\ k * k <= n
    BY <1>2, RootSquare
  <1> HIDE DEF k
  <1>4. n # 0 => Kept(g, n) \in Seq(TiledGrids)
    BY <1>2, <1>3, BigTopTiled
  <1> QED
    BY <1>1, <1>4, NoGridsTiled

-----------------------------------------------------------------------------
(*****************************************************************************)
(* The big slot in the center                                                *)
(*****************************************************************************)

\* A side of the frame, cut into e equal slots.
LEMMA DividedDrawn ==
  ASSUME NEW d \in Nat \ {0}, NEW s \in Slots, NEW A \in Rects, DrawnAs(s, A, d),
         NEW e \in Nat \ {0}, NEW z \in Nat \ {0},
         A.h < A.w => z * e = A.w, ~(A.h < A.w) => z * e = A.h
  PROVE  Drawn(Divided(s, e), d, {A}, Area(A))
  <1> DEFINE x == s.x
             y == s.y
             w == s.w
             h == s.h
             X == A.x
             Y == A.y
             W == A.w
             H == A.h
             one == 1
             zero == 0
             v == Over(w, <<e, 1>>)
             u == Over(h, <<e, 1>>)
  <1>1. /\ X \in Int /\ Y \in Int /\ W \in Nat \ {0} /\ H \in Nat \ {0}
        /\ Is(x, X, d) /\ Is(y, Y, d) /\ Is(w, W, d) /\ Is(h, H, d) /\ A = Rect(X, Y, W, H)
    BY DEF Rects, Rect, DrawnAs
  <1>2. Less(s.h, s.w) <=> H < W
    BY <1>1, LeqNum
  <1>3. one \in Nat \ {0} /\ zero \in Nat /\ FALSE \in BOOLEAN /\ z \in Int
    OBVIOUS
  <1>4. Area(A) = W * H
    BY DEF Area
  <1>5. CASE H < W
    <2>1. Divided(s, e) = Cells(x, y, v, h, e, one, FALSE, zero)
      BY <1>2, <1>5 DEF Divided
    <2>2. z * e = W
      BY <1>5
    <2> HIDE DEF x, y, w, h, X, Y, W, H, one, zero
    <2>3. Is(v, z, d)
      BY <1>1, <1>3, <2>2, PartNum
    <2> HIDE DEF v
    <2>4. Drawn(Cells(x, y, v, h, e, one, FALSE, zero), d, {Rect(X, Y, z * e, H * one)}, (e * one) * (z * H))
      BY <1>1, <1>3, <2>3, DrawnCells
    <2>5. H * one = H /\ (e * one) * (z * H) = W * H
      <3>1. e * one = e /\ H * one = H
        BY <1>1 DEF one
      <3>2. e * (z * H) = (z * e) * H
        BY <1>1
      <3> QED
        BY <2>2, <3>1, <3>2
    <2> QED
      BY <1>1, <1>4, <2>1, <2>2, <2>4, <2>5
  <1>6. CASE ~(H < W)
    <2>1. Divided(s, e) = Cells(x, y, w, u, one, e, FALSE, zero)
      BY <1>2, <1>6 DEF Divided
    <2>2. z * e = H
      BY <1>6
    <2> HIDE DEF x, y, w, h, X, Y, W, H, one, zero
    <2>3. Is(u, z, d)
      BY <1>1, <1>3, <2>2, PartNum
    <2> HIDE DEF u
    <2>4. Drawn(Cells(x, y, w, u, one, e, FALSE, zero), d, {Rect(X, Y, W * one, z * e)}, (one * e) * (W * z))
      BY <1>1, <1>3, <2>3, DrawnCells
    <2>5. W * one = W /\ (one * e) * (W * z) = W * H
      <3>1. one * e = e /\ W * one = W
        BY <1>1 DEF one
      <3>2. e * (W * z) = W * (z * e)
        BY <1>1
      <3> QED
        BY <2>2, <3>1, <3>2
    <2> QED
      BY <1>1, <1>4, <2>1, <2>2, <2>4, <2>5
  <1> QED
    BY <1>5, <1>6

\* Four lists, one after the other.
LEMMA FlattenFour ==
  ASSUME NEW S, NEW s \in Seq(Seq(S)), Len(s) = 4
  PROVE  FlattenSeq(s) = ((s[1] \o s[2]) \o s[3]) \o s[4]
  <1> DEFINE n == Len(s)
             f == CHOOSE f : f = [i \in 1..n |-> IF i = 1 THEN s[i] ELSE f[i - 1] \o s[i]]
  <1>1. n = 4 /\ n \in Nat
    OBVIOUS
  <1>2. FlattenSeq(s) = IF n = 0 THEN s ELSE f[n]
    BY Zenon DEF FlattenSeq
  <1>3. f = [i \in 1..n |-> IF i = 1 THEN s[i] ELSE f[i - 1] \o s[i]]
    <2>1. \E g : g = [i \in 1..n |-> IF i = 1 THEN s[i] ELSE g[i - 1] \o s[i]]
      BY <1>1, FlattenExists
    <2> HIDE DEF n
    <2> QED
      BY <2>1, Zenon
  <1> HIDE DEF f, n
  <1>4. \A i \in 1..4 : f[i] = IF i = 1 THEN s[i] ELSE f[i - 1] \o s[i]
    BY <1>1, <1>3
  <1>5. f[1] = s[1] /\ f[2] = f[1] \o s[2] /\ f[3] = f[2] \o s[3] /\ f[4] = f[3] \o s[4]
    <2> DEFINE F(i) == f[i - 1] \o s[i]
    <2>1. F(2) = f[1] \o s[2] /\ F(3) = f[2] \o s[3] /\ F(4) = f[3] \o s[4]
      OBVIOUS
    <2>2. \A i \in 1..4 : f[i] = IF i = 1 THEN s[i] ELSE F(i)
      BY <1>4
    <2> HIDE DEF F
    <2>3. f[1] = s[1] /\ f[2] = F(2) /\ f[3] = F(3) /\ f[4] = F(4)
      BY <2>2
    <2> QED
      BY <2>1, <2>3
  <1>6. FlattenSeq(s) = f[4]
    <2>1. n # 0
      BY <1>1
    <2> QED
      BY <1>1, <1>2, <2>1
  <1> QED
    BY <1>5, <1>6

\* It has e slots.
LEMMA DividedLen ==
  ASSUME NEW s, NEW e \in Nat
  PROVE  Len(Divided(s, e)) = e
  <1>1. e * 1 = e /\ 1 * e = e
    OBVIOUS
  <1>2. \A x, y, w, h : /\ Len(Cells(x, y, w, h, e, 1, FALSE, 0)) = e
                        /\ Len(Cells(x, y, w, h, 1, e, FALSE, 0)) = e
    BY <1>1 DEF Cells
  <1> QED
    BY <1>2, Zenon DEF Divided

\* bigCenter: a big slot with a side of e slots around each of its edges.
LEMMA BigCenterTiled ==
  ASSUME NEW n \in Nat, n >= 5
  PROVE  LET q == <<1, 4>>
             tq == <<3, 4>>
             sides == << Slot(tq, q, q, tq, 0), Slot(Zero, Zero, q, tq, 0),
                         Slot(q, Zero, tq, q, 0), Slot(Zero, tq, tq, q, 0) >>
         IN Kept(<<Slot(q, q, <<1, 2>>, <<1, 2>>, 0)>>
                 \o FlattenSeq([i \in 1 .. 4 |-> Divided(sides[i], (n - 1) \div 4)]), n)
              \in Seq(TiledGrids)
  <1> DEFINE q == <<1, 4>>
             tq == <<3, 4>>
             hf == <<1, 2>>
             zero == 0
             e == (n - 1) \div 4
             e2 == 2 * e
             e3 == 3 * e
             d == 4 * e
             three == 3
             s1 == Slot(tq, q, q, tq, zero)
             s2 == Slot(Zero, Zero, q, tq, zero)
             s3 == Slot(q, Zero, tq, q, zero)
             s4 == Slot(Zero, tq, tq, q, zero)
             sides == <<s1, s2, s3, s4>>
             A0 == Rect(e, e, e2, e2)
             A1 == Rect(e3, e, e, e3)
             A2 == Rect(zero, zero, e, e3)
             A3 == Rect(e, zero, e3, e)
             A4 == Rect(zero, e3, e3, e)
             parts == [i \in 1..4 |-> Divided(sides[i], e)]
             a == <<Slot(q, q, hf, hf, zero)>>
             b1 == Divided(s1, e)
             b2 == Divided(s2, e)
             b3 == Divided(s3, e)
             b4 == Divided(s4, e)
             b == FlattenSeq(parts)
             g == a \o b
  <1>1. e \in Nat \ {0} /\ n - 1 >= 4 * e
    <2> DEFINE m == n - 1
    <2>1. m \in Nat /\ m >= 4
      OBVIOUS
    <2> HIDE DEF m
    <2>2. m = 4 * (m \div 4) + (m % 4) /\ m \div 4 \in Nat /\ m % 4 \in 0..3
      BY <2>1
    <2> QED
      BY <2>1, <2>2 DEF m
  <1> HIDE DEF e
  <1>2. /\ e \in Nat /\ e \in Int /\ e2 \in Nat \ {0} /\ e3 \in Nat \ {0} /\ d \in Nat \ {0} /\ zero \in Nat
        /\ e3 \in Int /\ zero \in Int /\ three \in Nat \ {0} /\ three * e = e3
        /\ e2 = 2 * e /\ e3 = 3 * e /\ d = 4 * e /\ zero = 0
    BY <1>1
  <1>3. Is(q, e, d) /\ Is(tq, e3, d) /\ Is(hf, e2, d)
    BY <1>1 DEF Is, Rationals
  <1>4. Is(Zero, zero, d)
    BY <1>2, ZeroOneNum
  <1>5. /\ A0 \in Rects /\ A0.x = e /\ A0.y = e /\ A0.w = e2 /\ A0.h = e2
        /\ A1 \in Rects /\ A1.x = e3 /\ A1.y = e /\ A1.w = e /\ A1.h = e3
        /\ A2 \in Rects /\ A2.x = zero /\ A2.y = zero /\ A2.w = e /\ A2.h = e3
        /\ A3 \in Rects /\ A3.x = e /\ A3.y = zero /\ A3.w = e3 /\ A3.h = e
        /\ A4 \in Rects /\ A4.x = zero /\ A4.y = e3 /\ A4.w = e3 /\ A4.h = e
    BY <1>1, <1>2, RectIs
  <1>6. g = a \o b /\ b1 = parts[1] /\ b2 = parts[2] /\ b3 = parts[3] /\ b4 = parts[4]
        /\ parts = [i \in 1..4 |-> parts[i]]
    OBVIOUS
  <1> HIDE DEF e2, e3, d, zero, q, tq, hf, A0, A1, A2, A3, A4, three
  <1>7. Drawn(a, d, {A0}, Area(A0))
    <2> DEFINE p == [i \in 1..1 |-> A0]
    <2>1. p[1] = A0
      OBVIOUS
    <2> HIDE DEF p
    <2>2. Drawing(a, p, d, {A0}, Area(A0))
      BY <1>2, <1>3, <1>5, <2>1, DrawingOne
    <2> HIDE DEF a
    <2> QED
      BY <2>2 DEF Drawn
  <1>8. /\ s1 \in Slots /\ DrawnAs(s1, A1, d) /\ s2 \in Slots /\ DrawnAs(s2, A2, d)
        /\ s3 \in Slots /\ DrawnAs(s3, A3, d) /\ s4 \in Slots /\ DrawnAs(s4, A4, d)
    BY <1>2, <1>3, <1>4, <1>5, SlotIs
  <1>9. e < e3 /\ ~(e3 < e)
    BY <1>1, <1>2
  <1> HIDE DEF s1, s2, s3, s4
  <1>10. Drawn(b1, d, {A1}, Area(A1))
    <2>1. (A1.h < A1.w => three * e = A1.w) /\ (~(A1.h < A1.w) => three * e = A1.h)
      BY <1>2, <1>5, <1>9
    <2> QED
      BY <1>1, <1>2, <1>5, <1>8, <2>1, DividedDrawn
  <1>11. Drawn(b2, d, {A2}, Area(A2))
    <2>1. (A2.h < A2.w => three * e = A2.w) /\ (~(A2.h < A2.w) => three * e = A2.h)
      BY <1>2, <1>5, <1>9
    <2> QED
      BY <1>1, <1>2, <1>5, <1>8, <2>1, DividedDrawn
  <1>12. Drawn(b3, d, {A3}, Area(A3))
    <2>1. (A3.h < A3.w => three * e = A3.w) /\ (~(A3.h < A3.w) => three * e = A3.h)
      BY <1>2, <1>5, <1>9
    <2> QED
      BY <1>1, <1>2, <1>5, <1>8, <2>1, DividedDrawn
  <1>13. Drawn(b4, d, {A4}, Area(A4))
    <2>1. (A4.h < A4.w => three * e = A4.w) /\ (~(A4.h < A4.w) => three * e = A4.h)
      BY <1>2, <1>5, <1>9
    <2> QED
      BY <1>1, <1>2, <1>5, <1>8, <2>1, DividedDrawn
  <1>14. Len(a) = 1 /\ Len(b1) = e /\ Len(b2) = e /\ Len(b3) = e /\ Len(b4) = e
    BY <1>2, DividedLen
  <1>15. a \in Seq(Slots) /\ b1 \in Seq(Slots) /\ b2 \in Seq(Slots) /\ b3 \in Seq(Slots) /\ b4 \in Seq(Slots)
    BY <1>7, <1>10, <1>11, <1>12, <1>13 DEF Drawn, Drawing
  <1> HIDE DEF parts, b1, b2, b3, b4, a, g
  <1>16. b = ((b1 \o b2) \o b3) \o b4
    <2>1. parts \in Seq(Seq(Slots)) /\ Len(parts) = 4
      <3>1. \A i \in 1..4 : i = 1 \/ i = 2 \/ i = 3 \/ i = 4
        OBVIOUS
      <3>2. \A i \in 1..4 : parts[i] \in Seq(Slots)
        BY <1>6, <1>15, <3>1
      <3> QED
        BY <1>6, <3>2
    <2> QED
      BY <1>6, <2>1, FlattenFour
  <1> HIDE DEF b
  <1> DEFINE c2 == b1 \o b2
             c3 == c2 \o b3
             S2 == {A1} \cup {A2}
             S3 == S2 \cup {A3}
             S4 == S3 \cup {A4}
             S == {A0} \cup S4
             u0 == Area(A0)
             u1 == Area(A1)
             u2 == Area(A2)
             u3 == Area(A3)
             u4 == Area(A4)
             v == u0 + (((u1 + u2) + u3) + u4)
  <1>17. /\ Apart(A1, A2) /\ Apart(A1, A3) /\ Apart(A1, A4) /\ Apart(A2, A3) /\ Apart(A2, A4)
         /\ Apart(A3, A4) /\ Apart(A0, A1) /\ Apart(A0, A2) /\ Apart(A0, A3) /\ Apart(A0, A4)
    BY <1>2, <1>5 DEF Apart
  <1>18. Within(A0, Board(d)) /\ Within(A1, Board(d)) /\ Within(A2, Board(d)) /\ Within(A3, Board(d))
         /\ Within(A4, Board(d))
    <2>1. Board(d).x = 0 /\ Board(d).y = 0 /\ Board(d).w = d /\ Board(d).h = d
      BY <1>2, BoardIs
    <2> QED
      BY <1>2, <1>5, <2>1 DEF Within
  <1>19. S2 \in SUBSET Rects /\ S3 \in SUBSET Rects /\ S4 \in SUBSET Rects /\ S \in SUBSET Rects
         /\ {A0} \in SUBSET Rects /\ {A1} \in SUBSET Rects /\ {A2} \in SUBSET Rects
         /\ {A3} \in SUBSET Rects /\ {A4} \in SUBSET Rects
    BY <1>5
  <1>20. /\ \A r \in {A1}, s \in {A2} : Apart(r, s)
         /\ \A r \in S2, s \in {A3} : Apart(r, s)
         /\ \A r \in S3, s \in {A4} : Apart(r, s)
         /\ \A r \in {A0}, s \in S4 : Apart(r, s)
    BY <1>17
  <1>21. v = d * d
    <2>1. u0 = e2 * e2 /\ u1 = e * e3 /\ u2 = e * e3 /\ u3 = e3 * e /\ u4 = e3 * e
      BY <1>5 DEF Area
    <2> DEFINE z == e * e
    <2>2. z \in Nat /\ e2 * e2 = 4 * z /\ e * e3 = 3 * z /\ e3 * e = 3 * z /\ d * d = 16 * z
      BY <1>2
    <2> HIDE DEF u0, u1, u2, u3, u4, z
    <2> QED
      BY <2>1, <2>2
  <1> HIDE DEF u0, u1, u2, u3, u4, S, S2, S3, S4
  <1>22. Drawn(c2, d, S2, u1 + u2)
    BY <1>10, <1>11, <1>19, <1>20, DrawnJoined DEF S2, u1, u2
  <1>23. Drawn(c3, d, S3, (u1 + u2) + u3)
    <2> DEFINE t == u1 + u2
    <2>1. Drawn(b3, d, {A3}, u3) /\ Drawn(c2, d, S2, t)
      BY <1>12, <1>22 DEF u3
    <2> HIDE DEF t, c2
    <2>2. Drawn(c2 \o b3, d, S2 \cup {A3}, t + u3)
      BY <1>19, <1>20, <2>1, DrawnJoined
    <2> QED
      BY <2>2 DEF S3, t
  <1>24. Drawn(b, d, S4, ((u1 + u2) + u3) + u4)
    <2> DEFINE t == (u1 + u2) + u3
    <2>1. Drawn(b4, d, {A4}, u4) /\ Drawn(c3, d, S3, t)
      BY <1>13, <1>23 DEF u4
    <2> HIDE DEF t, c3
    <2>2. Drawn(c3 \o b4, d, S3 \cup {A4}, t + u4)
      BY <1>19, <1>20, <2>1, DrawnJoined
    <2> QED
      BY <1>16, <2>2 DEF S4, t, c3, c2
  <1>25. Drawn(g, d, S, v)
    <2> DEFINE t == ((u1 + u2) + u3) + u4
    <2>1. Drawn(a, d, {A0}, u0) /\ Drawn(b, d, S4, t)
      BY <1>7, <1>24 DEF u0
    <2> HIDE DEF t
    <2>2. Drawn(a \o b, d, {A0} \cup S4, u0 + t)
      BY <1>19, <1>20, <2>1, DrawnJoined
    <2> QED
      BY <1>6, <2>2 DEF S, t
  <1>26. PICK k : Drawing(g, k, d, S, v)
    BY <1>25 DEF Drawn
  <1>27. g \in Seq(Slots) /\ TiledBy(g, k, d)
    <2>1. \A r \in S : Within(r, Board(d))
      BY <1>18 DEF S, S4, S3, S2
    <2> HIDE DEF v
    <2> QED
      BY <1>19, <1>21, <1>26, <2>1, DrawingTiles
  <1>28. ~(Len(g) > n)
    <2>1. Len(b1 \o b2) = Len(b1) + Len(b2) /\ c2 \in Seq(Slots)
      BY <1>15, ConcatProperties
    <2>2. Len(c2) = e + e
      BY <1>14, <2>1
    <2> HIDE DEF c2
    <2>3. Len(c2 \o b3) = Len(c2) + Len(b3) /\ c3 \in Seq(Slots)
      BY <1>15, <2>1, ConcatProperties
    <2>4. Len(c3) = (e + e) + e
      BY <1>14, <2>2, <2>3
    <2>5. b = c3 \o b4
      BY <1>16 DEF c2
    <2> HIDE DEF c3
    <2>6. Len(c3 \o b4) = Len(c3) + Len(b4) /\ c3 \o b4 \in Seq(Slots)
      BY <1>15, <2>3, ConcatProperties
    <2>7. Len(b) = ((e + e) + e) + e /\ b \in Seq(Slots)
      BY <1>14, <2>4, <2>5, <2>6
    <2>8. Len(a \o b) = Len(a) + Len(b)
      BY <1>15, <2>7, ConcatProperties
    <2>9. Len(g) = 1 + (((e + e) + e) + e)
      BY <1>6, <1>14, <2>7, <2>8
    <2> QED
      BY <1>1, <2>9
  <1>29. Kept(g, n) \in Seq(TiledGrids)
    BY <1>27, <1>28, KeptTiled
  <1> QED
    BY <1>29 DEF g, a, b, parts, s1, s2, s3, s4, q, tq, hf, zero, e

\* The big slot and its four sides do.
LEMMA BigCenterGridsTiled ==
  ASSUME NEW m \in Nat, NEW more
  PROVE  BigCenterGrids(m, more) \in Seq(TiledGrids)
  <1> DEFINE n == SlotNum(m, 5, more)
             q == <<1, 4>>
             tq == <<3, 4>>
             sides == << Slot(tq, q, q, tq, 0), Slot(Zero, Zero, q, tq, 0),
                         Slot(q, Zero, tq, q, 0), Slot(Zero, tq, tq, q, 0) >>
             g(k) == <<Slot(q, q, <<1, 2>>, <<1, 2>>, 0)>>
                     \o FlattenSeq([i \in 1 .. 4 |-> Divided(sides[i], (k - 1) \div 4)])
  <1>1. BigCenterGrids(m, more) = IF n = 0 THEN <<>> ELSE Kept(g(n), n)
    BY Zenon DEF BigCenterGrids
  <1>2. n # 0 => n \in Nat /\ n >= 5
    BY SlotNumIs
  <1>3. \A k \in Nat : k >= 5 => Kept(g(k), k) \in Seq(TiledGrids)
    BY BigCenterTiled, Zenon
  <1> HIDE DEF n, g
  <1> QED
    BY <1>1, <1>2, <1>3, NoGridsTiled

-----------------------------------------------------------------------------
(*****************************************************************************)
(* The big slot at the left and the top                                      *)
(*****************************************************************************)

\* The operations give fractions.
LEMMA FractionsMade ==
  ASSUME NEW a \in Rationals, NEW b \in Rationals
  PROVE  /\ Plus(a, b) \in Rationals /\ Minus(a, b) \in Rationals /\ Times(a, b) \in Rationals
         /\ b[1] # 0 => Over(a, b) \in Rationals
  <1>1. a[1] \in Int /\ a[2] \in Nat \ {0} /\ b[1] \in Int /\ b[2] \in Nat \ {0}
    BY DEF Rationals
  <1> DEFINE k == a[2] * b[2]
             l == a[2] * b[1]
             p == a[1] * b[2] + b[1] * a[2]
             m == a[1] * b[2] + (-b[1]) * a[2]
             t == a[1] * b[1]
             o == a[1] * b[2]
  <1>2. k \in Int \ {0} /\ p \in Int /\ m \in Int /\ t \in Int /\ o \in Int
    BY <1>1
  <1>3. b[1] # 0 => l \in Int \ {0}
    <2>1. l \in Int
      BY <1>1
    <2>2. b[1] # 0 => b[1] >= 1 \/ -b[1] >= 1
      BY <1>1
    <2>3. b[1] >= 1 => l >= 1
      BY <1>1
    <2>4. -b[1] >= 1 => a[2] * (-b[1]) >= 1
      <3> DEFINE c == -b[1]
      <3>1. c \in Int
        BY <1>1
      <3> HIDE DEF c
      <3>2. c >= 1 => a[2] * c >= 1
        BY <1>1, <3>1
      <3> QED
        BY <3>2 DEF c
    <2>5. a[2] * (-b[1]) = -l
      BY <1>1
    <2> HIDE DEF l
    <2> QED
      BY <1>1, <2>1, <2>2, <2>3, <2>4, <2>5
  <1>4. Plus(a, b) = Frac(p, k) /\ Minus(a, b) = Frac(m, k) /\ Times(a, b) = Frac(t, k)
        /\ Over(a, b) = Frac(o, l)
    BY DEF Plus, Minus, Times, Over
  <1> HIDE DEF k, l, p, m, t, o
  <1> QED
    BY <1>2, <1>3, <1>4, FracExact

\* A whole number is a fraction.
LEMMA WholeMade ==
  ASSUME NEW k \in Nat \ {0}
  PROVE  <<k, 1>> \in Rationals /\ <<k, 1>>[1] # 0
  BY DEF Rationals

\* A part, from its multiple.
LEMMA PartIs ==
  ASSUME NEW d \in Nat \ {0}, NEW a, NEW x, Is(a, x, d), NEW k \in Nat \ {0},
         NEW z, Is(Over(a, <<k, 1>>), z, d)
  PROVE  z * k = x
  <1> DEFINE e == k * d
             f == Over(a, <<k, 1>>)
             y == k * x
  <1>1. e \in Nat \ {0} /\ x \in Int /\ z \in Int /\ x * k = y
    BY DEF Is
  <1>2. Is(a, y, e)
    BY FinerNum
  <1>3. Is(f, k * z, e)
    BY FinerNum
  <1> HIDE DEF e, y
  <1>4. Is(f, x, e)
    BY <1>1, <1>2, PartNum
  <1> HIDE DEF f
  <1> DEFINE w == k * z
  <1>5. Is(f, w, e)
    BY <1>3
  <1> HIDE DEF w
  <1>6. x = w
    BY <1>1, <1>4, <1>5, SameNum
  <1> QED
    BY <1>1, <1>6 DEF w

\* The larger of two fifths and what p of k leave is a proper fraction; p of k are enough
\* for the rest.
LEMMA ShareIs ==
  ASSUME NEW k \in Nat \ {0}, NEW p \in Nat \ {0}
  PROVE  LET w == Larger(<<2, 5>>, Frac(k - p, k)) IN
         /\ w \in Rationals /\ w[1] > 0 /\ w[1] < w[2]
         /\ (w[2] - w[1]) * k <= p * w[2]
  <1> DEFINE m == k - p
             f == Frac(m, k)
             f1 == f[1]
             f2 == f[2]
             t == <<2, 5>>
             w == Larger(t, f)
  <1>1. m \in Int /\ k \in Int \ {0} /\ m = k - p
    OBVIOUS
  <1>2. t \in Rationals /\ t[1] = 2 /\ t[2] = 5
    BY DEF Rationals
  <1> HIDE DEF m
  <1>3. f \in Rationals /\ f1 * k = m * f2
    BY <1>1, FracExact
  <1>4. f1 \in Int /\ f2 \in Nat \ {0}
    BY <1>3 DEF Rationals
  <1> HIDE DEF t, f
  <1>5. CASE Less(t, f)
    <2>1. w = f
      BY <1>5 DEF Larger
    <2>2. 2 * f2 < f1 * 5
      BY <1>2, <1>5 DEF Less
    <2> HIDE DEF f1, f2, w
    <2>3. f1 > 0
      BY <1>4, <2>2
    <2>4. (f2 - f1) * k = p * f2
      <3>1. (f2 - f1) * k = f2 * k - f1 * k /\ m * f2 = f2 * k - p * f2
        BY <1>1, <1>4
      <3>2. f2 * k \in Int /\ f1 * k \in Int /\ p * f2 \in Int
        BY <1>4
      <3> QED
        BY <1>3, <3>1, <3>2
    <2>5. f1 < f2
      <3> DEFINE u == f2 - f1
      <3>1. u \in Int /\ p * f2 >= 1
        BY <1>4
      <3>2. u * k >= 1
        BY <2>4, <3>1
      <3> HIDE DEF u
      <3>3. u > 0
        BY <3>1, <3>2
      <3> QED
        BY <1>4, <3>3 DEF u
    <2>6. f[1] = f1 /\ f[2] = f2
      BY DEF f1, f2
    <2>7. (f2 - f1) * k <= p * f2
      BY <1>4, <2>4
    <2> QED
      BY <1>3, <2>1, <2>3, <2>5, <2>6, <2>7 DEF w, t, f, m
  <1>6. CASE ~Less(t, f)
    <2>1. w = t
      BY <1>6 DEF Larger
    <2>2. f1 * 5 <= 2 * f2
      BY <1>2, <1>4, <1>6 DEF Less
    <2>3. 3 * k <= p * 5
      <3> DEFINE x == 3 * k
                 y == p * 5
      <3>1. (f1 * 5) * k <= (2 * f2) * k
        <4> DEFINE u == f1 * 5
                   v == 2 * f2
        <4>1. u \in Int /\ v \in Int /\ u <= v
          BY <1>4, <2>2
        <4> HIDE DEF u, v
        <4>2. u * k <= v * k
          BY <4>1
        <4> QED
          BY <4>2 DEF u, v
      <3>2. (f1 * 5) * k = 5 * (m * f2)
        BY <1>3, <1>4
      <3>3. 5 * (m * f2) = 5 * (k * f2) - 5 * (p * f2)
        BY <1>1, <1>4
      <3>4. (2 * f2) * k = 2 * (k * f2)
        BY <1>4
      <3>5. 3 * (k * f2) <= 5 * (p * f2)
        <4>1. k * f2 \in Int /\ p * f2 \in Int
          BY <1>4
        <4> QED
          BY <3>1, <3>2, <3>3, <3>4, <4>1
      <3>6. x * f2 <= y * f2
        <4>1. x * f2 = 3 * (k * f2) /\ y * f2 = 5 * (p * f2)
          BY <1>4
        <4> QED
          BY <3>5, <4>1
      <3>7. x \in Int /\ y \in Int
        OBVIOUS
      <3> HIDE DEF x, y
      <3>8. x <= y
        BY <1>4, <3>6, <3>7, Cancel
      <3> QED
        BY <3>8 DEF x, y
    <2>4. (5 - 2) * k <= p * 5 /\ 2 > 0 /\ 2 < 5
      BY <2>3
    <2> HIDE DEF w
    <2> QED
      BY <1>2, <2>1, <2>4 DEF w, t, f, m
  <1> QED
    BY <1>5, <1>6

\* The same on a scale.
LEMMA ShareNum ==
  ASSUME NEW k \in Nat \ {0}, NEW p \in Nat \ {0}, NEW d \in Nat \ {0},
         NEW x, Is(Larger(<<2, 5>>, Frac(k - p, k)), x, d)
  PROVE  x \in Nat \ {0} /\ x < d /\ (d - x) * k <= p * d
  <1> DEFINE w == Larger(<<2, 5>>, Frac(k - p, k))
             a == w[1]
             b == w[2]
  <1>1. w \in Rationals /\ a > 0 /\ a < b /\ (b - a) * k <= p * b
    BY ShareIs
  <1>2. a \in Int /\ b \in Nat \ {0} /\ x \in Int /\ a * d = x * b
    BY <1>1 DEF Is, Rationals
  <1> HIDE DEF a, b
  <1>3. x > 0
    <2>1. a * d >= 1
      BY <1>1, <1>2
    <2>2. x * b >= 1
      BY <1>2, <2>1
    <2> QED
      BY <1>2, <2>2
  <1>4. x < d
    <2> DEFINE u == d - x
    <2>1. a * d < b * d
      BY <1>1, <1>2
    <2>2. u * b = d * b - x * b /\ b * d = d * b /\ d * b \in Int /\ x * b \in Int
      BY <1>2
    <2>3. u * b >= 1 /\ u \in Int
      BY <1>2, <2>1, <2>2
    <2> HIDE DEF u
    <2>4. u > 0
      BY <1>2, <2>3
    <2> QED
      BY <1>2, <2>4 DEF u
  <1>5. (d - x) * k <= p * d
    <2> DEFINE u == (d - x) * k
               v == p * d
               s == (b - a) * k
               t == p * b
    <2>1. u \in Int /\ v \in Int /\ s \in Int /\ t \in Int
      BY <1>2
    <2>2. s * d <= t * d
      <3>1. s <= t
        BY <1>1
      <3> HIDE DEF s, t
      <3> QED
        BY <2>1, <3>1
    <2>3. u * b = s * d
      <3>1. u * b = (d * b) * k - (x * b) * k
        BY <1>2
      <3>2. s * d = (d * b) * k - (a * d) * k
        BY <1>2
      <3> QED
        BY <1>2, <3>1, <3>2
    <2>4. v * b = t * d
      BY <1>2
    <2> HIDE DEF u, v, s, t
    <2>5. u * b <= v * b
      BY <2>2, <2>3, <2>4
    <2>6. u <= v
      BY <1>2, <2>1, <2>5, Cancel
    <2> QED
      BY <2>6 DEF u, v
  <1> QED
    BY <1>2, <1>3, <1>4, <1>5

\* bigLeftTop: a big slot, r1 rows of r2 slots to its right, and b1 rows of b2 below both.
LEMMA FrameTiled ==
  ASSUME NEW b1 \in Nat \ {0}, NEW b2 \in Nat \ {0}, NEW r1 \in Nat \ {0}, NEW r2 \in Nat \ {0},
         NEW n \in Nat, b1 * b2 + r1 * r2 < n,
         NEW b, NEW r, b[1] = b1, b[2] = b2, r[1] = r1, r[2] = r2
  PROVE  Kept(SizedFrame(b, r, Larger(<<2, 5>>, Frac(b2 - r2, b2)), Larger(<<2, 5>>, Frac(4 - b1, 4))), n)
           \in Seq(TiledGrids)
  <1> DEFINE w == Larger(<<2, 5>>, Frac(b2 - r2, b2))
             h == Larger(<<2, 5>>, Frac(4 - b1, 4))
             bw == Frac(1, b2)
             oh == Minus(One, h)
             bh == Over(oh, <<b1, 1>>)
             ow == Minus(One, w)
             rw1 == Over(ow, <<r2, 1>>)
             rw2 == Times(bw, <<r2, 1>>)
             rw == Smaller(rw1, rw2)
             ih == Times(bh, <<b1, 1>>)
             jh == Minus(One, ih)
             rh == Over(jh, <<r1, 1>>)
             one == 1
             two == 2
             p == 2 + b1 * b2
             s1 == <<Slot(Zero, Zero, w, h, one)>>
             s2 == Cells(Zero, h, bw, bh, b2, b1, TRUE, two)
             s3 == Cells(w, Zero, rw, rh, r2, r1, TRUE, p)
             g == (s1 \o s2) \o s3
  <1>1. SizedFrame(b, r, w, h) = g
    BY Zenon DEF SizedFrame, FrameSlots
  <1>2. Zero \in Rationals /\ One \in Rationals
    BY DEF Zero, One, Rationals
  <1>3. w \in Rationals /\ h \in Rationals
    <2>1. w \in Rationals
      BY ShareIs
    <2> DEFINE four == 4
    <2>2. four \in Nat \ {0}
      OBVIOUS
    <2> HIDE DEF four
    <2>3. Larger(<<2, 5>>, Frac(four - b1, four)) \in Rationals
      BY <2>2, ShareIs
    <2> QED
      BY <2>1, <2>3 DEF four
  <1>4. bw \in Rationals /\ bw[1] * b2 = bw[2] /\ bw[2] \in Nat \ {0} /\ bw[1] \in Int
    <2>1. one \in Int /\ b2 \in Int \ {0}
      OBVIOUS
    <2> HIDE DEF one
    <2>2. Frac(one, b2) \in Rationals /\ Frac(one, b2)[1] * b2 = one * Frac(one, b2)[2]
      BY <2>1, FracExact
    <2>3. Frac(one, b2) = bw
      BY DEF one
    <2> HIDE DEF bw
    <2>4. bw[1] * b2 = one * bw[2] /\ bw[2] \in Nat \ {0} /\ bw[1] \in Int
      BY <2>2, <2>3 DEF Rationals
    <2> QED
      BY <2>2, <2>3, <2>4 DEF one
  <1>5. /\ <<b1, 1>> \in Rationals /\ <<b1, 1>>[1] # 0 /\ <<r1, 1>> \in Rationals /\ <<r1, 1>>[1] # 0
        /\ <<r2, 1>> \in Rationals /\ <<r2, 1>>[1] # 0
    BY WholeMade
  <1> HIDE DEF w, h, bw
  <1>6. oh \in Rationals /\ ow \in Rationals
    BY <1>2, <1>3, FractionsMade
  <1> HIDE DEF oh, ow
  <1>7. bh \in Rationals /\ rw1 \in Rationals /\ rw2 \in Rationals
    BY <1>4, <1>5, <1>6, FractionsMade
  <1> HIDE DEF bh, rw1, rw2
  <1>8. ih \in Rationals
    BY <1>5, <1>7, FractionsMade
  <1> HIDE DEF ih
  <1>9. jh \in Rationals
    BY <1>2, <1>8, FractionsMade
  <1> HIDE DEF jh
  <1>10. rh \in Rationals
    BY <1>5, <1>9, FractionsMade
  <1> HIDE DEF rh
  <1>11. PICK d \in Nat \ {0} : On(w, d) /\ On(h, d) /\ On(bw, d) /\ On(bh, d) /\ On(rw1, d) /\ On(rh, d)
    <2> DEFINE six == 6
               f == <<w, h, bw, bh, rw1, rh>>
    <2>1. six \in Nat /\ 1 \in 1..six /\ 2 \in 1..six /\ 3 \in 1..six /\ 4 \in 1..six
          /\ 5 \in 1..six /\ 6 \in 1..six
      OBVIOUS
    <2>2. f[1] = w /\ f[2] = h /\ f[3] = bw /\ f[4] = bh /\ f[5] = rw1 /\ f[6] = rh
      OBVIOUS
    <2>3. \A i \in 1..six : i = 1 \/ i = 2 \/ i = 3 \/ i = 4 \/ i = 5 \/ i = 6
      OBVIOUS
    <2> HIDE DEF f
    <2>4. \A i \in 1..six : f[i] \in Rationals
      BY <1>3, <1>4, <1>7, <1>10, <2>2, <2>3
    <2> HIDE DEF six
    <2>5. PICK d \in Nat \ {0} : \A i \in 1..six : On(f[i], d)
      BY <2>1, <2>4, OneScale
    <2>6. On(f[1], d) /\ On(f[2], d) /\ On(f[3], d) /\ On(f[4], d) /\ On(f[5], d) /\ On(f[6], d)
      BY <2>1, <2>5
    <2> QED
      BY <2>2, <2>5, <2>6
  <1>12. PICK W : Is(w, W, d)
    BY <1>11 DEF On
  <1>13. PICK H : Is(h, H, d)
    BY <1>11 DEF On
  <1>14. PICK U : Is(bw, U, d)
    BY <1>11 DEF On
  <1>15. PICK V : Is(bh, V, d)
    BY <1>11 DEF On
  <1>16. PICK P : Is(rw1, P, d)
    BY <1>11 DEF On
  <1>17. PICK Q : Is(rh, Q, d)
    BY <1>11 DEF On
  <1>18. W \in Int /\ H \in Int /\ U \in Int /\ V \in Int /\ P \in Int /\ Q \in Int
    BY <1>12, <1>13, <1>14, <1>15, <1>16, <1>17 DEF Is
  <1>19. W \in Nat \ {0} /\ W < d /\ (d - W) * b2 <= r2 * d
    BY <1>12, ShareNum DEF w
  <1>20. H \in Nat \ {0} /\ H < d
    <2> DEFINE four == 4
    <2>1. four \in Nat \ {0} /\ Is(Larger(<<2, 5>>, Frac(four - b1, four)), H, d)
      BY <1>13 DEF h
    <2> HIDE DEF four
    <2> QED
      BY <2>1, ShareNum
  <1>21. Is(Zero, 0, d) /\ Is(One, d, d)
    BY ZeroOneNum
  <1>22. U * b2 = d
    <2> DEFINE x == bw[1]
               y == bw[2]
               u == U * b2
    <2>1. x * b2 = y /\ y \in Nat \ {0} /\ x \in Int /\ x * d = U * y
      BY <1>4, <1>14 DEF Is
    <2> HIDE DEF x, y
    <2>2. u * y = d * y
      <3>1. u * y = (U * y) * b2
        BY <1>18, <2>1
      <3>2. (x * d) * b2 = (x * b2) * d
        BY <2>1
      <3> QED
        BY <2>1, <3>1, <3>2
    <2>3. u \in Int /\ d \in Int
      BY <1>18
    <2> HIDE DEF u
    <2>4. u = d
      BY <2>1, <2>2, <2>3, CancelEq
    <2> QED
      BY <2>4 DEF u
  <1>23. V * b1 = d - H
    <2> DEFINE x == d - H
    <2>1. Is(oh, x, d)
      BY <1>13, <1>21, MinusNum DEF oh
    <2> HIDE DEF x
    <2>2. V * b1 = x
      BY <1>15, <2>1, PartIs DEF bh
    <2> QED
      BY <2>2 DEF x
  <1>24. P * r2 = d - W
    <2> DEFINE x == d - W
    <2>1. Is(ow, x, d)
      BY <1>12, <1>21, MinusNum DEF ow
    <2> HIDE DEF x
    <2>2. P * r2 = x
      BY <1>16, <2>1, PartIs DEF rw1
    <2> QED
      BY <2>2 DEF x
  <1>25. Q * r1 = H
    <2> DEFINE y == V * b1
               x == d - y
    <2>1. b1 \in Int
      OBVIOUS
    <2>2. Is(ih, y, d)
      BY <1>15, <2>1, MultipleNum DEF ih
    <2> HIDE DEF y
    <2>3. Is(jh, x, d)
      BY <1>21, <2>2, MinusNum DEF jh
    <2> HIDE DEF x
    <2>4. Q * r1 = x
      BY <1>17, <2>3, PartIs DEF rh
    <2>5. x = H
      BY <1>18, <1>23 DEF x, y
    <2> QED
      BY <2>4, <2>5
  <1>26. U \in Nat \ {0} /\ V \in Nat \ {0} /\ P \in Nat \ {0} /\ Q \in Nat \ {0}
    <2>1. \A x \in Int, k \in Nat \ {0} : x * k >= 1 => x \in Nat \ {0}
      OBVIOUS
    <2>2. U * b2 >= 1 /\ V * b1 >= 1 /\ P * r2 >= 1 /\ Q * r1 >= 1
      BY <1>18, <1>19, <1>20, <1>22, <1>23, <1>24, <1>25
    <2> QED
      BY <1>18, <2>1, <2>2
  <1>27. Is(rw, P, d)
    <2> DEFINE R == U * r2
    <2>1. r2 \in Int
      OBVIOUS
    <2>2. Is(rw2, R, d) /\ R \in Int
      BY <1>14, <1>18, <2>1, MultipleNum DEF rw2
    <2>3. P <= R
      <3> DEFINE x == P * r2
                 y == R
      <3>1. x * b2 <= r2 * d
        BY <1>19, <1>24
      <3>2. r2 * d = R * b2
        <4>1. r2 * (U * b2) = (U * r2) * b2
          BY <1>18
        <4> QED
          BY <1>22, <4>1
      <3>3. x \in Int
        BY <1>18
      <3>4. x * b2 <= R * b2
        BY <3>1, <3>2
      <3> HIDE DEF x, R
      <3>5. x <= R
        BY <2>2, <3>3, <3>4, Cancel
      <3>6. P <= P * r2
        BY <1>26
      <3> QED
        BY <1>18, <2>2, <3>3, <3>5, <3>6 DEF x
    <2> HIDE DEF R
    <2>4. Less(rw1, rw2) <=> P < R
      BY <1>16, <2>2, LeqNum
    <2>5. CASE Less(rw1, rw2)
      BY <1>16, <2>5 DEF Smaller
    <2>6. CASE ~Less(rw1, rw2)
      <3>1. P = R
        BY <1>18, <2>2, <2>3, <2>4, <2>6
      <3> QED
        BY <2>2, <2>6, <3>1 DEF Smaller
    <2> QED
      BY <2>5, <2>6
  <1> HIDE DEF rw
  <1> DEFINE zero == 0
             A == Rect(zero, zero, W, H)
             B == Rect(zero, H, U * b2, V * b1)
             R == Rect(W, zero, P * r2, Q * r1)
             u1 == Area(A)
             u2 == (b2 * b1) * (U * V)
             u3 == (r2 * r1) * (P * Q)
             S2 == {A} \cup {B}
             S == S2 \cup {R}
             c == s1 \o s2
  <1>28. zero \in Int /\ zero = 0 /\ Is(Zero, zero, d) /\ one \in Nat /\ two \in Nat
         /\ p \in Nat /\ TRUE \in BOOLEAN
    BY <1>21
  <1>29. U * b2 \in Nat \ {0} /\ V * b1 \in Nat \ {0} /\ P * r2 \in Nat \ {0} /\ Q * r1 \in Nat \ {0}
    BY <1>26
  <1>30. /\ A \in Rects /\ A.x = 0 /\ A.y = 0 /\ A.w = W /\ A.h = H
         /\ B \in Rects /\ B.x = 0 /\ B.y = H /\ B.w = d /\ B.h = d - H
         /\ R \in Rects /\ R.x = W /\ R.y = 0 /\ R.w = d - W /\ R.h = H
    <2> DEFINE k == U * b2
               l == V * b1
               i == P * r2
               j == Q * r1
    <2>1. k \in Nat \ {0} /\ l \in Nat \ {0} /\ i \in Nat \ {0} /\ j \in Nat \ {0}
      BY <1>29
    <2>2. k = d /\ l = d - H /\ i = d - W /\ j = H
      BY <1>22, <1>23, <1>24, <1>25
    <2> HIDE DEF k, l, i, j, zero
    <2>3. A \in Rects /\ A.x = zero /\ A.y = zero /\ A.w = W /\ A.h = H
      BY <1>19, <1>20, <1>28 DEF Rect, Rects
    <2>4. Rect(zero, H, k, l) \in Rects /\ Rect(zero, H, k, l).x = zero /\ Rect(zero, H, k, l).y = H
          /\ Rect(zero, H, k, l).w = k /\ Rect(zero, H, k, l).h = l
      BY <1>18, <1>28, <2>1 DEF Rect, Rects
    <2>5. Rect(W, zero, i, j) \in Rects /\ Rect(W, zero, i, j).x = W /\ Rect(W, zero, i, j).y = zero
          /\ Rect(W, zero, i, j).w = i /\ Rect(W, zero, i, j).h = j
      BY <1>18, <1>28, <2>1 DEF Rect, Rects
    <2>6. B = Rect(zero, H, k, l) /\ R = Rect(W, zero, i, j)
      BY DEF k, l, i, j
    <2> HIDE DEF A, B, R
    <2> QED
      BY <1>28, <2>2, <2>3, <2>4, <2>5, <2>6
  <1>31. Drawn(s1, d, {A}, u1)
    <2> DEFINE q == [i \in 1..1 |-> A]
    <2>1. q[1] = A /\ A.x = zero /\ A.y = zero
      BY <1>28, <1>30
    <2> HIDE DEF q, zero, one, A
    <2>2. Drawing(s1, q, d, {A}, Area(A))
      BY <1>12, <1>13, <1>28, <1>30, <2>1, DrawingOne
    <2> HIDE DEF s1
    <2> QED
      BY <2>2 DEF Drawn
  <1>32. Drawn(s2, d, {B}, u2)
    <2> HIDE DEF zero, two
    <2> QED
      BY <1>13, <1>14, <1>15, <1>18, <1>26, <1>28, DrawnCells
  <1>33. Drawn(s3, d, {R}, u3)
    <2> HIDE DEF zero, p
    <2> QED
      BY <1>12, <1>17, <1>27, <1>18, <1>26, <1>28, DrawnCells
  <1>34. Apart(A, B) /\ Apart(A, R) /\ Apart(B, R)
    BY <1>18, <1>30 DEF Apart
  <1>35. Within(A, Board(d)) /\ Within(B, Board(d)) /\ Within(R, Board(d))
    <2>1. Board(d).x = 0 /\ Board(d).y = 0 /\ Board(d).w = d /\ Board(d).h = d
      BY BoardIs
    <2> QED
      BY <1>18, <1>19, <1>20, <1>30, <2>1 DEF Within
  <1>36. (u1 + u2) + u3 = d * d
    <2>1. u1 = W * H
      BY <1>30 DEF Area
    <2>2. u2 = d * (d - H)
      <3>1. u2 = (U * b2) * (V * b1)
        BY <1>18
      <3> QED
        BY <1>22, <1>23, <3>1
    <2>3. u3 = (d - W) * H
      <3>1. u3 = (P * r2) * (Q * r1)
        BY <1>18
      <3> QED
        BY <1>24, <1>25, <3>1
    <2>4. d * (d - H) = d * d - d * H /\ (d - W) * H = d * H - W * H
      BY <1>18
    <2>5. d * d \in Int /\ d * H \in Int /\ W * H \in Int
      BY <1>18
    <2> HIDE DEF u1, u2, u3
    <2> QED
      BY <2>1, <2>2, <2>3, <2>4, <2>5
  <1>37. {A} \in SUBSET Rects /\ {B} \in SUBSET Rects /\ {R} \in SUBSET Rects
         /\ S2 \in SUBSET Rects /\ S \in SUBSET Rects
    BY <1>30
  <1>38. (\A x \in {A}, y \in {B} : Apart(x, y)) /\ \A x \in S2, y \in {R} : Apart(x, y)
    BY <1>34
  <1>39. Len(s1) = 1 /\ Len(s2) = b2 * b1 /\ Len(s3) = r2 * r1
    BY DEF Cells
  <1>40. s1 \in Seq(Slots) /\ s2 \in Seq(Slots) /\ s3 \in Seq(Slots)
    BY <1>31, <1>32, <1>33 DEF Drawn, Drawing
  <1> HIDE DEF s1, s2, s3, A, B, R, u1, u2, u3
  <1>41. Drawn(c, d, S2, u1 + u2)
    BY <1>31, <1>32, <1>37, <1>38, DrawnJoined
  <1>42. Drawn(g, d, S, (u1 + u2) + u3)
    <2> DEFINE t == u1 + u2
    <2>1. Drawn(c, d, S2, t)
      BY <1>41
    <2> HIDE DEF t, c, S2
    <2>2. Drawn(c \o s3, d, S2 \cup {R}, t + u3)
      BY <1>33, <1>37, <1>38, <2>1, DrawnJoined
    <2> QED
      BY <2>2 DEF c, t
  <1>43. PICK q : Drawing(g, q, d, S, (u1 + u2) + u3)
    BY <1>42 DEF Drawn
  <1>44. g \in Seq(Slots) /\ TiledBy(g, q, d)
    <2> DEFINE v == (u1 + u2) + u3
    <2>1. \A x \in S : Within(x, Board(d))
      BY <1>35
    <2>2. Drawing(g, q, d, S, v) /\ v = d * d
      BY <1>36, <1>43
    <2> HIDE DEF v, S, g
    <2> QED
      BY <1>37, <2>1, <2>2, DrawingTiles
  <1>45. ~(Len(g) > n)
    <2>1. Len(s1 \o s2) = Len(s1) + Len(s2) /\ c \in Seq(Slots)
      BY <1>40, ConcatProperties
    <2>2. Len(c) = 1 + b2 * b1
      BY <1>39, <2>1
    <2> HIDE DEF c
    <2>3. Len(c \o s3) = Len(c) + Len(s3)
      BY <1>40, <2>1, ConcatProperties
    <2> DEFINE k == b2 * b1
               l == r2 * r1
    <2>4. Len(g) = (1 + k) + l /\ k \in Int /\ l \in Int
      BY <1>39, <2>2, <2>3 DEF c
    <2>5. k = b1 * b2 /\ l = r1 * r2
      OBVIOUS
    <2> HIDE DEF k, l, g
    <2> QED
      BY <2>4, <2>5
  <1> HIDE DEF g
  <1>46. Kept(g, n) \in Seq(TiledGrids)
    BY <1>44, <1>45, KeptTiled
  <1> QED
    BY <1>1, <1>46 DEF w, h

\* The big slot and the two blocks of the pair that is found do.
LEMMA BigLeftTopGridsTiled ==
  ASSUME NEW m \in Nat, NEW more
  PROVE  BigLeftTopGrids(m, more) \in Seq(TiledGrids)
  <1> DEFINE n == SlotNum(m, 3, more)
             f == FoundPair(n, RoundRoot(n) + 1)
             bs == Blocks(f)
             b == bs.bottom
             r == bs.right
             frame == LeftTopFrame(bs)
  <1>1. BigLeftTopGrids(m, more) = IF n = 0 THEN <<>> ELSE Kept(frame, n)
    BY Zenon DEF BigLeftTopGrids
  <1>2. n # 0 => n \in Nat /\ n >= 3
    BY SlotNumIs
  <1> HIDE DEF n
  <1>3. CASE n # 0
    <2>1. /\ f.row \in Nat \ {0} /\ f.col \in Nat \ {0} /\ f.row2 \in Nat \ {0} /\ f.col2 \in Nat \ {0}
          /\ f.row * f.col + f.row2 * f.col2 < n
      BY <1>2, <1>3, FoundPairIs
    <2> HIDE DEF f
    <2> DEFINE x == f.row
               y == f.col
               z == f.row2
               u == f.col2
    <2>2. \/ b = <<x, y>> /\ r = Upright(<<z, u>>)
          \/ b = <<z, u>> /\ r = Upright(<<x, y>>)
      BY DEF Blocks
    <2>3. \A i, j \in Nat \ {0} : Upright(<<i, j>>) = <<i, j>> \/ Upright(<<i, j>>) = <<j, i>>
      BY DEF Upright
    <2>4. x \in Nat \ {0} /\ y \in Nat \ {0} /\ z \in Nat \ {0} /\ u \in Nat \ {0} /\ x * y + z * u < n
      BY <2>1
    <2>5. frame = SizedFrame(b, r, Larger(<<2, 5>>, Frac(b[2] - r[2], b[2])),
                                   Larger(<<2, 5>>, Frac(4 - b[1], 4)))
      BY DEF LeftTopFrame
    <2> HIDE DEF x, y, z, u, b, r, frame
    <2>6. /\ b[1] \in Nat \ {0} /\ b[2] \in Nat \ {0} /\ r[1] \in Nat \ {0} /\ r[2] \in Nat \ {0}
          /\ b[1] * b[2] + r[1] * r[2] < n
      <3>1. x * y = y * x /\ z * u = u * z /\ x * y \in Int /\ z * u \in Int
        BY <2>4
      <3>2. \/ b = <<x, y>> /\ r = <<z, u>>
            \/ b = <<x, y>> /\ r = <<u, z>>
            \/ b = <<z, u>> /\ r = <<x, y>>
            \/ b = <<z, u>> /\ r = <<y, x>>
        BY <2>2, <2>3, <2>4
      <3>3. CASE b = <<x, y>> /\ r = <<z, u>>
        BY <2>4, <3>1, <3>3
      <3>4. CASE b = <<x, y>> /\ r = <<u, z>>
        BY <2>4, <3>1, <3>4
      <3>5. CASE b = <<z, u>> /\ r = <<x, y>>
        BY <2>4, <3>1, <3>5
      <3>6. CASE b = <<z, u>> /\ r = <<y, x>>
        BY <2>4, <3>1, <3>6
      <3> QED
        BY <3>2, <3>3, <3>4, <3>5, <3>6
    <2> DEFINE b1 == b[1]
               b2 == b[2]
               r1 == r[1]
               r2 == r[2]
    <2>7. /\ b1 \in Nat \ {0} /\ b2 \in Nat \ {0} /\ r1 \in Nat \ {0} /\ r2 \in Nat \ {0}
          /\ b1 * b2 + r1 * r2 < n /\ b[1] = b1 /\ b[2] = b2 /\ r[1] = r1 /\ r[2] = r2
          /\ frame = SizedFrame(b, r, Larger(<<2, 5>>, Frac(b2 - r2, b2)), Larger(<<2, 5>>, Frac(4 - b1, 4)))
      BY <2>5, <2>6
    <2> HIDE DEF b1, b2, r1, r2
    <2>8. n \in Nat
      BY <1>2, <1>3
    <2>9. Kept(frame, n) \in Seq(TiledGrids)
      BY <2>7, <2>8, FrameTiled
    <2> QED
      BY <1>1, <1>3, <2>9
  <1> QED
    BY <1>1, <1>3, NoGridsTiled

-----------------------------------------------------------------------------
(*****************************************************************************)
(* The ratios of a tree                                                      *)
(*****************************************************************************)

\* What a node's ratio is made of.
Mixed(type, a, b) == IF type = "V" THEN Beside(a, b) ELSE Stacked(a, b)

\* Every node with a cut has the ratio of its two parts.
Weighed(t) ==
  \A n \in DOMAIN t : ~IsLeaf(t, n) =>
    t[n].actual = Mixed(t[n].type, t[2 * n].actual, t[2 * n + 1].actual)

\* The equation of RatiosOf's function on the nodes with a cut.
RatioAt(f, type, leaf, n) ==
  Mixed(type[n], IF 2 * n \in DOMAIN leaf THEN leaf[2 * n] ELSE f[2 * n],
                 IF 2 * n + 1 \in DOMAIN leaf THEN leaf[2 * n + 1] ELSE f[2 * n + 1])
Weighing(f, type, leaf) == f = [n \in DOMAIN type \ DOMAIN leaf |-> RatioAt(f, type, leaf, n)]

\* It has a solution: from the largest number down.
LEMMA RatiosExist ==
  ASSUME NEW t, WholeTree(t), NEW leaf, DOMAIN leaf = Leaves(t)
  PROVE  \E f : Weighing(f, Types(t), leaf)
  <1> DEFINE type == Types(t)
             E == DOMAIN type \ DOMAIN leaf
  <1>1. PICK b \in Nat : \A n \in DOMAIN t : n <= b
    BY DEF WholeTree
  <1>2. \A n \in E : /\ n \in Nat /\ n > 0 /\ n <= b /\ 2 * n > n /\ 2 * n + 1 > n
                     /\ (2 * n \in DOMAIN leaf \/ 2 * n \in E)
                     /\ (2 * n + 1 \in DOMAIN leaf \/ 2 * n + 1 \in E)
    BY <1>1 DEF WholeTree, Leaves, Types
  <1> HIDE DEF E, type
  <1> DEFINE D(k) == {n \in E : n > b - k}
             P == {k \in Nat : \E f : f = [n \in D(k) |-> RatioAt(f, type, leaf, n)]}
  <1>3. 0 \in P
    <2> DEFINE f == [n \in D(0) |-> 0]
    <2>1. D(0) = {}
      BY <1>1, <1>2
    <2>2. f = [n \in D(0) |-> RatioAt(f, type, leaf, n)]
      <3> HIDE DEF D
      <3> QED
        BY <2>1, Zenon
    <2> HIDE DEF f, D
    <2> QED
      BY <2>2
  <1>4. ASSUME NEW k \in 0..(b - 1), k \in P PROVE k + 1 \in P
    <2>0. /\ k \in Nat /\ k + 1 \in Nat /\ b \in Nat
          /\ D(k) \subseteq D(k + 1)
          /\ \A n \in D(k + 1) : /\ 2 * n \in DOMAIN leaf \/ 2 * n \in D(k)
                                 /\ 2 * n + 1 \in DOMAIN leaf \/ 2 * n + 1 \in D(k)
      <3>1. b - (k + 1) < b - k /\ b - k - 1 = b - (k + 1) /\ k \in Nat /\ k + 1 \in Nat
        BY <1>1
      <3>2. ASSUME NEW n \in D(k) PROVE n \in D(k + 1)
        <4>1. n \in E /\ n \in Nat /\ n > b - k
          BY <1>2
        <4>2. n > b - (k + 1)
          BY <1>1, <3>1, <4>1
        <4> QED
          BY <4>1, <4>2
      <3>3. ASSUME NEW n \in D(k + 1)
            PROVE  /\ 2 * n \in DOMAIN leaf \/ 2 * n \in D(k)
                   /\ 2 * n + 1 \in DOMAIN leaf \/ 2 * n + 1 \in D(k)
        <4>1. /\ n \in Nat /\ n > b - (k + 1) /\ 2 * n > n
              /\ (2 * n \in DOMAIN leaf \/ 2 * n \in E)
              /\ (2 * n + 1 \in DOMAIN leaf \/ 2 * n + 1 \in E)
          BY <1>2
        <4>2. 2 * n > b - k /\ 2 * n + 1 > b - k
          BY <1>1, <3>1, <4>1
        <4> QED
          BY <4>1, <4>2
      <3> QED
        BY <1>1, <3>1, <3>2, <3>3
    <2> DEFINE d == D(k)
               e == D(k + 1)
    <2>1. PICK f : f = [n \in d |-> RatioAt(f, type, leaf, n)]
      <3> HIDE DEF D
      <3> QED
        BY <1>4
    <2>2. d \subseteq e /\ \A n \in e : /\ 2 * n \in DOMAIN leaf \/ 2 * n \in d
                                        /\ 2 * n + 1 \in DOMAIN leaf \/ 2 * n + 1 \in d
      BY <2>0
    <2> HIDE DEF d, e
    <2> DEFINE g == [n \in e |-> IF n \in d THEN f[n] ELSE RatioAt(f, type, leaf, n)]
    <2>3. \A n \in d : g[n] = f[n]
      BY <2>2
    <2>4. \A n \in d : f[n] = RatioAt(f, type, leaf, n)
      BY <2>1
    <2>5. \A n \in e : g[n] = RatioAt(f, type, leaf, n)
      BY <2>4
    <2>6. \A n \in e : RatioAt(g, type, leaf, n) = RatioAt(f, type, leaf, n)
      <3> HIDE DEF g
      <3> QED
        BY <2>2, <2>3 DEF RatioAt
    <2>7. g = [n \in e |-> RatioAt(g, type, leaf, n)]
      <3>1. g = [n \in e |-> g[n]]
        BY Zenon
      <3> HIDE DEF g
      <3> QED
        BY <2>5, <2>6, <3>1, Zenon
    <2> HIDE DEF g, D
    <2> QED
      BY <2>0, <2>7 DEF e
  <1> HIDE DEF P
  <1>5. b \in P
    BY <1>1, <1>3, <1>4, Climb
  <1>6. D(b) = E
    <2>1. \A n \in E : n > b - b
      BY <1>1, <1>2
    <2> QED
      BY <2>1
  <1> HIDE DEF D
  <1>7. \E f : f = [n \in D(b) |-> RatioAt(f, type, leaf, n)]
    BY <1>5 DEF P
  <1> QED
    BY <1>6, <1>7, Zenon DEF Weighing, E, type

\* calculateAspectRatioAt: the ratio of a node with a cut comes from its parts.
LEMMA RatiosMix ==
  ASSUME NEW t, WholeTree(t), NEW leaf, DOMAIN leaf = Leaves(t)
  PROVE  LET ar == RatiosOf(Types(t), leaf) IN
         \A n \in DOMAIN t : ~IsLeaf(t, n) => ar[n] = Mixed(t[n].type, ar[2 * n], ar[2 * n + 1])
  <1> DEFINE type == Types(t)
             f == CHOOSE f : f = [n \in DOMAIN type \ DOMAIN leaf |->
                    IF type[n] = "V"
                    THEN Beside(IF 2 * n \in DOMAIN leaf THEN leaf[2 * n] ELSE f[2 * n],
                                IF 2 * n + 1 \in DOMAIN leaf THEN leaf[2 * n + 1] ELSE f[2 * n + 1])
                    ELSE Stacked(IF 2 * n \in DOMAIN leaf THEN leaf[2 * n] ELSE f[2 * n],
                                 IF 2 * n + 1 \in DOMAIN leaf THEN leaf[2 * n + 1] ELSE f[2 * n + 1])]
             ar == RatiosOf(type, leaf)
  <1>1. ar = [n \in DOMAIN type |-> IF n \in DOMAIN leaf THEN leaf[n] ELSE f[n]]
    BY Zenon DEF RatiosOf
  <1>2. Weighing(f, type, leaf)
    <2>1. \E g : Weighing(g, type, leaf)
      BY RatiosExist
    <2> HIDE DEF type
    <2>2. \E g : g = [n \in DOMAIN type \ DOMAIN leaf |->
                    IF type[n] = "V"
                    THEN Beside(IF 2 * n \in DOMAIN leaf THEN leaf[2 * n] ELSE g[2 * n],
                                IF 2 * n + 1 \in DOMAIN leaf THEN leaf[2 * n + 1] ELSE g[2 * n + 1])
                    ELSE Stacked(IF 2 * n \in DOMAIN leaf THEN leaf[2 * n] ELSE g[2 * n],
                                 IF 2 * n + 1 \in DOMAIN leaf THEN leaf[2 * n + 1] ELSE g[2 * n + 1])]
      BY <2>1, Zenon DEF Weighing, RatioAt, Mixed
    <2> QED
      BY <2>2, Zenon DEF Weighing, RatioAt, Mixed
  <1> HIDE DEF f
  <1>3. DOMAIN type = DOMAIN t /\ \A n \in DOMAIN t : type[n] = t[n].type
    BY DEF Types
  <1> HIDE DEF type, ar
  <1>4. \A n \in DOMAIN t \ DOMAIN leaf : f[n] = RatioAt(f, type, leaf, n)
    BY <1>2, <1>3 DEF Weighing
  <1>5. ASSUME NEW n \in DOMAIN t, ~IsLeaf(t, n)
        PROVE  ar[n] = Mixed(t[n].type, ar[2 * n], ar[2 * n + 1])
    <2>1. 2 * n \in DOMAIN t /\ 2 * n + 1 \in DOMAIN t /\ n \notin DOMAIN leaf
      BY <1>5 DEF WholeTree, Leaves
    <2>2. \A m \in DOMAIN t : ar[m] = IF m \in DOMAIN leaf THEN leaf[m] ELSE f[m]
      BY <1>1, <1>3
    <2> DEFINE l == 2 * n
               h == 2 * n + 1
    <2>3. RatioAt(f, type, leaf, n) = Mixed(type[n], ar[l], ar[h])
      <3>1. RatioAt(f, type, leaf, n) =
              Mixed(type[n], IF l \in DOMAIN leaf THEN leaf[l] ELSE f[l],
                             IF h \in DOMAIN leaf THEN leaf[h] ELSE f[h])
        BY DEF RatioAt
      <3>2. l \in DOMAIN t /\ h \in DOMAIN t
        BY <2>1
      <3> HIDE DEF l, h
      <3>3. ar[l] = (IF l \in DOMAIN leaf THEN leaf[l] ELSE f[l])
            /\ ar[h] = (IF h \in DOMAIN leaf THEN leaf[h] ELSE f[h])
        BY <2>2, <3>2
      <3> QED
        BY <3>1, <3>3, Zenon
    <2>4. ar[n] = f[n] /\ f[n] = RatioAt(f, type, leaf, n) /\ type[n] = t[n].type
      BY <1>3, <1>4, <2>1, <2>2
    <2> QED
      BY <2>3, <2>4
  <1> QED
    BY <1>5 DEF type, ar

\* A tree that was measured without a dangling reference is weighed.
LEMMA MeasuredWeighed ==
  ASSUME NEW t, WholeTree(t), \A n \in DOMAIN t : IsNode(t[n]), NEW at \in {Nowhere, 1}
  PROVE  Weighed(Measured(t, at))
  <1> DEFINE leaf == [n \in Leaves(t) |-> t[n].actual]
             ar == RatiosOf(Types(t), leaf)
             c == Calculated(t)
  <1>1. Measured(t, at) = c
    BY DEF Measured
  <1>2. c = [n \in DOMAIN t |-> [t[n] EXCEPT !.actual = ar[n]]]
    BY DEF Calculated
  <1>3. \A n \in DOMAIN t : ~IsLeaf(t, n) => ar[n] = Mixed(t[n].type, ar[2 * n], ar[2 * n + 1])
    <2>1. DOMAIN leaf = Leaves(t)
      OBVIOUS
    <2> HIDE DEF leaf
    <2> QED
      BY <2>1, RatiosMix
  <1> HIDE DEF ar
  <1>4. \A n \in DOMAIN t : c[n].type = t[n].type /\ c[n].actual = ar[n]
    BY <1>2 DEF IsNode
  <1>5. DOMAIN c = DOMAIN t
    BY <1>2
  <1> HIDE DEF c
  <1>6. ASSUME NEW n \in DOMAIN c, ~IsLeaf(c, n)
        PROVE  c[n].actual = Mixed(c[n].type, c[2 * n].actual, c[2 * n + 1].actual)
    <2>1. ~IsLeaf(t, n) /\ n \in DOMAIN t
      BY <1>4, <1>5, <1>6 DEF IsLeaf
    <2>2. 2 * n \in DOMAIN t /\ 2 * n + 1 \in DOMAIN t
      BY <2>1 DEF WholeTree
    <2> QED
      BY <1>3, <1>4, <2>1, <2>2
  <1> QED
    BY <1>1, <1>6 DEF Weighed

\* While no node but the root was hit by the dangling reference, the tree that optimize
\* works on is weighed.
WeighInv == stage \in {"optimizing", "found"} /\ realAt \in {Nowhere, 1} => Weighed(tree)

\* Before the first sample there is no tree.
LEMMA WeighInit == Init => WeighInv
  <1> SUFFICES ASSUME Init PROVE WeighInv
    OBVIOUS
  <1>1. stage = "idle"
    BY DEF Init, PicWallInit
  <1> QED
    BY <1>1 DEF WeighInv

\* Every step keeps it.
LEMMA WeighStep == Inv /\ BranchInv /\ WeighInv /\ [Next]_vars => WeighInv'
  <1> SUFFICES ASSUME Inv, BranchInv, WeighInv, [Next]_vars PROVE WeighInv'
    OBVIOUS
  <1>1. /\ TypeOK /\ ShapeInv /\ tree = [n \in DOMAIN tree |-> tree[n]]
        /\ \A n \in DOMAIN tree : IsNode(tree[n])
    BY DEF Inv, TypeOK
  <1>2. CASE stage' \notin {"optimizing", "found"}
    BY <1>2 DEF WeighInv
  <1>3. CASE tree' = tree /\ realAt' = realAt
             /\ (stage' = stage \/ stage = "optimizing")
    BY <1>3 DEF WeighInv
  <1>4. CASE BeginTree
    <2>1. stage' = "creating"
      BY <1>4 DEF BeginTree, SampleTree
    <2> QED
      BY <1>2, <2>1
  <1>5. CASE CreateLeaf \/ CreatePair \/ CreateDivision
    <2>1. todo # <<>> /\ stage' = stage
      BY <1>5 DEF CreateLeaf, CreatePair, CreateDivision, PlacePair, Place, Placing, countVars
    <2>2. stage' \notin {"optimizing", "found"}
      BY <1>1, <2>1 DEF ShapeInv
    <2> QED
      BY <1>2, <2>2, SMTT(30)
  <1>6. CASE MeasureTree
    <2>1. tree' = Measured(tree, realAt') /\ todo = <<>> /\ stage # "idle"
      BY <1>6 DEF MeasureTree, Measure
    <2>2. WholeTree(tree)
      BY <2>1, TreeDone
    <2>3. realAt' \in {Nowhere, 1} => Weighed(tree')
      BY <1>1, <2>1, <2>2, MeasuredWeighed
    <2> QED
      BY <2>3 DEF WeighInv
  <1>7. CASE AdjustTree
    <2> DEFINE t == AdjustedTree(tree)
    <2>1. CASE stage' = "recreating"
      BY <1>2, <2>1
    <2>2. CASE tree' = Measured(t, realAt) /\ realAt' = realAt
      <3>1. SameShape(tree, t) /\ t = [n \in DOMAIN t |-> t[n]]
        BY <1>1, AdjustedNodes
      <3>2. stage = "optimizing"
        BY <1>7 DEF AdjustTree
      <3>3. WholeTree(tree)
        <4>1. todo = <<>> /\ stage # "idle"
          BY <1>1, <3>2 DEF ShapeInv
        <4> QED
          BY <4>1, TreeDone
      <3> HIDE DEF t
      <3>4. (\A n \in DOMAIN t : IsNode(t[n])) /\ WholeTree(t)
        BY <3>1, <3>3 DEF SameShape, WholeTree, IsLeaf
      <3>5. realAt \in {Nowhere, 1} => Weighed(tree')
        BY <2>2, <3>4, MeasuredWeighed, SMTT(30)
      <3> QED
        BY <2>2, <3>5 DEF WeighInv
    <2> QED
      BY <1>7, <2>1, <2>2 DEF AdjustTree
  <1>8. CASE \/ Bisect \/ Walk \/ TurnWalk \/ ReturnTree \/ GenerateDefaults \/ SampleOneBig
             \/ EndPicWall \/ FilterGrids \/ Returned \/ UNCHANGED vars
    BY <1>3, <1>8 DEF Bisect, Walk, TurnWalk, ReturnTree, GenerateDefaults, SampleOneBig,
       EndPicWall, FilterGrids, Returned, vars, picWallVars, countVars
  <1> QED
    BY <1>4, <1>5, <1>6, <1>7, <1>8 DEF Next, PicWallRuns, PicWallStep

\* A product on its own scale.
LEMMA TimesIs ==
  ASSUME NEW d \in Nat \ {0}, NEW a, NEW b, NEW x, NEW y, Is(a, x, d), Is(b, y, d)
  PROVE  /\ Is(Times(a, b), x * y, d * d)
         /\ \A z : Is(Times(a, b), z, d) => z * d = x * y
  <1> DEFINE e == d * d
             u == d * x
             v == d * y
             p == x * y
  <1>1. x \in Int /\ y \in Int /\ p \in Int /\ e \in Nat \ {0}
    BY DEF Is
  <1>2. p * e = u * v
    BY <1>1
  <1>3. Is(a, u, e) /\ Is(b, v, e)
    BY FinerNum
  <1> HIDE DEF e, u, v, p
  <1>4. Is(Times(a, b), p, e)
    BY <1>1, <1>2, <1>3, TimesNum
  <1>5. ASSUME NEW z, Is(Times(a, b), z, d) PROVE z * d = p
    <2> DEFINE w == d * z
    <2>1. Is(Times(a, b), w, e)
      BY <1>5, FinerNum DEF e
    <2>2. z \in Int /\ w = z * d
      BY <1>5 DEF Is
    <2> HIDE DEF w
    <2>3. w = p
      BY <1>1, <1>4, <2>1, SameNum
    <2> QED
      BY <2>2, <2>3
  <1> QED
    BY <1>4, <1>5 DEF e, p

\* A quotient.
LEMMA OverIs ==
  ASSUME NEW d \in Nat \ {0}, NEW a, NEW b, NEW x, NEW y, Is(a, x, d), Is(b, y, d), y > 0,
         NEW z, Is(Over(a, b), z, d)
  PROVE  z * y = x * d
  <1> DEFINE e == y * d
             u == y * x
             v == y * y
             p == x * d
             w == y * z
  <1>1. x \in Int /\ y \in Nat \ {0} /\ z \in Int /\ p \in Int /\ e \in Nat \ {0} /\ v > 0
    BY DEF Is
  <1>2. p * v = u * e
    BY <1>1
  <1>3. Is(a, u, e) /\ Is(b, v, e) /\ Is(Over(a, b), w, e)
    BY <1>1, FinerNum
  <1>4. w = z * y
    BY <1>1
  <1> HIDE DEF e, u, v, p, w
  <1>5. Is(Over(a, b), p, e)
    BY <1>1, <1>2, <1>3, OverNum
  <1>6. w = p
    BY <1>1, <1>3, <1>5, SameNum
  <1> QED
    BY <1>4, <1>6 DEF p

\* The operations on positive fractions.
LEMMA PositivesMade ==
  ASSUME NEW a \in Positives, NEW b \in Positives
  PROVE  Plus(a, b) \in Positives /\ Times(a, b) \in Positives /\ Over(a, b) \in Positives
  <1>1. PICK a1 \in Nat \ {0}, a2 \in Nat \ {0} : a = <<a1, a2>>
    BY DEF Positives
  <1>2. PICK b1 \in Nat \ {0}, b2 \in Nat \ {0} : b = <<b1, b2>>
    BY DEF Positives
  <1>3. ASSUME NEW n \in Nat \ {0}, NEW d \in Nat \ {0} PROVE Frac(n, d) \in Positives
    <2>1. Frac(n, d) \in Rationals /\ Frac(n, d)[1] > 0
      BY FracExact
    <2> QED
      BY <2>1 DEF Rationals, Positives
  <1> DEFINE s == a1 * b2 + b1 * a2
             k == a2 * b2
             t == a1 * b1
             o == a1 * b2
             l == a2 * b1
  <1>4. /\ s \in Nat \ {0} /\ k \in Nat \ {0} /\ t \in Nat \ {0} /\ o \in Nat \ {0}
        /\ l \in Nat \ {0}
    OBVIOUS
  <1>5. Plus(a, b) = Frac(s, k) /\ Times(a, b) = Frac(t, k) /\ Over(a, b) = Frac(o, l)
    BY <1>1, <1>2 DEF Plus, Times, Over
  <1> HIDE DEF s, k, t, o, l
  <1> QED
    BY <1>3, <1>4, <1>5

\* On a scale they are positive.
LEMMA PositiveNum ==
  ASSUME NEW d \in Nat \ {0}, NEW a \in Positives, NEW x, Is(a, x, d)
  PROVE  x \in Nat \ {0}
  <1>1. /\ a[1] \in Nat \ {0} /\ a[2] \in Nat \ {0} /\ x \in Int
        /\ a[1] * d = x * a[2]
    BY DEF Is, Positives
  <1> DEFINE l == a[1] * d
             n == a[2]
  <1>2. l > 0 /\ n \in Nat \ {0} /\ l = x * n
    BY <1>1
  <1> HIDE DEF l, n
  <1>3. ~(x <= 0)
    BY <1>1, <1>2
  <1> QED
    BY <1>1, <1>3

\* The ratio of two parts, on a scale.
LEMMA MixedIs ==
  ASSUME NEW d \in Nat \ {0}, NEW a \in Positives, NEW b \in Positives, NEW x, NEW y,
         Is(a, x, d), Is(b, y, d), NEW type, NEW z, Is(Mixed(type, a, b), z, d)
  PROVE  IF type = "V" THEN z = x + y ELSE z * (x + y) = x * y
  <1> DEFINE s == x + y
             p == x * y
             e == d * d
             c == Plus(a, b)
             t == Times(a, b)
  <1>1. x \in Nat \ {0} /\ y \in Nat \ {0} /\ z \in Int
    BY PositiveNum DEF Is
  <1>2. s \in Nat \ {0} /\ p \in Int /\ e \in Nat \ {0}
    BY <1>1
  <1>3. Is(c, s, d)
    BY PlusNum
  <1>4. CASE type = "V"
    <2>1. Is(c, z, d)
      BY <1>4 DEF Mixed, Beside
    <2> HIDE DEF c, s
    <2>2. z = s
      BY <1>2, <1>3, <2>1, SameNum
    <2> QED
      BY <1>4, <2>2 DEF s
  <1>5. CASE type # "V"
    <2> DEFINE u == d * s
               w == d * z
    <2>1. Is(Over(t, c), z, d)
      BY <1>5 DEF Mixed, Stacked
    <2>2. Is(t, p, e)
      BY TimesIs
    <2>3. u \in Int /\ u > 0
      BY <1>2
    <2> HIDE DEF c, t, s, p
    <2>4. Is(c, u, e) /\ Is(Over(t, c), w, e)
      BY <1>2, <1>3, <2>1, FinerNum
    <2>5. w * u = p * e
      <3> HIDE DEF e, u, w
      <3> QED
        BY <1>2, <2>2, <2>3, <2>4, OverIs
    <2> DEFINE zs == z * s
    <2>6. w * u = zs * e /\ zs \in Int
      BY <1>1, <1>2
    <2> HIDE DEF w, u, e, zs
    <2>7. zs = p
      BY <1>2, <2>5, <2>6, CancelEq
    <2> QED
      BY <1>5, <2>7 DEF zs, s, p
  <1> QED
    BY <1>4, <1>5

\* All ratios of a weighed tree are positive if those of its leaves are: from the largest
\* number down.
LEMMA RatiosPositive ==
  ASSUME NEW t, WholeTree(t), Weighed(t), \A n \in Leaves(t) : t[n].actual \in Positives
  PROVE  \A n \in DOMAIN t : t[n].actual \in Positives
  <1>1. PICK b \in Nat : \A n \in DOMAIN t : n <= b
    BY DEF WholeTree
  <1>2. \A n \in DOMAIN t : /\ n \in Nat \ {0} /\ n <= b
                            /\ ~IsLeaf(t, n) => 2 * n \in DOMAIN t /\ 2 * n + 1 \in DOMAIN t
    BY <1>1 DEF WholeTree
  <1> DEFINE Good(n) == t[n].actual \in Positives
             P == {k \in Nat : \A n \in DOMAIN t : n > b - k => Good(n)}
  <1>3. 0 \in P
    BY <1>1, <1>2
  <1>4. ASSUME NEW k \in 0..(b - 1), k \in P PROVE k + 1 \in P
    <2>1. k + 1 \in Nat
      OBVIOUS
    <2>2. ASSUME NEW n \in DOMAIN t, n > b - (k + 1) PROVE Good(n)
      <3>1. CASE IsLeaf(t, n)
        BY <3>1 DEF Leaves
      <3>2. CASE ~IsLeaf(t, n)
        <4> DEFINE l == 2 * n
                   h == 2 * n + 1
                   x == t[l].actual
                   y == t[h].actual
        <4>1. n \in Nat /\ n > 0 /\ l \in DOMAIN t /\ h \in DOMAIN t
          BY <1>2, <3>2
        <4>2. l > b - k /\ h > b - k
          BY <1>1, <2>2, <4>1
        <4>3. t[n].actual = Mixed(t[n].type, x, y)
          BY <3>2 DEF Weighed
        <4> HIDE DEF l, h
        <4>4. x \in Positives /\ y \in Positives
          BY <1>4, <4>1, <4>2
        <4> HIDE DEF x, y
        <4>5. Plus(x, y) \in Positives /\ Times(x, y) \in Positives
          BY <4>4, PositivesMade
        <4>6. Over(Times(x, y), Plus(x, y)) \in Positives
          BY <4>5, PositivesMade
        <4> QED
          BY <4>3, <4>5, <4>6 DEF Mixed, Beside, Stacked
      <3> QED
        BY <3>1, <3>2
    <2> HIDE DEF Good
    <2> QED
      BY <2>1, <2>2
  <1> HIDE DEF P
  <1>5. b \in P
    BY <1>1, <1>3, <1>4, Climb
  <1>6. \A n \in DOMAIN t : n > b - b
    BY <1>1, <1>2
  <1> QED
    BY <1>5, <1>6 DEF P

-----------------------------------------------------------------------------
(*****************************************************************************)
(* The equation of the layout                                                *)
(*****************************************************************************)

\* The rectangle of a child of a node with the rectangle u and the cut type, whose first
\* child has the ratio a.
ChildRect(u, a, type, first) ==
  LET w == Times(u.h, a)
      h == Over(u.w, a)
  IN IF type = "V"
     THEN [u EXCEPT !.x = IF first THEN @ ELSE Plus(@, w), !.w = IF first THEN w ELSE Minus(@, w)]
     ELSE [u EXCEPT !.y = IF first THEN @ ELSE Plus(@, h), !.h = IF first THEN h ELSE Minus(@, h)]

\* The equation of ChildLayoutRects' function.
RectAt(f, t, n) ==
  IF n = 1 THEN Rect(Zero, Zero, One, Recip(t[1].actual))
  ELSE ChildRect(f[n \div 2], t[2 * (n \div 2)].actual, t[n \div 2].type, n % 2 = 0)
Laid(f, t) == f = [n \in DOMAIN t |-> RectAt(f, t, n)]

\* It has a solution: from the root down.
LEMMA LaidExists ==
  ASSUME NEW t, WholeTree(t)
  PROVE  \E f : Laid(f, t)
  <1>1. PICK b \in Nat : \A n \in DOMAIN t : n <= b
    BY DEF WholeTree
  <1>2. \A n \in DOMAIN t : /\ n \in Nat /\ n > 0 /\ n <= b
                            /\ n # 1 => n \div 2 \in DOMAIN t
    BY <1>1 DEF WholeTree
  <1> DEFINE E == DOMAIN t
             D(k) == {n \in E : n <= k}
             P == {k \in Nat : \E f : f = [n \in D(k) |-> RectAt(f, t, n)]}
  <1>3. 0 \in P
    <2> DEFINE f == [n \in D(0) |-> 0]
    <2>1. D(0) = {}
      BY <1>1, <1>2
    <2>2. f = [n \in D(0) |-> RectAt(f, t, n)]
      <3> HIDE DEF D
      <3> QED
        BY <2>1, Zenon
    <2> HIDE DEF f, D
    <2> QED
      BY <2>2
  <1>4. ASSUME NEW k \in 0..(b - 1), k \in P PROVE k + 1 \in P
    <2>0. /\ k \in Nat /\ k + 1 \in Nat
          /\ D(k) \subseteq D(k + 1)
          /\ \A n \in D(k + 1) : n # 1 => n \div 2 \in D(k)
      <3>1. k \in Nat /\ k + 1 \in Nat
        BY <1>1
      <3>2. ASSUME NEW n \in D(k) PROVE n \in D(k + 1)
        BY <1>2, <3>1
      <3>3. ASSUME NEW n \in D(k + 1), n # 1 PROVE n \div 2 \in D(k)
        <4>1. n \in Nat /\ n > 0 /\ n <= k + 1 /\ n \div 2 \in E
          BY <1>2, <3>3
        <4>2. n \div 2 <= k
          BY <3>1, <3>3, <4>1
        <4> QED
          BY <4>1, <4>2
      <3> QED
        BY <3>1, <3>2, <3>3
    <2> DEFINE d == D(k)
               e == D(k + 1)
    <2>1. PICK f : f = [n \in d |-> RectAt(f, t, n)]
      <3> HIDE DEF D
      <3> QED
        BY <1>4
    <2>2. d \subseteq e /\ \A n \in e : n # 1 => n \div 2 \in d
      BY <2>0
    <2> HIDE DEF d, e
    <2> DEFINE g == [n \in e |-> IF n \in d THEN f[n] ELSE RectAt(f, t, n)]
    <2>3. \A n \in d : g[n] = f[n]
      BY <2>2
    <2>4. \A n \in d : f[n] = RectAt(f, t, n)
      BY <2>1
    <2>5. \A n \in e : g[n] = RectAt(f, t, n)
      BY <2>4
    <2>6. \A n \in e : RectAt(g, t, n) = RectAt(f, t, n)
      <3> HIDE DEF g
      <3> SUFFICES ASSUME NEW n \in e PROVE RectAt(g, t, n) = RectAt(f, t, n)
        OBVIOUS
      <3>1. n # 1 => g[n \div 2] = f[n \div 2]
        BY <2>2, <2>3
      <3> QED
        BY <3>1, Zenon DEF RectAt
    <2>7. g = [n \in e |-> RectAt(g, t, n)]
      <3>1. g = [n \in e |-> g[n]]
        BY Zenon
      <3> HIDE DEF g
      <3> QED
        BY <2>5, <2>6, <3>1, Zenon
    <2> HIDE DEF g, D
    <2> QED
      BY <2>0, <2>7 DEF e
  <1> HIDE DEF P
  <1>5. b \in P
    BY <1>1, <1>3, <1>4, Climb
  <1>6. D(b) = DOMAIN t
    BY <1>1
  <1> HIDE DEF D
  <1>7. \E f : f = [n \in D(b) |-> RectAt(f, t, n)]
    BY <1>5 DEF P
  <1> QED
    BY <1>6, <1>7, Zenon DEF Laid

\* calculateChildLayoutRectAt solves it.
LEMMA LayoutIs ==
  ASSUME NEW t, WholeTree(t)
  PROVE  Laid(ChildLayoutRects(t), t)
  <1> DEFINE Body(f, n) ==
               LET up == f[n \div 2]
                   w == Times(up.h, t[2 * (n \div 2)].actual)
                   h == Over(up.w, t[2 * (n \div 2)].actual)
                   first == n % 2 = 0
               IN IF n = 1 THEN [x |-> Zero, y |-> Zero, w |-> One, h |-> Recip(t[1].actual)]
                  ELSE IF t[n \div 2].type = "V"
                  THEN [up EXCEPT !.x = IF first THEN @ ELSE Plus(@, w),
                                  !.w = IF first THEN w ELSE Minus(@, w)]
                  ELSE [up EXCEPT !.y = IF first THEN @ ELSE Plus(@, h),
                                  !.h = IF first THEN h ELSE Minus(@, h)]
             r == CHOOSE f : f = [n \in DOMAIN t |-> Body(f, n)]
  <1>1. ChildLayoutRects(t) = r
    BY Zenon DEF ChildLayoutRects
  <1>2. \A f, n : Body(f, n) = RectAt(f, t, n)
    BY Zenon DEF RectAt, ChildRect, Rect
  <1>3. PICK f : Laid(f, t)
    BY LaidExists
  <1> HIDE DEF Body
  <1>4. f = [n \in DOMAIN t |-> Body(f, n)]
    BY <1>2, <1>3, Zenon DEF Laid
  <1>5. r = [n \in DOMAIN t |-> Body(r, n)]
    BY <1>4, Zenon
  <1> HIDE DEF r
  <1> QED
    BY <1>1, <1>2, <1>5, Zenon DEF Laid

\* Rectangles whose coordinates are fractions.
FracRects == [x : Rationals, y : Rationals, w : Rationals, h : Rationals]

\* The rectangles of the two children.
LEMMA ChildRectIs ==
  ASSUME NEW u \in FracRects, NEW a \in Positives
  PROVE  LET w == Times(u.h, a)
             h == Over(u.w, a)
         IN /\ ChildRect(u, a, "V", TRUE) = Rect(u.x, u.y, w, u.h)
            /\ ChildRect(u, a, "V", FALSE) = Rect(Plus(u.x, w), u.y, Minus(u.w, w), u.h)
            /\ \A type : type # "V" =>
                 /\ ChildRect(u, a, type, TRUE) = Rect(u.x, u.y, u.w, h)
                 /\ ChildRect(u, a, type, FALSE) = Rect(u.x, Plus(u.y, h), u.w, Minus(u.h, h))
            /\ \A type, first : first \in BOOLEAN => ChildRect(u, a, type, first) \in FracRects
  <1> DEFINE w == Times(u.h, a)
             h == Over(u.w, a)
  <1>1. u.x \in Rationals /\ u.y \in Rationals /\ u.w \in Rationals /\ u.h \in Rationals
        /\ u = Rect(u.x, u.y, u.w, u.h)
    BY DEF FracRects, Rect
  <1>2. a \in Rationals /\ a[1] # 0
    BY DEF Positives, Rationals
  <1>3. w \in Rationals /\ h \in Rationals
    BY <1>1, <1>2, FractionsMade
  <1>4. /\ Plus(u.x, w) \in Rationals /\ Minus(u.w, w) \in Rationals
        /\ Plus(u.y, h) \in Rationals /\ Minus(u.h, h) \in Rationals
    BY <1>1, <1>3, FractionsMade
  <1>5. ASSUME NEW p, NEW q
        PROVE  /\ [u EXCEPT !.x = p, !.w = q] = Rect(p, u.y, q, u.h)
               /\ [u EXCEPT !.y = p, !.h = q] = Rect(u.x, p, u.w, q)
    <2>0. PICK x1 \in Rationals, y1 \in Rationals, w1 \in Rationals, h1 \in Rationals :
            u = Rect(x1, y1, w1, h1)
      BY <1>1
    <2>1. [u EXCEPT !.x = p] = Rect(p, y1, w1, h1) /\ [u EXCEPT !.y = p] = Rect(x1, p, w1, h1)
      BY <2>0 DEF Rect
    <2>2. /\ [Rect(p, y1, w1, h1) EXCEPT !.w = q] = Rect(p, y1, q, h1)
          /\ [Rect(x1, p, w1, h1) EXCEPT !.h = q] = Rect(x1, p, w1, q)
      BY DEF Rect
    <2>3. [u EXCEPT !.x = p, !.w = q] = Rect(p, y1, q, h1)
      BY <2>0, <2>1, <2>2 DEF Rect
    <2>4. [u EXCEPT !.y = p, !.h = q] = Rect(x1, p, w1, q)
      BY <2>0, <2>1, <2>2 DEF Rect
    <2>5. u.x = x1 /\ u.y = y1 /\ u.w = w1 /\ u.h = h1
      BY <2>0 DEF Rect
    <2> QED
      BY <2>3, <2>4, <2>5
  <1> HIDE DEF w, h
  <1>6. ASSUME NEW type, NEW first
        PROVE  ChildRect(u, a, type, first) =
                 IF type = "V"
                 THEN Rect(IF first THEN u.x ELSE Plus(u.x, w), u.y, IF first THEN w ELSE Minus(u.w, w), u.h)
                 ELSE Rect(u.x, IF first THEN u.y ELSE Plus(u.y, h), u.w, IF first THEN h ELSE Minus(u.h, h))
    <2>1. ChildRect(u, a, type, first) =
            IF type = "V"
            THEN [u EXCEPT !.x = IF first THEN u.x ELSE Plus(u.x, w),
                           !.w = IF first THEN w ELSE Minus(u.w, w)]
            ELSE [u EXCEPT !.y = IF first THEN u.y ELSE Plus(u.y, h),
                           !.h = IF first THEN h ELSE Minus(u.h, h)]
      BY Zenon DEF ChildRect, w, h
    <2> QED
      BY <1>5, <2>1, Zenon
  <1>7. \A p \in Rationals, q \in Rationals, r \in Rationals, s \in Rationals :
          Rect(p, q, r, s) \in FracRects
    BY DEF Rect, FracRects
  <1>8. ASSUME NEW type, NEW first \in BOOLEAN PROVE ChildRect(u, a, type, first) \in FracRects
    <2>1. CASE type = "V" /\ first
      <3>1. ChildRect(u, a, type, first) = Rect(u.x, u.y, w, u.h)
        BY <1>6, <2>1, Zenon
      <3> QED
        BY <1>1, <1>3, <1>7, <3>1
    <2>2. CASE type = "V" /\ ~first
      <3>1. ChildRect(u, a, type, first) = Rect(Plus(u.x, w), u.y, Minus(u.w, w), u.h)
        BY <1>6, <2>2, Zenon
      <3> QED
        BY <1>1, <1>4, <1>7, <3>1
    <2>3. CASE type # "V" /\ first
      <3>1. ChildRect(u, a, type, first) = Rect(u.x, u.y, u.w, h)
        BY <1>6, <2>3, Zenon
      <3> QED
        BY <1>1, <1>3, <1>7, <3>1
    <2>4. CASE type # "V" /\ ~first
      <3>1. ChildRect(u, a, type, first) = Rect(u.x, Plus(u.y, h), u.w, Minus(u.h, h))
        BY <1>6, <2>4, Zenon
      <3> QED
        BY <1>1, <1>4, <1>7, <3>1
    <2> QED
      BY <2>1, <2>2, <2>3, <2>4
  <1>9. /\ ChildRect(u, a, "V", TRUE) = Rect(u.x, u.y, w, u.h)
        /\ ChildRect(u, a, "V", FALSE) = Rect(Plus(u.x, w), u.y, Minus(u.w, w), u.h)
    BY <1>6, Zenon
  <1>10. \A type : type # "V" =>
           /\ ChildRect(u, a, type, TRUE) = Rect(u.x, u.y, u.w, h)
           /\ ChildRect(u, a, type, FALSE) = Rect(u.x, Plus(u.y, h), u.w, Minus(u.h, h))
    BY <1>6, Zenon
  <1> QED
    BY <1>8, <1>9, <1>10 DEF w, h

\* The children of a node are laid out in its rectangle.
LEMMA LaidChildren ==
  ASSUME NEW t, WholeTree(t), NEW f, Laid(f, t), NEW n \in DOMAIN t, ~IsLeaf(t, n)
  PROVE  /\ f[2 * n] = ChildRect(f[n], t[2 * n].actual, t[n].type, TRUE)
         /\ f[2 * n + 1] = ChildRect(f[n], t[2 * n].actual, t[n].type, FALSE)
  <1> DEFINE l == 2 * n
             h == 2 * n + 1
  <1>1. /\ n \in Nat \ {0} /\ l \in DOMAIN t /\ h \in DOMAIN t
        /\ \A m \in DOMAIN t : f[m] = RectAt(f, t, m)
    BY DEF WholeTree, Laid
  <1>2. /\ l # 1 /\ h # 1 /\ l \div 2 = n /\ h \div 2 = n /\ 2 * (l \div 2) = l /\ 2 * (h \div 2) = l
        /\ (l % 2 = 0) = TRUE /\ (h % 2 = 0) = FALSE
    BY <1>1
  <1> HIDE DEF l, h
  <1>3. RectAt(f, t, l) = ChildRect(f[n], t[l].actual, t[n].type, TRUE)
    <2>1. RectAt(f, t, l) = ChildRect(f[l \div 2], t[2 * (l \div 2)].actual, t[l \div 2].type, l % 2 = 0)
      BY <1>2, Zenon DEF RectAt
    <2> QED
      BY <1>2, <2>1, Zenon
  <1>4. RectAt(f, t, h) = ChildRect(f[n], t[l].actual, t[n].type, FALSE)
    <2>1. RectAt(f, t, h) = ChildRect(f[h \div 2], t[2 * (h \div 2)].actual, t[h \div 2].type, h % 2 = 0)
      BY <1>2, Zenon DEF RectAt
    <2> QED
      BY <1>2, <2>1, Zenon
  <1> QED
    BY <1>1, <1>3, <1>4 DEF l, h

\* The rectangle of the root.
LEMMA LaidRoot ==
  ASSUME NEW t, WholeTree(t), NEW f, Laid(f, t), t[1].actual \in Positives
  PROVE  /\ f[1] = Rect(Zero, Zero, One, Recip(t[1].actual))
         /\ f[1] \in FracRects
  <1>1. f[1] = RectAt(f, t, 1)
    BY DEF Laid, WholeTree
  <1>2. f[1] = Rect(Zero, Zero, One, Recip(t[1].actual))
    BY <1>1, Zenon DEF RectAt
  <1>3. Zero \in Rationals /\ One \in Rationals /\ Recip(t[1].actual) \in Rationals
    BY PositiveRatios DEF Zero, One, Rationals
  <1> QED
    BY <1>2, <1>3 DEF Rect, FracRects

\* Every node has a rectangle: from the root down.
LEMMA RectsMade ==
  ASSUME NEW t, WholeTree(t), NEW f, Laid(f, t), \A n \in DOMAIN t : t[n].actual \in Positives
  PROVE  \A n \in DOMAIN t : f[n] \in FracRects
  <1>1. PICK b \in Nat : \A n \in DOMAIN t : n <= b
    BY DEF WholeTree
  <1> DEFINE P == {k \in Nat : \A n \in DOMAIN t : n <= k => f[n] \in FracRects}
  <1>2. \A n \in DOMAIN t : n \in Nat /\ n > 0
    BY DEF WholeTree
  <1>3. 0 \in P
    BY <1>2
  <1>4. ASSUME NEW k \in 0..(b - 1), k \in P PROVE k + 1 \in P
    <2>1. k + 1 \in Nat /\ k \in Nat
      OBVIOUS
    <2>2. ASSUME NEW n \in DOMAIN t, n <= k + 1 PROVE f[n] \in FracRects
      <3>1. CASE n = 1
        BY <2>2, <3>1, LaidRoot
      <3>2. CASE n # 1
        <4> DEFINE p == n \div 2
        <4>1. p \in DOMAIN t /\ ~IsLeaf(t, p) /\ n \in Nat /\ n > 0
          BY <1>2, <2>2, <3>2 DEF WholeTree
        <4>2. p \in Nat /\ p <= k /\ (n = 2 * p \/ n = 2 * p + 1)
          BY <2>1, <2>2, <3>2, <4>1
        <4> HIDE DEF p
        <4> DEFINE a == t[2 * p].actual
                   type == t[p].type
        <4>3. f[p] \in FracRects /\ a \in Positives
          BY <1>4, <4>1, <4>2 DEF WholeTree
        <4>4. f[n] = ChildRect(f[p], a, type, TRUE) \/ f[n] = ChildRect(f[p], a, type, FALSE)
          BY <4>1, <4>2, LaidChildren
        <4> HIDE DEF a, type
        <4> QED
          BY <4>3, <4>4, ChildRectIs
      <3> QED
        BY <3>1, <3>2
    <2> QED
      BY <2>1, <2>2
  <1> HIDE DEF P
  <1>5. b \in P
    BY <1>1, <1>3, <1>4, Climb
  <1> QED
    BY <1>1, <1>5 DEF P

\* Two scales have a common one.
LEMMA TwoScales ==
  ASSUME NEW d \in Nat \ {0}, NEW e \in Nat \ {0}
  PROVE  /\ d * e \in Nat \ {0}
         /\ \A a : On(a, d) \/ On(a, e) => On(a, d * e)
  <1>1. ASSUME NEW a, On(a, d) PROVE On(a, d * e)
    <2>1. PICK x : Is(a, x, d)
      BY <1>1 DEF On
    <2>2. Is(a, e * x, e * d) /\ e * d = d * e
      BY <2>1, FinerNum
    <2> QED
      BY <2>2 DEF On
  <1>2. ASSUME NEW a, On(a, e) PROVE On(a, d * e)
    <2>1. PICK x : Is(a, x, e)
      BY <1>2 DEF On
    <2>2. Is(a, d * x, d * e)
      BY <2>1, FinerNum
    <2> QED
      BY <2>2 DEF On
  <1> QED
    BY <1>1, <1>2

\* So have the fractions of finitely many nodes.
LEMMA NodeScale ==
  ASSUME NEW t, WholeTree(t), NEW f, \A n \in DOMAIN t : f[n] \in Rationals
  PROVE  \E d \in Nat \ {0} : \A n \in DOMAIN t : On(f[n], d)
  <1>1. PICK b \in Nat : \A n \in DOMAIN t : n <= b
    BY DEF WholeTree
  <1>2. \A n \in DOMAIN t : n \in 1..b
    BY <1>1 DEF WholeTree
  <1> DEFINE g == [i \in 1..b |-> IF i \in DOMAIN t THEN f[i] ELSE Zero]
  <1>3. \A i \in 1..b : g[i] \in Rationals
    BY DEF Zero, Rationals
  <1>4. \A n \in DOMAIN t : g[n] = f[n]
    BY <1>2
  <1> HIDE DEF g
  <1>5. PICK d \in Nat \ {0} : \A i \in 1..b : On(g[i], d)
    BY <1>1, <1>3, OneScale
  <1> QED
    BY <1>2, <1>4, <1>5

\* A scale for the ratios and the rectangles of all nodes.
LEMMA TreeScale ==
  ASSUME NEW t, WholeTree(t), NEW f, \A n \in DOMAIN t : f[n] \in FracRects,
         \A n \in DOMAIN t : t[n].actual \in Positives
  PROVE  \E d \in Nat \ {0} : \A n \in DOMAIN t :
           /\ On(t[n].actual, d)
           /\ On(f[n].x, d) /\ On(f[n].y, d) /\ On(f[n].w, d) /\ On(f[n].h, d)
  <1> DEFINE fa == [n \in DOMAIN t |-> t[n].actual]
             fx == [n \in DOMAIN t |-> f[n].x]
             fy == [n \in DOMAIN t |-> f[n].y]
             fw == [n \in DOMAIN t |-> f[n].w]
             fh == [n \in DOMAIN t |-> f[n].h]
  <1>1. \A n \in DOMAIN t : /\ fx[n] \in Rationals /\ fy[n] \in Rationals
                            /\ fw[n] \in Rationals /\ fh[n] \in Rationals
    BY DEF FracRects
  <1>2. \A n \in DOMAIN t : fa[n] \in Rationals
    BY DEF Positives, Rationals
  <1>3. \A n \in DOMAIN t : fa[n] = t[n].actual /\ fx[n] = f[n].x /\ fy[n] = f[n].y
                            /\ fw[n] = f[n].w /\ fh[n] = f[n].h
    OBVIOUS
  <1> HIDE DEF fa, fx, fy, fw, fh
  <1>4. PICK d1 \in Nat \ {0} : \A n \in DOMAIN t : On(fa[n], d1)
    BY <1>2, NodeScale
  <1>5. PICK d2 \in Nat \ {0} : \A n \in DOMAIN t : On(fx[n], d2)
    BY <1>1, NodeScale
  <1>6. PICK d3 \in Nat \ {0} : \A n \in DOMAIN t : On(fy[n], d3)
    BY <1>1, NodeScale
  <1>7. PICK d4 \in Nat \ {0} : \A n \in DOMAIN t : On(fw[n], d4)
    BY <1>1, NodeScale
  <1>8. PICK d5 \in Nat \ {0} : \A n \in DOMAIN t : On(fh[n], d5)
    BY <1>1, NodeScale
  <1>9. PICK e1 \in Nat \ {0} : \A a : On(a, d1) \/ On(a, d2) => On(a, e1)
    BY TwoScales
  <1>10. PICK e2 \in Nat \ {0} : \A a : On(a, d3) \/ On(a, d4) => On(a, e2)
    BY TwoScales
  <1>11. PICK e3 \in Nat \ {0} : \A a : On(a, e1) \/ On(a, e2) => On(a, e3)
    BY TwoScales
  <1>12. PICK e4 \in Nat \ {0} : \A a : On(a, e3) \/ On(a, d5) => On(a, e4)
    BY TwoScales
  <1>13. \A n \in DOMAIN t : On(fa[n], e4) /\ On(fx[n], e4) /\ On(fy[n], e4) /\ On(fw[n], e4) /\ On(fh[n], e4)
    BY <1>4, <1>5, <1>6, <1>7, <1>8, <1>9, <1>10, <1>11, <1>12
  <1> QED
    BY <1>3, <1>13

-----------------------------------------------------------------------------
(*****************************************************************************)
(* The layout on a scale                                                     *)
(*****************************************************************************)

\* A and B, apart, make up C.
Halve(A, B, C) ==
  Within(A, C) /\ Within(B, C) /\ Apart(A, B) /\ Area(A) + Area(B) = Area(C)

\* Cut from top to bottom.
LEMMA HalveBeside ==
  ASSUME NEW x \in Int, NEW y \in Int, NEW w \in Nat \ {0}, NEW v \in Nat \ {0}, NEW h \in Nat \ {0}
  PROVE  Halve(Rect(x, y, w, h), Rect(x + w, y, v, h), Rect(x, y, w + v, h))
  <1>1. (w + v) * h = w * h + v * h
    OBVIOUS
  <1>2. x + w <= x + (w + v) /\ x + w + v <= x + (w + v) /\ x <= x + w
    OBVIOUS
  <1> QED
    BY <1>1, <1>2 DEF Halve, Within, Apart, Area, Rect

\* Cut from side to side.
LEMMA HalveStacked ==
  ASSUME NEW x \in Int, NEW y \in Int, NEW w \in Nat \ {0}, NEW h \in Nat \ {0}, NEW g \in Nat \ {0}
  PROVE  Halve(Rect(x, y, w, h), Rect(x, y + h, w, g), Rect(x, y, w, h + g))
  <1>1. w * (h + g) = w * h + w * g
    OBVIOUS
  <1>2. y + h <= y + (h + g) /\ y + h + g <= y + (h + g) /\ y <= y + h
    OBVIOUS
  <1> QED
    BY <1>1, <1>2 DEF Halve, Within, Apart, Area, Rect

\* What a rectangle is drawn as.
LEMMA RectDrawn ==
  ASSUME NEW x, NEW y, NEW w, NEW h, NEW a, NEW d, DrawnAs(Rect(x, y, w, h), a, d)
  PROVE  Is(x, a.x, d) /\ Is(y, a.y, d) /\ Is(w, a.w, d) /\ Is(h, a.h, d)
  <1>1. /\ Rect(x, y, w, h).x = x /\ Rect(x, y, w, h).y = y
        /\ Rect(x, y, w, h).w = w /\ Rect(x, y, w, h).h = h
    BY DEF Rect
  <1> QED
    BY <1>1 DEF DrawnAs

\* calculateChildLayoutRectAt, on a scale: two children with the ratios of their parts share
\* out the rectangle of a node with the ratio of the whole, and fit their ratios in turn.
LEMMA ChildrenNum ==
  ASSUME NEW d \in Nat \ {0}, NEW u \in FracRects, NEW U \in Rects, DrawnAs(u, U, d),
         NEW a \in Positives, NEW b \in Positives, NEW type, NEW x, NEW y, NEW z,
         Is(a, x, d), Is(b, y, d), Is(Mixed(type, a, b), z, d),
         U.w * d = U.h * z,
         NEW L, DrawnAs(ChildRect(u, a, type, TRUE), L, d), L = Rect(L.x, L.y, L.w, L.h),
         NEW R, DrawnAs(ChildRect(u, a, type, FALSE), R, d), R = Rect(R.x, R.y, R.w, R.h)
  PROVE  /\ L \in Rects /\ L.w * d = L.h * x
         /\ R \in Rects /\ R.w * d = R.h * y
         /\ Halve(L, R, U)
  <1> DEFINE X == U.x
             Y == U.y
             W == U.w
             H == U.h
             p == L.w
             q == R.w
             g == L.h
             k == R.h
  <1>1. /\ x \in Nat \ {0} /\ y \in Nat \ {0} /\ z \in Int
        /\ IF type = "V" THEN z = x + y ELSE z * (x + y) = x * y
    <2>1. z \in Int
      BY DEF Is
    <2>2. x \in Nat \ {0} /\ y \in Nat \ {0}
      BY PositiveNum
    <2>3. IF type = "V" THEN z = x + y ELSE z * (x + y) = x * y
      BY MixedIs
    <2> QED
      BY <2>1, <2>2, <2>3
  <1>2. /\ X \in Int /\ Y \in Int /\ W \in Nat \ {0} /\ H \in Nat \ {0}
        /\ U = Rect(X, Y, W, H) /\ W * d = H * z
    BY DEF Rects, Rect
  <1>3. Is(u.x, X, d) /\ Is(u.y, Y, d) /\ Is(u.w, W, d) /\ Is(u.h, H, d)
    BY DEF DrawnAs
  <1>4. p \in Int /\ q \in Int /\ g \in Int /\ k \in Int /\ L.x \in Int /\ L.y \in Int
        /\ R.x \in Int /\ R.y \in Int
    BY DEF DrawnAs, Is
  <1>5. CASE type = "V"
    <2> DEFINE w == Times(u.h, a)
    <2>1. /\ ChildRect(u, a, type, TRUE) = Rect(u.x, u.y, w, u.h)
          /\ ChildRect(u, a, type, FALSE) = Rect(Plus(u.x, w), u.y, Minus(u.w, w), u.h)
      BY <1>5, ChildRectIs
    <2> HIDE DEF w
    <2>2. Is(u.x, L.x, d) /\ Is(u.y, L.y, d) /\ Is(w, p, d) /\ Is(u.h, g, d)
      <3>1. DrawnAs(Rect(u.x, u.y, w, u.h), L, d)
        BY <2>1, Zenon
      <3> QED
        BY <3>1, RectDrawn DEF p, q, g, k
    <2>3. Is(Plus(u.x, w), R.x, d) /\ Is(u.y, R.y, d) /\ Is(Minus(u.w, w), q, d) /\ Is(u.h, k, d)
      <3>1. DrawnAs(Rect(Plus(u.x, w), u.y, Minus(u.w, w), u.h), R, d)
        BY <2>1, Zenon
      <3> QED
        BY <3>1, RectDrawn DEF p, q, g, k
    <2> HIDE DEF X, Y, W, H, p, q, g, k
    <2>4. L.x = X /\ L.y = Y /\ g = H /\ R.y = Y /\ k = H
      BY <1>3, <2>2, <2>3, SameNum
    <2> DEFINE s == X + p
               v == W - p
    <2>5. Is(Plus(u.x, w), s, d) /\ Is(Minus(u.w, w), v, d)
      BY <1>3, <2>2, PlusNum, MinusNum
    <2> HIDE DEF s, v
    <2>6. R.x = s /\ q = v
      BY <2>3, <2>5, SameNum
    <2>7. p * d = H * x
      BY <1>3, <2>2, TimesIs DEF w
    <2>8. q * d = H * y
      <3>1. q * d = W * d - p * d /\ H * z = H * x + H * y
        BY <1>1, <1>2, <1>4, <1>5, <2>6 DEF v
      <3> QED
        BY <1>1, <1>2, <2>7, <3>1
    <2>9. p > 0 /\ q > 0
      <3>1. H * x > 0 /\ H * y > 0
        BY <1>1, <1>2
      <3>2. \A i \in Int : i * d > 0 => i > 0
        OBVIOUS
      <3> QED
        BY <1>4, <2>7, <2>8, <3>1, <3>2
    <2>10. p \in Nat \ {0} /\ q \in Nat \ {0} /\ W = p + q
      BY <1>2, <1>4, <2>6, <2>9 DEF v
    <2>11. L = Rect(X, Y, p, H) /\ R = Rect(X + p, Y, q, H)
      BY <2>4, <2>6 DEF s, p, q, g, k
    <2>12. Halve(L, R, U)
      BY <1>2, <2>10, <2>11, HalveBeside
    <2>13. L \in Rects /\ R \in Rects
      BY <1>2, <1>4, <2>10, <2>11 DEF Rect, Rects
    <2> QED
      BY <2>4, <2>7, <2>8, <2>12, <2>13 DEF p, q, g, k
  <1>6. CASE type # "V"
    <2> DEFINE h == Over(u.w, a)
    <2>1. /\ ChildRect(u, a, type, TRUE) = Rect(u.x, u.y, u.w, h)
          /\ ChildRect(u, a, type, FALSE) = Rect(u.x, Plus(u.y, h), u.w, Minus(u.h, h))
      BY <1>6, ChildRectIs
    <2> HIDE DEF h
    <2>2. Is(u.x, L.x, d) /\ Is(u.y, L.y, d) /\ Is(u.w, p, d) /\ Is(h, g, d)
      <3>1. DrawnAs(Rect(u.x, u.y, u.w, h), L, d)
        BY <2>1, Zenon
      <3> QED
        BY <3>1, RectDrawn DEF p, q, g, k
    <2>3. Is(u.x, R.x, d) /\ Is(Plus(u.y, h), R.y, d) /\ Is(u.w, q, d) /\ Is(Minus(u.h, h), k, d)
      <3>1. DrawnAs(Rect(u.x, Plus(u.y, h), u.w, Minus(u.h, h)), R, d)
        BY <2>1, Zenon
      <3> QED
        BY <3>1, RectDrawn DEF p, q, g, k
    <2> HIDE DEF X, Y, W, H, p, q, g, k
    <2>4. L.x = X /\ L.y = Y /\ p = W /\ R.x = X /\ q = W
      BY <1>3, <2>2, <2>3, SameNum
    <2> DEFINE s == Y + g
               v == H - g
    <2>5. Is(Plus(u.y, h), s, d) /\ Is(Minus(u.h, h), v, d)
      BY <1>3, <2>2, PlusNum, MinusNum
    <2> HIDE DEF s, v
    <2>6. R.y = s /\ k = v
      BY <2>3, <2>5, SameNum
    <2>7. g * x = W * d
      <3>1. x > 0
        BY <1>1
      <3> QED
        BY <1>3, <2>2, <3>1, OverIs DEF h
    <2>8. k * y = W * d
      <3> DEFINE i == k * y
                 j == W * d
      <3>1. i * x = (H * x - g * x) * y
        BY <1>1, <1>2, <1>4, <2>6 DEF v
      <3>2. (H * x - j) * y = H * (x * y) - j * y
        BY <1>1, <1>2
      <3>3. H * (z * (x + y)) = (H * z) * (x + y)
        BY <1>1, <1>2
      <3>4. j * (x + y) - j * y = j * x
        BY <1>1, <1>2
      <3>5. i * x = j * x
        BY <1>1, <1>2, <1>6, <2>7, <3>1, <3>2, <3>3, <3>4
      <3>6. i \in Int /\ j \in Int
        BY <1>1, <1>2, <1>4
      <3> HIDE DEF i, j
      <3>7. i = j
        BY <1>1, <3>5, <3>6, CancelEq
      <3> QED
        BY <3>7 DEF i, j
    <2>9. g > 0 /\ k > 0
      <3>1. W * d > 0
        BY <1>2
      <3>2. \A i \in Int, n \in Nat \ {0} : i * n > 0 => i > 0
        OBVIOUS
      <3> QED
        BY <1>1, <1>4, <2>7, <2>8, <3>1, <3>2
    <2>10. g \in Nat \ {0} /\ k \in Nat \ {0} /\ H = g + k
      BY <1>2, <1>4, <2>6, <2>9 DEF v
    <2>11. L = Rect(X, Y, W, g) /\ R = Rect(X, Y + g, W, k)
      BY <2>4, <2>6 DEF s, p, q, g, k
    <2>12. Halve(L, R, U)
      BY <1>2, <2>10, <2>11, HalveStacked
    <2>13. L \in Rects /\ R \in Rects
      BY <1>2, <1>4, <2>10, <2>11 DEF Rect, Rects
    <2> QED
      BY <2>4, <2>7, <2>8, <2>12, <2>13 DEF p, q, g, k
  <1> QED
    BY <1>5, <1>6

\* A reciprocal.
LEMMA RecipIs ==
  ASSUME NEW d \in Nat \ {0}, NEW a \in Positives, NEW x, Is(a, x, d), NEW z, Is(Recip(a), z, d)
  PROVE  z * x = d * d /\ z \in Nat \ {0}
  <1> DEFINE a1 == a[1]
             a2 == a[2]
  <1>1. a1 \in Nat \ {0} /\ a2 \in Nat \ {0} /\ Recip(a) = <<a2, a1>>
    BY DEF Positives, Recip
  <1>2. x \in Int /\ z \in Int /\ a1 * d = x * a2
    BY DEF Is
  <1>3. a2 * d = z * a1
    <2>1. <<a2, a1>>[1] = a2 /\ <<a2, a1>>[2] = a1
      OBVIOUS
    <2> HIDE DEF a1, a2
    <2> QED
      BY <1>1, <2>1 DEF Is
  <1> HIDE DEF a1, a2
  <1> DEFINE l == z * x
             r == d * d
  <1>4. l \in Int /\ r \in Int /\ l * a2 = r * a2
    <2>1. l * a2 = z * (x * a2) /\ z * (a1 * d) = (z * a1) * d /\ (a2 * d) * d = r * a2
      BY <1>1, <1>2
    <2> QED
      BY <1>1, <1>2, <1>3, <2>1
  <1> HIDE DEF l, r
  <1>5. l = r
    BY <1>1, <1>4, CancelEq
  <1>6. z > 0
    <2>1. a2 * d > 0 /\ \A i \in Int : i * a1 > 0 => i > 0
      BY <1>1
    <2> QED
      BY <1>2, <1>3, <2>1
  <1> QED
    BY <1>2, <1>5, <1>6 DEF l, r

\* B are the rectangles of the nodes on the scale d.
LaidOn(B, f, t, d) ==
  /\ \A n \in DOMAIN t : B[n] \in Rects /\ DrawnAs(f[n], B[n], d)
  /\ \A n \in DOMAIN t : ~IsLeaf(t, n) => Halve(B[2 * n], B[2 * n + 1], B[n])
  /\ B[1].x = 0 /\ B[1].y = 0 /\ B[1].w = d

\* The root's fills the width, and every cut halves the rectangle of its node: from the
\* root down.
LEMMA NodesLaid ==
  ASSUME NEW t, WholeTree(t), Weighed(t), \A n \in DOMAIN t : t[n].actual \in Positives,
         NEW f, Laid(f, t)
  PROVE  \E d \in Nat \ {0} : \E B : LaidOn(B, f, t, d)
  <1>1. PICK b \in Nat : \A n \in DOMAIN t : n <= b
    BY DEF WholeTree
  <1>2. \A n \in DOMAIN t : n \in Nat /\ n > 0
    BY DEF WholeTree
  <1>3. \A n \in DOMAIN t : f[n] \in FracRects
    BY RectsMade
  <1>4. PICK d \in Nat \ {0} : \A n \in DOMAIN t :
          /\ On(t[n].actual, d)
          /\ On(f[n].x, d) /\ On(f[n].y, d) /\ On(f[n].w, d) /\ On(f[n].h, d)
    BY <1>3, TreeScale
  <1> DEFINE A(n) == Num(t[n].actual, d)
             B == [n \in DOMAIN t |-> Rect(Num(f[n].x, d), Num(f[n].y, d), Num(f[n].w, d), Num(f[n].h, d))]
  <1>5. \A n \in DOMAIN t : Is(t[n].actual, A(n), d)
    BY <1>4, NumIs
  <1>6. ASSUME NEW n \in DOMAIN t
        PROVE  DrawnAs(f[n], B[n], d) /\ B[n] = Rect(B[n].x, B[n].y, B[n].w, B[n].h)
    <2> DEFINE X == Num(f[n].x, d)
               Y == Num(f[n].y, d)
               W == Num(f[n].w, d)
               H == Num(f[n].h, d)
    <2>1. Is(f[n].x, X, d) /\ Is(f[n].y, Y, d) /\ Is(f[n].w, W, d) /\ Is(f[n].h, H, d)
      BY <1>4, NumIs
    <2>2. B[n] = Rect(X, Y, W, H)
      OBVIOUS
    <2> HIDE DEF X, Y, W, H, B
    <2>3. B[n].x = X /\ B[n].y = Y /\ B[n].w = W /\ B[n].h = H
      BY <2>2 DEF Rect
    <2> QED
      BY <2>1, <2>2, <2>3 DEF DrawnAs
  <1> HIDE DEF A, B
  <1> DEFINE Good(n) == B[n] \in Rects /\ B[n].w * d = B[n].h * A(n)
  <1>7. 1 \in DOMAIN t
    BY DEF WholeTree
  <1>8. Good(1) /\ B[1].x = 0 /\ B[1].y = 0 /\ B[1].w = d
    <2> DEFINE a == t[1].actual
               U == B[1]
    <2>1. a \in Positives /\ f[1] = Rect(Zero, Zero, One, Recip(a))
      BY <1>7, LaidRoot
    <2>2. DrawnAs(f[1], U, d) /\ U = Rect(U.x, U.y, U.w, U.h) /\ Is(a, A(1), d)
      BY <1>5, <1>6, <1>7
    <2> HIDE DEF a, U
    <2>3. DrawnAs(Rect(Zero, Zero, One, Recip(a)), U, d)
      BY <2>1, <2>2, Zenon
    <2>4. Is(Zero, U.x, d) /\ Is(Zero, U.y, d) /\ Is(One, U.w, d) /\ Is(Recip(a), U.h, d)
      BY <2>3, RectDrawn
    <2>5. U.x = 0 /\ U.y = 0 /\ U.w = d
      <3> DEFINE zero == 0
      <3>1. Is(Zero, zero, d) /\ Is(One, d, d)
        BY ZeroOneNum
      <3> HIDE DEF zero
      <3>2. U.x = zero /\ U.y = zero /\ U.w = d
        BY <2>4, <3>1, SameNum
      <3> QED
        BY <3>2 DEF zero
    <2>6. U.h * A(1) = d * d /\ U.h \in Nat \ {0}
      BY <2>1, <2>2, <2>4, RecipIs
    <2>7. U \in Rects
      BY <2>2, <2>5, <2>6 DEF Rect, Rects
    <2> QED
      BY <2>5, <2>6, <2>7 DEF U
  <1>9. ASSUME NEW n \in DOMAIN t, ~IsLeaf(t, n), Good(n)
        PROVE  Good(2 * n) /\ Good(2 * n + 1) /\ Halve(B[2 * n], B[2 * n + 1], B[n])
    <2> DEFINE l == 2 * n
               h == 2 * n + 1
               a == t[l].actual
               c == t[h].actual
               type == t[n].type
               u == f[n]
               U == B[n]
               L == B[l]
               R == B[h]
               x == A(l)
               y == A(h)
               z == A(n)
    <2>1. l \in DOMAIN t /\ h \in DOMAIN t
      BY <1>9 DEF WholeTree
    <2>2. f[l] = ChildRect(u, a, type, TRUE) /\ f[h] = ChildRect(u, a, type, FALSE)
      BY <1>9, LaidChildren
    <2>3. t[n].actual = Mixed(type, a, c)
      BY <1>9 DEF Weighed
    <2> HIDE DEF l, h, Good
    <2>4. a \in Positives /\ c \in Positives /\ u \in FracRects
      BY <1>3, <2>1
    <2>5. Is(a, x, d) /\ Is(c, y, d) /\ Is(t[n].actual, z, d)
      BY <1>5, <2>1
    <2>6. DrawnAs(u, U, d) /\ DrawnAs(f[l], L, d) /\ DrawnAs(f[h], R, d)
          /\ L = Rect(L.x, L.y, L.w, L.h) /\ R = Rect(R.x, R.y, R.w, R.h)
      BY <1>6, <2>1
    <2>7. U \in Rects /\ U.w * d = U.h * z
      BY <1>9 DEF Good
    <2> HIDE DEF a, c, type, u, U, L, R, x, y, z
    <2>8. Is(Mixed(type, a, c), z, d)
      BY <2>3, <2>5, Zenon
    <2>9. DrawnAs(ChildRect(u, a, type, TRUE), L, d) /\ DrawnAs(ChildRect(u, a, type, FALSE), R, d)
      BY <2>2, <2>6, Zenon
    <2>10. /\ L \in Rects /\ L.w * d = L.h * x
           /\ R \in Rects /\ R.w * d = R.h * y
           /\ Halve(L, R, U)
      BY <2>4, <2>5, <2>6, <2>7, <2>8, <2>9, ChildrenNum, ZenonT(60)
    <2> QED
      BY <2>10 DEF l, h, L, R, U, x, y, Good
  <1> DEFINE P == {k \in Nat : \A n \in DOMAIN t : n <= k => Good(n)}
  <1> HIDE DEF Good
  <1>10. 0 \in P
    BY <1>2
  <1>11. ASSUME NEW k \in 0..(b - 1), k \in P PROVE k + 1 \in P
    <2>1. k + 1 \in Nat /\ k \in Nat
      OBVIOUS
    <2>2. ASSUME NEW n \in DOMAIN t, n <= k + 1 PROVE Good(n)
      <3>1. CASE n = 1
        BY <1>8, <3>1
      <3>2. CASE n # 1
        <4> DEFINE p == n \div 2
        <4>1. p \in DOMAIN t /\ ~IsLeaf(t, p) /\ n \in Nat /\ n > 0
          BY <1>2, <2>2, <3>2 DEF WholeTree
        <4>2. p \in Nat /\ p <= k /\ (n = 2 * p \/ n = 2 * p + 1)
          BY <2>1, <2>2, <3>2, <4>1
        <4> HIDE DEF p
        <4>3. Good(p)
          BY <1>11, <4>1, <4>2
        <4>4. Good(2 * p) /\ Good(2 * p + 1)
          BY <1>9, <4>1, <4>3
        <4> QED
          BY <4>2, <4>4
      <3> QED
        BY <3>1, <3>2
    <2> QED
      BY <2>1, <2>2
  <1> HIDE DEF P
  <1>12. b \in P
    BY <1>1, <1>10, <1>11, Climb
  <1>13. \A n \in DOMAIN t : Good(n)
    BY <1>1, <1>12 DEF P
  <1>14. \A n \in DOMAIN t : B[n] \in Rects
    BY <1>13 DEF Good
  <1>15. \A n \in DOMAIN t : ~IsLeaf(t, n) => Halve(B[2 * n], B[2 * n + 1], B[n])
    BY <1>9, <1>13
  <1>16. LaidOn(B, f, t, d)
    BY <1>6, <1>8, <1>14, <1>15 DEF LaidOn
  <1> QED
    BY <1>16

-----------------------------------------------------------------------------
(*****************************************************************************)
(* The slots of a tree tile the canvas                                       *)
(*****************************************************************************)

\* A rectangle on a scale p times as fine across and q times as fine down.
Stretch(a, p, q) == Rect(p * a.x, q * a.y, p * a.w, q * a.h)

\* It is a rectangle again.
LEMMA StretchIs ==
  ASSUME NEW a \in Rects, NEW p \in Nat \ {0}, NEW q \in Nat \ {0}
  PROVE  /\ Stretch(a, p, q) \in Rects
         /\ Stretch(a, p, q).x = p * a.x /\ Stretch(a, p, q).y = q * a.y
         /\ Stretch(a, p, q).w = p * a.w /\ Stretch(a, p, q).h = q * a.h
         /\ Area(Stretch(a, p, q)) = (p * q) * Area(a)
  <1> DEFINE x == a.x
             y == a.y
             w == a.w
             h == a.h
             s == Stretch(a, p, q)
  <1>1. x \in Int /\ y \in Int /\ w \in Nat \ {0} /\ h \in Nat \ {0}
    BY DEF Rects
  <1>2. s.x = p * x /\ s.y = q * y /\ s.w = p * w /\ s.h = q * h
    BY DEF Stretch, Rect
  <1>3. s = Rect(p * x, q * y, p * w, q * h)
    BY DEF Stretch
  <1>4. Area(s) = s.w * s.h /\ Area(a) = w * h
    BY DEF Area
  <1> HIDE DEF x, y, w, h, s
  <1>5. p * x \in Int /\ q * y \in Int /\ p * w \in Nat \ {0} /\ q * h \in Nat \ {0}
    BY <1>1
  <1>6. s \in Rects
    BY <1>3, <1>5, SMTT(30) DEF Rects, Rect
  <1>7. (p * w) * (q * h) = (p * q) * (w * h)
    BY <1>1
  <1> QED
    BY <1>2, <1>4, <1>6, <1>7 DEF x, y, w, h, s

\* Its halves are stretched as it is.
LEMMA StretchHalve ==
  ASSUME NEW a \in Rects, NEW b \in Rects, NEW c \in Rects, Halve(a, b, c),
         NEW p \in Nat \ {0}, NEW q \in Nat \ {0}
  PROVE  Halve(Stretch(a, p, q), Stretch(b, p, q), Stretch(c, p, q))
  <1>1. ASSUME NEW i \in Int, NEW j \in Int, NEW k \in Nat \ {0}, i <= j PROVE k * i <= k * j
    BY <1>1
  <1>2. ASSUME NEW i \in Int, NEW j \in Int, NEW m \in Int, NEW k \in Nat \ {0}, i + j <= m
        PROVE  k * i + k * j <= k * m
    <2>1. k * (i + j) <= k * m
      BY <1>1, <1>2
    <2>2. k * (i + j) = k * i + k * j
      OBVIOUS
    <2> QED
      BY <2>1, <2>2
  <1>3. ASSUME NEW i \in Int, NEW j \in Int, NEW m \in Int, NEW n \in Int, NEW k \in Nat \ {0}, i + j <= m + n
        PROVE  k * i + k * j <= k * m + k * n
    <2>1. k * (i + j) <= k * (m + n)
      BY <1>1, <1>3
    <2>2. k * (i + j) = k * i + k * j /\ k * (m + n) = k * m + k * n
      OBVIOUS
    <2> QED
      BY <2>1, <2>2
  <1>4. ASSUME NEW r \in Rects, NEW s \in Rects, Within(r, s)
        PROVE  Within(Stretch(r, p, q), Stretch(s, p, q))
    <2>1. /\ r.x \in Int /\ r.y \in Int /\ r.w \in Int /\ r.h \in Int
          /\ s.x \in Int /\ s.y \in Int /\ s.w \in Int /\ s.h \in Int
      BY DEF Rects
    <2>2. p * s.x <= p * r.x /\ q * s.y <= q * r.y
      BY <1>1, <1>4, <2>1 DEF Within
    <2>3. p * r.x + p * r.w <= p * s.x + p * s.w
      BY <1>3, <1>4, <2>1 DEF Within
    <2>4. q * r.y + q * r.h <= q * s.y + q * s.h
      BY <1>3, <1>4, <2>1 DEF Within
    <2> QED
      BY <2>2, <2>3, <2>4, StretchIs, ZenonT(30) DEF Within
  <1>5. Apart(Stretch(a, p, q), Stretch(b, p, q))
    <2>1. /\ a.x \in Int /\ a.y \in Int /\ a.w \in Int /\ a.h \in Int
          /\ b.x \in Int /\ b.y \in Int /\ b.w \in Int /\ b.h \in Int
      BY DEF Rects
    <2>2. a.x + a.w <= b.x => p * a.x + p * a.w <= p * b.x
      BY <1>2, <2>1
    <2>3. b.x + b.w <= a.x => p * b.x + p * b.w <= p * a.x
      BY <1>2, <2>1
    <2>4. a.y + a.h <= b.y => q * a.y + q * a.h <= q * b.y
      BY <1>2, <2>1
    <2>5. b.y + b.h <= a.y => q * b.y + q * b.h <= q * a.y
      BY <1>2, <2>1
    <2> QED
      BY <2>2, <2>3, <2>4, <2>5, StretchIs DEF Apart, Halve
  <1>6. Area(Stretch(a, p, q)) + Area(Stretch(b, p, q)) = Area(Stretch(c, p, q))
    <2> DEFINE k == p * q
               u == Area(a)
               v == Area(b)
               w == Area(c)
    <2>1. u \in Int /\ v \in Int /\ w \in Int /\ k \in Int /\ u + v = w
      BY AreaIs DEF Halve
    <2>2. Area(Stretch(a, p, q)) = k * u /\ Area(Stretch(b, p, q)) = k * v /\ Area(Stretch(c, p, q)) = k * w
      BY StretchIs
    <2> HIDE DEF k, u, v, w
    <2>3. k * u + k * v = k * w
      BY <2>1
    <2> QED
      BY <2>2, <2>3
  <1> QED
    BY <1>4, <1>5, <1>6 DEF Halve

\* The rectangles of a list of nodes.
Boxes(s, Q) == [i \in DOMAIN s |-> Q[s[i]]]

\* The leaves share out the root's rectangle if every cut halves its node's: from the
\* largest number down.
LEMMA LeavesPacked ==
  ASSUME NEW t, WholeTree(t), NEW f, Lists(f, t), NEW Q, \A n \in DOMAIN t : Q[n] \in Rects,
         \A n \in DOMAIN t : ~IsLeaf(t, n) => Halve(Q[2 * n], Q[2 * n + 1], Q[n])
  PROVE  Packed(Boxes(f[1], Q), Len(f[1]), {Q[1]}, Area(Q[1]))
  <1>1. PICK b \in Nat : \A n \in DOMAIN t : n <= b
    BY DEF WholeTree
  <1>2. \A n \in DOMAIN t : /\ n \in Nat /\ n > 0 /\ n <= b
                            /\ ~IsLeaf(t, n) => 2 * n \in DOMAIN t /\ 2 * n + 1 \in DOMAIN t
    BY <1>1 DEF WholeTree
  <1>3. \A n \in DOMAIN t : f[n] = IF IsLeaf(t, n) THEN <<n>> ELSE f[2 * n] \o f[2 * n + 1]
    BY DEF Lists
  <1>4. \A n \in DOMAIN t : f[n] \in Seq(Leaves(t))
    BY ListedOnce
  <1> DEFINE Good(n) == Packed(Boxes(f[n], Q), Len(f[n]), {Q[n]}, Area(Q[n]))
             P == {k \in Nat : \A n \in DOMAIN t : n > b - k => Good(n)}
  <1>5. 0 \in P
    BY <1>1, <1>2
  <1>6. ASSUME NEW n \in DOMAIN t, IsLeaf(t, n) PROVE Good(n)
    <2> DEFINE s == <<n>>
               q == Boxes(s, Q)
               a == Q[n]
    <2>1. f[n] = s
      BY <1>3, <1>6
    <2>2. DOMAIN s = {1} /\ s[1] = n /\ Len(s) = 1
      OBVIOUS
    <2> HIDE DEF s
    <2>3. q[1] = a /\ a \in Rects
      BY <2>2 DEF Boxes
    <2> HIDE DEF q, a
    <2>4. Packed(q, 1, {a}, Area(a))
      BY <2>3, PackedOne
    <2> QED
      BY <2>1, <2>2, <2>4 DEF q, a
  <1>7. ASSUME NEW n \in DOMAIN t, ~IsLeaf(t, n), Good(2 * n), Good(2 * n + 1) PROVE Good(n)
    <2> DEFINE l == 2 * n
               h == 2 * n + 1
               a == f[l]
               c == f[h]
               g == a \o c
               L == Q[l]
               R == Q[h]
               U == Q[n]
               i1 == Len(a)
               i2 == Len(c)
               N == i1 + i2
               p == Boxes(a, Q)
               q == Boxes(c, Q)
               z == Boxes(g, Q)
    <2>1. l \in DOMAIN t /\ h \in DOMAIN t /\ f[n] = g
      BY <1>2, <1>3, <1>7
    <2>2. Halve(L, R, U)
      BY <1>7
    <2>3. Packed(p, i1, {L}, Area(L)) /\ Packed(q, i2, {R}, Area(R))
      BY <1>7
    <2> HIDE DEF l, h, Good
    <2>4. a \in Seq(Leaves(t)) /\ c \in Seq(Leaves(t)) /\ L \in Rects /\ R \in Rects /\ U \in Rects
      BY <1>4, <2>1
    <2> HIDE DEF a, c, L, R, U
    <2>5. Len(g) = Len(a) + Len(c) /\ g \in Seq(Leaves(t))
          /\ \A i \in 1..(Len(a) + Len(c)) : g[i] = IF i <= Len(a) THEN a[i] ELSE c[i - Len(a)]
      BY <2>4, ConcatProperties
    <2>6. /\ i1 \in Nat /\ i2 \in Nat /\ Len(g) = N
          /\ DOMAIN a = 1..i1 /\ DOMAIN c = 1..i2 /\ DOMAIN g = 1..N
          /\ \A i \in 1..N : g[i] = IF i <= i1 THEN a[i] ELSE c[i - i1]
      BY <2>4, <2>5
    <2> HIDE DEF g, i1, i2
    <2>7. \A i \in 1..(i1 + i2) : z[i] = IF i <= i1 THEN p[i] ELSE q[i - i1]
      <3> SUFFICES ASSUME NEW i \in 1..(i1 + i2) PROVE z[i] = IF i <= i1 THEN p[i] ELSE q[i - i1]
        OBVIOUS
      <3>1. z[i] = Q[g[i]] /\ (i <= i1 => i \in 1..i1) /\ (~(i <= i1) => i - i1 \in 1..i2)
        BY <2>6 DEF Boxes
      <3>2. i <= i1 => p[i] = Q[a[i]]
        BY <2>6, <3>1 DEF Boxes
      <3>3. ~(i <= i1) => q[i - i1] = Q[c[i - i1]]
        BY <2>6, <3>1 DEF Boxes
      <3>4. g[i] = IF i <= i1 THEN a[i] ELSE c[i - i1]
        BY <2>6
      <3> HIDE DEF p, q, z
      <3> QED
        BY <3>1, <3>2, <3>3, <3>4
    <2> HIDE DEF p, q, z
    <2> DEFINE S == {L}
               T == {R}
               V == {U}
               Z == S \cup T
               u == Area(L)
               v == Area(R)
    <2>8. /\ S \in SUBSET Rects /\ T \in SUBSET Rects /\ Z \in SUBSET Rects /\ V \in SUBSET Rects
          /\ \A x \in S, y \in T : Apart(x, y)
          /\ \A x \in Z : \E y \in V : Within(x, y)
          /\ u + v = Area(U)
      BY <2>2, <2>4 DEF Halve
    <2>9. Packed(p, i1, S, u) /\ Packed(q, i2, T, v)
      BY <2>3 DEF i1, i2
    <2> HIDE DEF S, T, u, v
    <2>10. Packed(z, i1 + i2, S \cup T, u + v)
      BY <2>6, <2>7, <2>8, <2>9, PackedJoined, ZenonT(120)
    <2> DEFINE w == u + v
    <2>11. Packed(z, N, Z, w) /\ N \in Nat
      BY <2>6, <2>10
    <2> HIDE DEF Z, V, N, w
    <2>12. Packed(z, N, V, w)
      BY <2>8, <2>11, PackedIn
    <2>13. Len(g) = N
      BY <2>6
    <2> QED
      BY <2>1, <2>8, <2>12, <2>13 DEF V, w, z, U, Good
  <1> HIDE DEF Good
  <1>8. ASSUME NEW k \in 0..(b - 1), k \in P PROVE k + 1 \in P
    <2>1. k + 1 \in Nat
      OBVIOUS
    <2>2. ASSUME NEW n \in DOMAIN t, n > b - (k + 1) PROVE Good(n)
      <3>1. CASE IsLeaf(t, n)
        BY <1>6, <3>1
      <3>2. CASE ~IsLeaf(t, n)
        <4>1. 2 * n > b - k /\ 2 * n + 1 > b - k
          BY <1>1, <1>2, <2>2
        <4>2. 2 * n \in DOMAIN t /\ 2 * n + 1 \in DOMAIN t
          BY <1>2, <3>2
        <4>3. Good(2 * n) /\ Good(2 * n + 1)
          BY <1>8, <4>1, <4>2
        <4> QED
          BY <1>7, <3>2, <4>3
      <3> QED
        BY <3>1, <3>2
    <2> QED
      BY <2>1, <2>2
  <1> HIDE DEF P
  <1>9. b \in P
    BY <1>1, <1>5, <1>8, Climb
  <1>10. 1 \in DOMAIN t /\ 1 > b - b
    BY <1>1 DEF WholeTree
  <1>11. Good(1)
    BY <1>9, <1>10 DEF P
  <1> QED
    BY <1>11 DEF Good

\* calculateLayoutRect scales the height to fill the canvas.
LEMMA ScaledNum ==
  ASSUME NEW d \in Nat \ {0}, NEW u, NEW U \in Rects, DrawnAs(u, U, d),
         NEW rh, NEW r \in Nat \ {0}, Is(rh, r, d), NEW p \in Nat
  PROVE  /\ Scaled(u, rh, p) \in Slots
         /\ DrawnAs(Scaled(u, rh, p), Stretch(U, r, d), r * d)
  <1> DEFINE e == r * d
             X == U.x
             Y == U.y
             W == U.w
             H == U.h
             s == Scaled(u, rh, p)
             S == Stretch(U, r, d)
  <1>1. X \in Int /\ Y \in Int /\ W \in Int /\ H \in Int /\ e \in Nat \ {0}
    BY DEF Rects
  <1>2. Is(u.x, X, d) /\ Is(u.y, Y, d) /\ Is(u.w, W, d) /\ Is(u.h, H, d)
    BY DEF DrawnAs
  <1>3. S.x = r * X /\ S.y = d * Y /\ S.w = r * W /\ S.h = d * H
    BY StretchIs
  <1>4. s = [x |-> u.x, y |-> Over(u.y, rh), w |-> u.w, h |-> Over(u.h, rh), photo |-> p]
    BY DEF Scaled
  <1> HIDE DEF X, Y, W, H, s, S
  <1>5. Is(u.x, r * X, e) /\ Is(u.w, r * W, e)
    BY <1>2, FinerNum
  <1>6. ASSUME NEW f, NEW Z \in Int, Is(f, Z, d) PROVE Is(Over(f, rh), d * Z, e)
    <2> DEFINE z == d * Z
               i == r * Z
               j == r * r
    <2>1. z \in Int /\ j > 0 /\ z * j = i * e
      BY <1>1
    <2>2. Is(f, i, e) /\ Is(rh, j, e)
      BY <1>6, FinerNum
    <2> HIDE DEF z, i, j, e
    <2>3. Is(Over(f, rh), z, e)
      BY <1>1, <2>1, <2>2, OverNum
    <2> QED
      BY <2>3 DEF z
  <1>7. Is(Over(u.y, rh), d * Y, e) /\ Is(Over(u.h, rh), d * H, e)
    BY <1>1, <1>2, <1>6
  <1>8. s.x = u.x /\ s.y = Over(u.y, rh) /\ s.w = u.w /\ s.h = Over(u.h, rh)
    BY <1>4
  <1>9. DrawnAs(s, S, e)
    BY <1>3, <1>5, <1>7, <1>8 DEF DrawnAs
  <1>10. /\ u.x \in Rationals /\ u.w \in Rationals
         /\ Over(u.y, rh) \in Rationals /\ Over(u.h, rh) \in Rationals
    BY <1>2, <1>7 DEF Is
  <1>11. s \in Slots
    BY <1>4, <1>10 DEF Slots
  <1> QED
    BY <1>9, <1>11 DEF s, S

\* The rectangle of the root fills the canvas then.
LEMMA RootFills ==
  ASSUME NEW d \in Nat \ {0}, NEW U \in Rects, U.x = 0, U.y = 0, U.w = d
  PROVE  Stretch(U, U.h, d) = Board(U.h * d) /\ Area(Stretch(U, U.h, d)) = (U.h * d) * (U.h * d)
  <1> DEFINE r == U.h
  <1>1. r \in Nat \ {0}
    BY DEF Rects
  <1>2. Stretch(U, r, d) = Rect(r * 0, d * 0, r * d, d * r)
    BY DEF Stretch
  <1> HIDE DEF r
  <1>3. r * 0 = 0 /\ d * 0 = 0 /\ d * r = r * d
    BY <1>1
  <1>4. Stretch(U, r, d) = Board(r * d)
    BY <1>2, <1>3 DEF Board
  <1>5. Area(Board(r * d)) = (r * d) * (r * d)
    BY DEF Area, Board, Rect
  <1> QED
    BY <1>4, <1>5 DEF r

\* The slots of a weighed tree tile the canvas.
LEMMA WeighedTiled ==
  ASSUME NEW t, WholeTree(t), Weighed(t), \A n \in Leaves(t) : t[n].actual \in Positives,
         \A n \in Leaves(t) : t[n].photo \in Nat
  PROVE  SlotList(t) \in TiledGrids
  <1> DEFINE under == CHOOSE f : f = [n \in DOMAIN t |->
                                        IF IsLeaf(t, n) THEN <<n>>
                                        ELSE f[2 * n] \o f[2 * n + 1]]
             f == ChildLayoutRects(t)
             slot == Layout(t, f)
             g == [k \in DOMAIN under[1] |-> slot[under[1][k]]]
  <1>1. SlotList(t) = g
    BY Zenon DEF SlotList
  <1>2. Lists(under, t)
    <2>1. PICK h : Lists(h, t)
      BY ListsExist
    <2>2. h = [n \in DOMAIN t |->
                 IF IsLeaf(t, n) THEN <<n>> ELSE h[2 * n] \o h[2 * n + 1]]
      BY <2>1, Zenon DEF Lists
    <2> QED
      BY <2>2, Zenon DEF Lists
  <1> HIDE DEF under
  <1>3. Laid(f, t)
    BY LayoutIs
  <1>4. \A n \in Leaves(t) : slot[n] = Scaled(f[n], f[1].h, t[n].photo)
    BY DEF Layout
  <1> HIDE DEF slot, f
  <1> DEFINE s == under[1]
             n == Len(s)
  <1>5. 1 \in DOMAIN t /\ s \in Seq(Leaves(t))
    BY <1>2, ListedOnce DEF WholeTree
  <1>6. n \in Nat /\ DOMAIN s = 1..n /\ \A k \in 1..n : s[k] \in Leaves(t)
    BY <1>5, Members
  <1>7. g = [k \in 1..n |-> slot[s[k]]]
    BY <1>6
  <1>8. \A m \in DOMAIN t : t[m].actual \in Positives
    BY RatiosPositive
  <1>9. PICK d \in Nat \ {0} : \E B : LaidOn(B, f, t, d)
    BY <1>3, <1>8, NodesLaid
  <1>10. PICK B : LaidOn(B, f, t, d)
    BY <1>9
  <1> DEFINE U == B[1]
             r == U.h
             e == r * d
             Q == [m \in DOMAIN t |-> Stretch(B[m], r, d)]
  <1>11. /\ U \in Rects /\ r \in Nat \ {0} /\ e \in Nat \ {0}
         /\ U.x = 0 /\ U.y = 0 /\ U.w = d
    BY <1>5, <1>10 DEF LaidOn, Rects
  <1>12. \A m \in DOMAIN t : /\ B[m] \in Rects /\ DrawnAs(f[m], B[m], d)
                             /\ ~IsLeaf(t, m) => Halve(B[2 * m], B[2 * m + 1], B[m])
    BY <1>10 DEF LaidOn
  <1>13. Is(f[1].h, r, d)
    BY <1>5, <1>12 DEF DrawnAs
  <1>14. Q[1] = Board(e) /\ Area(Q[1]) = e * e
    BY <1>5, <1>11, RootFills
  <1> HIDE DEF U, r, e
  <1>15. \A m \in DOMAIN t : Q[m] = Stretch(B[m], r, d) /\ Q[m] \in Rects
    BY <1>11, <1>12, StretchIs
  <1> HIDE DEF Q
  <1>16. ASSUME NEW m \in DOMAIN t, ~IsLeaf(t, m) PROVE Halve(Q[2 * m], Q[2 * m + 1], Q[m])
    <2>1. 2 * m \in DOMAIN t /\ 2 * m + 1 \in DOMAIN t
      BY <1>16 DEF WholeTree
    <2> DEFINE l == 2 * m
               h == 2 * m + 1
    <2> HIDE DEF l, h
    <2>2. l \in DOMAIN t /\ h \in DOMAIN t /\ Halve(B[l], B[h], B[m])
      BY <1>12, <1>16, <2>1 DEF l, h
    <2>3. Halve(Stretch(B[l], r, d), Stretch(B[h], r, d), Stretch(B[m], r, d))
      BY <1>11, <1>12, <2>2, StretchHalve
    <2>4. Halve(Q[l], Q[h], Q[m])
      BY <1>15, <2>2, <2>3
    <2> QED
      BY <2>4 DEF l, h
  <1> DEFINE q == Boxes(s, Q)
             S == {Board(e)}
             v == e * e
  <1>17. Packed(q, n, S, v)
    <2>1. Packed(Boxes(under[1], Q), Len(under[1]), {Q[1]}, Area(Q[1]))
      BY <1>2, <1>15, <1>16, LeavesPacked
    <2> QED
      BY <1>14, <2>1
  <1>18. ASSUME NEW k \in 1..n PROVE g[k] \in Slots /\ DrawnAs(g[k], q[k], e)
    <2> DEFINE m == s[k]
    <2>1. m \in Leaves(t) /\ m \in DOMAIN t /\ t[m].photo \in Nat
      BY <1>6 DEF Leaves
    <2>2. g[k] = slot[m] /\ q[k] = Q[m]
      BY <1>6, <1>7 DEF Boxes
    <2> HIDE DEF m, g, q
    <2> DEFINE rh == f[1].h
               p == t[m].photo
               x == Scaled(f[m], rh, p)
    <2>3. g[k] = x /\ q[k] = Stretch(B[m], r, d)
      BY <1>4, <1>15, <2>1, <2>2
    <2>4. B[m] \in Rects /\ DrawnAs(f[m], B[m], d) /\ Is(rh, r, d) /\ p \in Nat
      BY <1>12, <1>13, <2>1
    <2> HIDE DEF rh, p
    <2>5. x \in Slots /\ DrawnAs(x, Stretch(B[m], r, d), r * d)
      BY <1>11, <2>4, ScaledNum
    <2> QED
      BY <2>3, <2>5 DEF e
  <1> HIDE DEF s, n, q
  <1>19. g \in Seq(Slots) /\ Len(g) = n
    <2>1. g \in [1..n -> Slots]
      <3> DEFINE G == g
      <3>1. DOMAIN G = 1..n /\ G = [k \in 1..n |-> G[k]]
        BY <1>7, Zenon
      <3>2. \A k \in 1..n : G[k] \in Slots
        BY <1>18
      <3> HIDE DEF G
      <3>3. G \in [1..n -> Slots]
        BY <3>1, <3>2
      <3> QED
        BY <3>3 DEF G
    <2> HIDE DEF g
    <2> QED
      BY <1>6, <2>1
  <1> HIDE DEF g, S, v
  <1>20. TiledBy(g, q, e)
    BY <1>11, <1>17, <1>18, <1>19 DEF TiledBy, S, v
  <1>21. g \in TiledGrids
    BY <1>19, <1>20 DEF TiledGrids
  <1> QED
    BY <1>1, <1>21

-----------------------------------------------------------------------------
(*****************************************************************************)
(* Every grid tiles the canvas                                               *)
(*****************************************************************************)

\* The slots of a tree that optimize found tile the canvas, if no node but the root was hit.
LEMMA FoundTiled ==
  ASSUME Inv, BranchInv, NearInv, WeighInv, stage = "found", realAt \in {Nowhere, 1}
  PROVE  SlotList(tree) \in TiledGrids
  <1>1. todo = <<>> /\ stage # "idle"
    BY DEF Inv, ShapeInv
  <1>2. WholeTree(tree) /\ \A n \in Leaves(tree) : tree[n].photo \in DOMAIN photos
    BY <1>1, TreeDone
  <1>3. Weighed(tree)
    BY DEF WeighInv
  <1>4. ASSUME NEW n \in Leaves(tree) PROVE tree[n].actual \in Positives /\ tree[n].photo \in Nat
    <2> DEFINE p == tree[n].photo
    <2>1. p \in DOMAIN photos /\ photos \in Seq(Fractions)
      BY <1>2 DEF Inv, TypeOK
    <2>2. tree[n].actual = photos[p]
      BY DEF Inv, RatioInv
    <2> HIDE DEF p
    <2>3. photos[p] \in Positives
      BY <1>1, <2>1 DEF NearInv, PositiveInv
    <2>4. p \in Nat
      BY <2>1
    <2> QED
      BY <2>2, <2>3, <2>4 DEF p
  <1> QED
    BY <1>2, <1>3, <1>4, WeighedTiled

\* What was collected so far tiles the canvas, grid for grid, unless a tree was hit.
TileInv == gen.hit \/ (grids \in Seq(TiledGrids) /\ sub \in Seq(TiledGrids))

\* Grids after grids.
LEMMA MoreTiled ==
  ASSUME NEW gs \in Seq(TiledGrids), NEW hs \in Seq(TiledGrids)
  PROVE  gs \o hs \in Seq(TiledGrids)
  BY ConcatProperties

\* Before the first sampler there is no grid.
LEMMA TileInit == Init => TileInv
  <1> SUFFICES ASSUME Init PROVE TileInv
    OBVIOUS
  <1>1. grids = <<>> /\ sub = <<>>
    BY DEF Init
  <1> QED
    BY <1>1, NoGridsTiled DEF TileInv

\* Each of the one_big samplers makes grids that tile the canvas.
LEMMA SampledTiled ==
  ASSUME Len(photos) \in Nat, NEW s \in {"equal", "bigCenter", "bigLeftTop", "bigTop"}
  PROVE  SampledBy(s) \in Seq(TiledGrids)
  <1>1. /\ SampledBy("equal") = EqualGrids(Len(photos), gen.more)
        /\ SampledBy("bigCenter") = BigCenterGrids(Len(photos), gen.more)
        /\ SampledBy("bigLeftTop") = BigLeftTopGrids(Len(photos), gen.more)
        /\ SampledBy("bigTop") = BigTopGrids(Len(photos), gen.more)
    BY DEF SampledBy
  <1>2. /\ SampledBy("equal") \in Seq(TiledGrids)
        /\ SampledBy("bigCenter") \in Seq(TiledGrids)
        /\ SampledBy("bigLeftTop") \in Seq(TiledGrids)
        /\ SampledBy("bigTop") \in Seq(TiledGrids)
    BY <1>1, EqualGridsTiled, BigCenterGridsTiled, BigLeftTopGridsTiled, BigTopGridsTiled
  <1> QED
    BY <1>2

\* The grid of the last tree tiles the canvas unless the tree was hit.
LEMMA LastTreeTiled ==
  ASSUME Inv, BranchInv, NearInv, WeighInv, ~(stage = "found" /\ realAt \notin {Nowhere, 1})
  PROVE  LastTree \in Seq(TiledGrids)
  <1> DEFINE g == SlotList(tree)
             gs == <<g>>
  <1>1. CASE stage = "found"
    <2>1. g \in TiledGrids
      BY <1>1, FoundTiled
    <2>2. LastTree = gs
      BY <1>1, Zenon DEF LastTree
    <2> HIDE DEF g
    <2>3. gs \in Seq(TiledGrids)
      BY <2>1
    <2> QED
      BY <2>2, <2>3
  <1>2. CASE stage # "found"
    <2>1. LastTree = <<>>
      BY <1>2, Zenon DEF LastTree
    <2> QED
      BY <2>1, NoGridsTiled
  <1> QED
    BY <1>1, <1>2

\* The grids generate has ready for no photos.
LEMMA DefaultsTiled ==
  ASSUME NEW more
  PROVE  EqualGrids(2, more) \o EqualGrids(3, more)
         \o EqualGrids(4, more) \o BigCenterGrids(5, more)
         \o EqualGrids(6, more) \o BigLeftTopGrids(8, more)
         \o EqualGrids(9, more) \o BigCenterGrids(9, more) \in Seq(TiledGrids)
  <1> DEFINE a == EqualGrids(2, more)
             b == EqualGrids(3, more)
             c == EqualGrids(4, more)
             d == BigCenterGrids(5, more)
             e == EqualGrids(6, more)
             f == BigLeftTopGrids(8, more)
             g == EqualGrids(9, more)
             h == BigCenterGrids(9, more)
  <1>1. /\ a \in Seq(TiledGrids) /\ b \in Seq(TiledGrids) /\ c \in Seq(TiledGrids)
        /\ d \in Seq(TiledGrids) /\ e \in Seq(TiledGrids) /\ f \in Seq(TiledGrids)
        /\ g \in Seq(TiledGrids) /\ h \in Seq(TiledGrids)
    BY EqualGridsTiled, BigCenterGridsTiled, BigLeftTopGridsTiled
  <1> HIDE DEF a, b, c, d, e, f, g, h
  <1>2. a \o b \o c \o d \in Seq(TiledGrids)
    BY <1>1, MoreTiled
  <1>3. a \o b \o c \o d \o e \o f \o g \o h \in Seq(TiledGrids)
    BY <1>1, <1>2, MoreTiled
  <1> QED
    BY <1>3 DEF a, b, c, d, e, f, g, h

\* Every step keeps the invariant.
LEMMA TileStep ==
  Inv /\ BranchInv /\ NearInv /\ WeighInv /\ GridsInv /\ TileInv /\ [Next]_vars => TileInv'
  <1> SUFFICES ASSUME Inv, BranchInv, NearInv, WeighInv, GridsInv, TileInv, [Next]_vars
               PROVE  TileInv'
    OBVIOUS
  <1> DEFINE T == Seq(TiledGrids)
             IsGen(g) == g = [left |-> g.left, more |-> g.more, trees |-> g.trees,
                              hit |-> g.hit, done |-> g.done]
  <1>1. Len(photos) \in Nat /\ IsGen(gen)
    BY DEF Inv, TypeOK, GridsInv
  <1>2. gen.hit \/ (grids \in T /\ sub \in T)
    BY DEF TileInv
  <1>3. ASSUME gen'.hit \/ (grids' \in T /\ sub' \in T) PROVE TileInv'
    BY <1>3 DEF TileInv
  <1>4. CASE GenerateDefaults
    <2>1. gen' = [gen EXCEPT !.done = TRUE, !.left = <<>>] /\ sub' = sub
      BY <1>4 DEF GenerateDefaults
    <2>2. gen'.hit = gen.hit
      BY <1>1, <2>1
    <2>3. grids' \in T
      BY <1>4, DefaultsTiled DEF GenerateDefaults
    <2> QED
      BY <1>2, <1>3, <2>1, <2>2, <2>3
  <1>5. CASE SampleOneBig
    <2>0. PICK s \in {"equal", "bigCenter", "bigLeftTop", "bigTop"} :
            /\ \E gs \in SortedGrids(SampledBy(s)) : grids' = grids \o gs
            /\ sub' = sub
            /\ gen' = [gen EXCEPT !.left = Tail(gen.left)]
      BY <1>5 DEF SampleOneBig
    <2>1. PICK gs \in SortedGrids(SampledBy(s)) :
            /\ grids' = grids \o gs /\ sub' = sub
            /\ gen' = [gen EXCEPT !.left = Tail(gen.left)]
      BY <2>0
    <2>2. gen'.hit = gen.hit
      BY <1>1, <2>1
    <2>3. gs \in T
      BY <1>1, <2>1, SampledTiled, SortedGridsTiled
    <2>4. grids \in T => grids' \in T
      BY <2>1, <2>3, MoreTiled
    <2> HIDE DEF T
    <2> QED
      BY <1>2, <1>3, <2>1, <2>2, <2>4
  <1>6. CASE BeginTree
    <2>1. /\ sub' = sub \o LastTree /\ grids' = grids
          /\ gen' = [gen EXCEPT !.trees = gen.trees + 1, !.hit = Hit]
      BY <1>6 DEF BeginTree
    <2>2. gen'.hit = Hit
      BY <1>1, <2>1
    <2>3. ASSUME ~Hit PROVE grids' \in T /\ sub' \in T
      <3>1. LastTree \in T /\ ~gen.hit
        BY <2>3, LastTreeTiled DEF Hit
      <3> QED
        BY <1>2, <2>1, <3>1, MoreTiled
    <2> HIDE DEF T
    <2> QED
      BY <1>3, <2>2, <2>3
  <1>7. CASE EndPicWall
    <2>1. PICK gs \in SortedGrids(sub \o LastTree) :
            /\ grids' = grids \o gs /\ sub' = <<>>
            /\ gen' = [gen EXCEPT !.left = Tail(gen.left), !.hit = Hit]
      BY <1>7 DEF EndPicWall
    <2>2. gen'.hit = Hit
      BY <1>1, <2>1
    <2>3. ASSUME ~Hit PROVE grids' \in T /\ sub' \in T
      <3>1. LastTree \in T /\ ~gen.hit
        BY <2>3, LastTreeTiled DEF Hit
      <3>2. sub \o LastTree \in T
        BY <1>2, <3>1, MoreTiled
      <3>3. gs \in T
        BY <2>1, <3>2, SortedGridsTiled
      <3>4. grids \o gs \in T /\ <<>> \in T
        BY <1>2, <3>1, <3>3, MoreTiled, NoGridsTiled
      <3> QED
        BY <2>1, <3>4
    <2> HIDE DEF T
    <2> QED
      BY <1>3, <2>2, <2>3
  <1>8. CASE FilterGrids
    <2>1. grids' = Filtered(grids) /\ sub' = sub /\ gen' = [gen EXCEPT !.done = TRUE]
      BY <1>8 DEF FilterGrids
    <2>2. gen'.hit = gen.hit
      BY <1>1, <2>1
    <2>3. grids \in T => grids' \in T
      BY <2>1, FilteredTiled
    <2> HIDE DEF T
    <2> QED
      BY <1>2, <1>3, <2>1, <2>2, <2>3
  <1>9. CASE PicWallRuns \/ Returned \/ UNCHANGED vars
    <2>1. gen' = gen /\ grids' = grids /\ sub' = sub
      BY <1>9 DEF PicWallRuns, Returned, vars
    <2> HIDE DEF T
    <2> QED
      BY <1>2, <1>3, <2>1
  <1> QED
    BY <1>4, <1>5, <1>6, <1>7, <1>8, <1>9 DEF Next

\* Every grid covers the canvas with slots that do not overlap, whatever the photos, the
\* canvas and the random cuts, the slots adjustToSlotNumbers joins and cuts
\* (BaseGridSampler.cpp), the block pair BigLeftTopGridSampler finds, and the cuts
\* adjustAspectRatioAt turns after the photos were placed: as long as no ratio of a tree
\* that was used was overwritten through the dangling reference.
THEOREM GridsTileTheCanvas == Spec => []GridsTile
  <1>1. TileInv => GridsTile
    <2> SUFFICES ASSUME TileInv, ~gen.hit, NEW i \in DOMAIN grids
                 PROVE  Tiles(grids[i])
      BY DEF GridsTile
    <2>1. grids[i] \in TiledGrids
      BY Members DEF TileInv
    <2> QED
      BY <2>1, TiledTiles
  <1> QED
    BY <1>1, Invariant, BranchInit, BranchStep, NearInit, NearStep, WeighInit, WeighStep,
       GridsInit, GridsStep, TileInit, TileStep, PTL DEF Spec
=============================================================================
