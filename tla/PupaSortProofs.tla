---------------------------- MODULE PupaSortProofs ----------------------------
(***************************************************************************)
(* Theorems about the two searches, for indexes of every size.  The        *)
(* recursive functions are reasoned about by least counterexamples: of the *)
(* intervals on which a claim fails one is shortest, and the search goes   *)
(* on in a shorter one.                                                    *)
(***************************************************************************)
EXTENDS PupaSort, WellFoundedInduction, TLAPS

(* A set of natural numbers that is not empty has a least element. *)
LEMMA Least ==
    ASSUME NEW T \in SUBSET Nat, T # {}
    PROVE  \E x \in T : \A y \in T : x <= y
<1> DEFINE R == OpToRel(<, Nat)
<1>1. IsWellFoundedOn(R, Nat)
  BY NatLessThanWellFounded, Zenon
<1>2. \A x, y \in Nat : x < y => <<x, y>> \in R
  BY DEF OpToRel
<1> HIDE DEF R
<1>3. \E x \in T : \A y \in T : ~ (<<y, x>> \in R)
  BY <1>1, WFMin, Zenon
<1>4. PICK x \in T : \A y \in T : ~ (<<y, x>> \in R)
  BY <1>3
<1>5. \A y \in T : x <= y
  <2> TAKE y \in T
  <2>1. x \in Nat /\ y \in Nat
    OBVIOUS
  <2>2. ~ (y < x)
    BY <2>1, <1>4, <1>2, Zenon
  <2> QED
    BY <2>1, <2>2
<1> QED
  BY <1>5

(* Of a set of intervals one is shortest. *)
LEMMA Shortest ==
    ASSUME NEW n \in Nat, NEW S \in SUBSET ((0 .. n) \X (-1 .. n)), S # {}
    PROVE  \E r \in S : \A q \in S : r[2] - r[1] <= q[2] - q[1]
<1> DEFINE Length(r) == r[2] - r[1] + n + 1
           T == {x \in Nat : \E r \in S : x = Length(r)}
<1>1. \A r \in S : r[1] \in 0 .. n /\ r[2] \in -1 .. n
  OBVIOUS
<1>2. \A r \in S : Length(r) \in Nat
  BY <1>1
<1>3. \A r \in S : Length(r) \in T
  BY <1>2
<1>4. T \in SUBSET Nat /\ T # {}
  BY <1>3
<1>5. PICK x \in T : \A y \in T : x <= y
  <2> HIDE DEF T
  <2> QED
    BY <1>4, Least
<1>6. PICK r \in S : x = Length(r)
  OBVIOUS
<1>7. \A q \in S : Length(r) <= Length(q)
  BY <1>3, <1>5, <1>6
<1>8. \A q \in S : r[2] - r[1] <= q[2] - q[1]
  BY <1>1, <1>7
<1> QED
  BY <1>8

-----------------------------------------------------------------------------
(* bsearch *)

(* How one element compares with the items of a sorted index without equal *)
(* ones: once it is not greater than an item it is smaller than the next.  *)
Decreasing(c, n) ==
    /\ c \in [0 .. n - 1 -> Int]
    /\ \A i, j \in 0 .. n - 1 : i < j /\ c[i] <= 0 => c[j] < 0

Intervals(n) == (0 .. n) \X (0 .. n)

(* What bsearch is to find in an interval. *)
Found(c, l, u) == IF \E j \in l .. u - 1 : c[j] = 0
                  THEN CHOOSE j \in l .. u - 1 : c[j] = 0
                  ELSE NotFound

(* One step of bsearch is right if what it finds in shorter intervals is. *)
LEMMA bsearchStep ==
    ASSUME NEW n \in Nat, NEW c, Decreasing(c, n), NEW l \in 0 .. n, NEW u \in 0 .. n, NEW f,
           \A a, b \in 0 .. n : a <= b /\ b - a < u - l => f[<<a, b>>] = Found(c, a, b)
    PROVE  bsearchIn(c, f, l, u) = Found(c, l, u)
<1> DEFINE mid == (l + u) \div 2
<1>1. CASE l >= u
  BY <1>1 DEF bsearchIn, Found
<1>2. CASE l < u
  <2>1. mid \in l .. u - 1 /\ mid \in 0 .. n - 1 /\ mid + 1 \in 0 .. n
    BY <1>2
  <2>2. c[mid] \in Int /\ \A j \in l .. u - 1 : c[j] \in Int /\ j \in 0 .. n - 1
    BY <2>1 DEF Decreasing
  <2> HIDE DEF mid
  <2>3. CASE c[mid] = 0
    <3>1. \A j \in l .. u - 1 : c[j] = 0 => j = mid
      BY <2>1, <2>2, <2>3 DEF Decreasing
    <3>2. Found(c, l, u) = mid
      BY <2>1, <2>3, <3>1 DEF Found
    <3>3. bsearchIn(c, f, l, u) = mid
      BY <1>2, <2>2, <2>3 DEF bsearchIn, mid
    <3> QED
      BY <3>2, <3>3
  <2>4. CASE c[mid] < 0
    <3>1. \A j \in l .. u - 1 : c[j] = 0 <=> j \in l .. mid - 1 /\ c[j] = 0
      BY <2>1, <2>2, <2>4 DEF Decreasing
    <3>2. Found(c, l, u) = Found(c, l, mid)
      <4>1. \A j : j \in l .. u - 1 /\ c[j] = 0 <=> j \in l .. mid - 1 /\ c[j] = 0
        BY <2>1, <3>1
      <4> QED
        BY <4>1 DEF Found
    <3>3. bsearchIn(c, f, l, u) = f[<<l, mid>>]
      BY <1>2, <2>2, <2>4 DEF bsearchIn, mid
    <3>4. f[<<l, mid>>] = Found(c, l, mid)
      BY <2>1
    <3> QED
      BY <3>2, <3>3, <3>4
  <2>5. CASE c[mid] > 0
    <3>1. \A j \in l .. u - 1 : c[j] = 0 <=> j \in mid + 1 .. u - 1 /\ c[j] = 0
      BY <2>1, <2>2, <2>5 DEF Decreasing
    <3>2. Found(c, l, u) = Found(c, mid + 1, u)
      <4>1. \A j : j \in l .. u - 1 /\ c[j] = 0 <=> j \in mid + 1 .. u - 1 /\ c[j] = 0
        BY <2>1, <3>1
      <4> QED
        BY <4>1 DEF Found
    <3>3. bsearchIn(c, f, l, u) = f[<<mid + 1, u>>]
      BY <1>2, <2>2, <2>5 DEF bsearchIn, mid
    <3>4. f[<<mid + 1, u>>] = Found(c, mid + 1, u)
      BY <2>1
    <3> QED
      BY <3>2, <3>3, <3>4
  <2> QED
    BY <2>2, <2>3, <2>4, <2>5
<1> QED
  BY <1>1, <1>2

(* A function that calls itself as bsearch does finds what there is. *)
LEMMA bsearchUnique ==
    ASSUME NEW n \in Nat, NEW c, Decreasing(c, n), NEW f,
           f = [r \in Intervals(n) |-> bsearchIn(c, f, r[1], r[2])]
    PROVE  f = [r \in Intervals(n) |-> Found(c, r[1], r[2])]
<1>1. \A l, u \in 0 .. n : f[<<l, u>>] = bsearchIn(c, f, l, u)
  <2> TAKE l, u \in 0 .. n
  <2>1. <<l, u>> \in Intervals(n)
    BY DEF Intervals
  <2>2. \A r \in Intervals(n) : f[r] = bsearchIn(c, f, r[1], r[2])
    BY Zenon
  <2>3. f[<<l, u>>] = bsearchIn(c, f, <<l, u>>[1], <<l, u>>[2])
    BY <2>1, <2>2, Zenon
  <2> QED
    BY <2>3
<1> DEFINE Wrong == {r \in Intervals(n) : f[r] # Found(c, r[1], r[2])}
<1>2. Wrong = {}
  <2> SUFFICES ASSUME Wrong # {} PROVE FALSE
    OBVIOUS
  <2>1. PICK r \in Wrong : \A q \in Wrong : r[2] - r[1] <= q[2] - q[1]
    <3>1. Wrong \in SUBSET ((0 .. n) \X (-1 .. n))
      BY DEF Intervals
    <3> HIDE DEF Wrong
    <3> QED
      BY <3>1, Shortest
  <2>2. PICK l \in 0 .. n, u \in 0 .. n : r = <<l, u>>
    BY DEF Intervals
  <2>3. \A a, b \in 0 .. n : a <= b /\ b - a < u - l => f[<<a, b>>] = Found(c, a, b)
    <3> TAKE a, b \in 0 .. n
    <3> HAVE a <= b /\ b - a < u - l
    <3>1. <<a, b>> \notin Wrong
      BY <2>1, <2>2
    <3> QED
      BY <3>1 DEF Intervals
  <2>4. bsearchIn(c, f, l, u) = Found(c, l, u)
    BY <2>3, bsearchStep
  <2> QED
    BY <1>1, <2>2, <2>4
<1>3. \A r \in Intervals(n) : f[r] = Found(c, r[1], r[2])
  BY <1>2
<1> QED
  BY <1>3, Zenon

(* bsearch finds the element that is there, in an index of any size, and *)
(* nothing when it is not there.                                         *)
THEOREM bsearchFinds ==
    ASSUME NEW n \in Nat, NEW c, Decreasing(c, n)
    PROVE  bsearch(c, n) = Found(c, 0, n)
<1> DEFINE g == [r \in Intervals(n) |-> Found(c, r[1], r[2])]
<1>1. g = [r \in Intervals(n) |-> bsearchIn(c, g, r[1], r[2])]
  <2>1. \A a, b \in 0 .. n : g[<<a, b>>] = Found(c, a, b)
    BY DEF Intervals
  <2> HIDE DEF g
  <2>2. \A l, u \in 0 .. n : bsearchIn(c, g, l, u) = Found(c, l, u)
    BY <2>1, bsearchStep
  <2>3. \A r \in Intervals(n) : bsearchIn(c, g, r[1], r[2]) = Found(c, r[1], r[2])
    BY <2>2 DEF Intervals
  <2> QED
    BY <2>3, Zenon DEF g
<1>2. \A f : f = [r \in Intervals(n) |-> bsearchIn(c, f, r[1], r[2])] => f = g
  BY bsearchUnique
<1>3. g[<<0, n>>] = Found(c, 0, n)
  BY DEF Intervals
<1> HIDE DEF g
<1>4. bsearch(c, n) = g[<<0, n>>]
  BY <1>1, <1>2, Zenon DEF bsearch, Intervals
<1> QED
  BY <1>3, <1>4

-----------------------------------------------------------------------------
(* pupa_bsearch *)

Bounds(n) == (0 .. n) \X (-1 .. n)

(* The bounds a call of pupa_bsearch is reached with, cut at a length. *)
ShortBounds(n, m) == {r \in Bounds(n) : r[2] - r[1] <= m}

(* f does on the bounds R what pupa_bsearch does. *)
Searches(f, R, c) == f = [r \in R |-> pupa_bsearchIn(c, f, r[1], r[2])]

Comparison(c, n) == c \in [-1 .. n -> Int]

(* pupa_bsearch calls itself with bounds that are closer together. *)
LEMMA CallsShorter ==
    ASSUME NEW n \in Nat, NEW c, Comparison(c, n), NEW low \in 0 .. n, NEW high \in -1 .. n,
           NEW f, NEW g,
           \A q \in Bounds(n) : q[2] - q[1] < high - low => f[q] = g[q]
    PROVE  pupa_bsearchIn(c, f, low, high) = pupa_bsearchIn(c, g, low, high)
<1> DEFINE mid == (low + high) \div 2
<1>1. CASE high > low
  <2>1. mid \in low .. high - 1
    BY <1>1
  <2> HIDE DEF mid
  <2>2. <<low, mid - 1>> \in Bounds(n) /\ <<mid + 1, high>> \in Bounds(n)
    BY <2>1 DEF Bounds
  <2>3. f[<<low, mid - 1>>] = g[<<low, mid - 1>>] /\ f[<<mid + 1, high>>] = g[<<mid + 1, high>>]
    BY <2>1, <2>2
  <2>4. c[mid] \in Int
    BY <2>1 DEF Comparison
  <2> QED
    BY <1>1, <2>3, <2>4 DEF pupa_bsearchIn, mid
<1>2. CASE ~ (high > low)
  BY <1>2 DEF pupa_bsearchIn
<1> QED
  BY <1>1, <1>2

(* There is a function that searches all bounds of some length. *)
LEMMA SearchExists ==
    ASSUME NEW n \in Nat, NEW c, Comparison(c, n), NEW m \in Nat
    PROVE  \E f : Searches(f, ShortBounds(n, m), c)
<1> DEFINE Bad == {x \in Nat : ~ \E f : Searches(f, ShortBounds(n, x), c)}
<1>1. \A x \in Nat : x # 0 => x - 1 \in Nat
  OBVIOUS
<1>2. \A x \in Nat : (\E f : \A r \in ShortBounds(n, x), q \in Bounds(n) :
                         q[2] - q[1] < r[2] - r[1] =>
                             f[q] = pupa_bsearchIn(c, f, q[1], q[2]))
                     => x \notin Bad
  <2> TAKE x \in Nat
  <2> HAVE \E f : \A r \in ShortBounds(n, x), q \in Bounds(n) :
                     q[2] - q[1] < r[2] - r[1] => f[q] = pupa_bsearchIn(c, f, q[1], q[2])
  <2>1. PICK f : \A r \in ShortBounds(n, x), q \in Bounds(n) :
                     q[2] - q[1] < r[2] - r[1] => f[q] = pupa_bsearchIn(c, f, q[1], q[2])
    OBVIOUS
  <2> DEFINE R == ShortBounds(n, x)
             g == [r \in R |-> pupa_bsearchIn(c, f, r[1], r[2])]
  <2>2. \A r \in R : pupa_bsearchIn(c, f, r[1], r[2]) = pupa_bsearchIn(c, g, r[1], r[2])
    <3> TAKE r \in R
    <3>1. r \in Bounds(n) /\ r[1] \in 0 .. n /\ r[2] \in -1 .. n /\ r[2] - r[1] <= x
      BY DEF ShortBounds, Bounds
    <3>2. \A q \in Bounds(n) : q[2] - q[1] < r[2] - r[1] => f[q] = g[q]
      <4> TAKE q \in Bounds(n)
      <4> HAVE q[2] - q[1] < r[2] - r[1]
      <4>1. q[1] \in Int /\ q[2] \in Int
        BY DEF Bounds
      <4>2. q \in R
        BY <3>1, <4>1 DEF ShortBounds
      <4>3. f[q] = pupa_bsearchIn(c, f, q[1], q[2])
        BY <2>1
      <4> QED
        BY <4>2, <4>3
    <3> HIDE DEF g, R
    <3> DEFINE low == r[1]
               high == r[2]
    <3>3. /\ low \in 0 .. n /\ high \in -1 .. n
          /\ \A q \in Bounds(n) : q[2] - q[1] < high - low => f[q] = g[q]
      BY <3>1, <3>2
    <3> HIDE DEF low, high
    <3>4. pupa_bsearchIn(c, f, low, high) = pupa_bsearchIn(c, g, low, high)
      BY <3>3, CallsShorter
    <3> QED
      BY <3>4 DEF low, high
  <2>3. Searches(g, R, c)
    <3>1. g = [r \in R |-> pupa_bsearchIn(c, f, r[1], r[2])]
      OBVIOUS
    <3> HIDE DEF g
    <3> QED
      BY <2>2, <3>1, Zenon DEF Searches
  <2> QED
    BY <2>3
<1>3. Bad = {}
  <2> SUFFICES ASSUME Bad # {} PROVE FALSE
    OBVIOUS
  <2>1. PICK x \in Bad : \A y \in Bad : x <= y
    <3>1. Bad \in SUBSET Nat
      OBVIOUS
    <3> HIDE DEF Bad
    <3> QED
      BY <3>1, Least
  <2>2. CASE x = 0
    <3> DEFINE f == [q \in Bounds(n) |-> pupa_bsearchIn(c, <<>>, q[1], q[2])]
    <3>1. \A r \in ShortBounds(n, x), q \in Bounds(n) : q[2] - q[1] < r[2] - r[1] =>
             f[q] = pupa_bsearchIn(c, f, q[1], q[2])
      <4> TAKE r \in ShortBounds(n, x), q \in Bounds(n)
      <4> HAVE q[2] - q[1] < r[2] - r[1]
      <4>1. q[1] \in 0 .. n /\ q[2] \in -1 .. n /\ q[2] <= q[1]
        BY <2>2 DEF ShortBounds, Bounds
      <4>2. f[q] = pupa_bsearchIn(c, <<>>, q[1], q[2])
        OBVIOUS
      <4> HIDE DEF f
      <4>3. pupa_bsearchIn(c, <<>>, q[1], q[2]) = pupa_bsearchIn(c, f, q[1], q[2])
        BY <4>1 DEF pupa_bsearchIn
      <4> QED
        BY <4>2, <4>3
    <3> HIDE DEF f
    <3> QED
      BY <1>2, <3>1
  <2>3. CASE x # 0
    <3>1. x - 1 \in Nat /\ x - 1 \notin Bad
      BY <2>1, <2>3
    <3>2. PICK f : Searches(f, ShortBounds(n, x - 1), c)
      BY <3>1
    <3>3. \A q \in ShortBounds(n, x - 1) : f[q] = pupa_bsearchIn(c, f, q[1], q[2])
      BY <3>2, Zenon DEF Searches
    <3>4. \A r \in ShortBounds(n, x), q \in Bounds(n) : q[2] - q[1] < r[2] - r[1] =>
             f[q] = pupa_bsearchIn(c, f, q[1], q[2])
      <4> TAKE r \in ShortBounds(n, x), q \in Bounds(n)
      <4> HAVE q[2] - q[1] < r[2] - r[1]
      <4>1. q[1] \in Int /\ q[2] \in Int /\ r[1] \in Int /\ r[2] \in Int /\ r[2] - r[1] <= x
        BY DEF ShortBounds, Bounds
      <4>2. q \in ShortBounds(n, x - 1)
        BY <4>1 DEF ShortBounds
      <4> QED
        BY <3>3, <4>2
    <3> QED
      BY <1>2, <3>4
  <2> QED
    BY <2>2, <2>3
<1> QED
  BY <1>3

(* pupa_bsearch is such a function, on all bounds. *)
LEMMA pupa_bsearchIs ==
    ASSUME NEW n \in Nat, NEW c, Comparison(c, n)
    PROVE  \E f : /\ \A low \in 0 .. n, high \in -1 .. n :
                        f[<<low, high>>] = pupa_bsearchIn(c, f, low, high)
                  /\ pupa_bsearch(c, n) = f[<<0, n>>]
<1> DEFINE f == CHOOSE f : Searches(f, Bounds(n), c)
<1>1. ShortBounds(n, n) = Bounds(n)
  <2>1. \A r \in Bounds(n) : r[2] - r[1] <= n
    BY DEF Bounds
  <2> QED
    BY <2>1 DEF ShortBounds
<1>2. Searches(f, Bounds(n), c)
  BY <1>1, SearchExists
<1>3. pupa_bsearch(c, n) = f[<<0, n>>]
  BY Zenon DEF pupa_bsearch, Searches, Bounds
<1> HIDE DEF f
<1>4. \A r \in Bounds(n) : f[r] = pupa_bsearchIn(c, f, r[1], r[2])
  BY <1>2, Zenon DEF Searches
<1>5. \A low \in 0 .. n, high \in -1 .. n : f[<<low, high>>] = pupa_bsearchIn(c, f, low, high)
  <2> TAKE low \in 0 .. n, high \in -1 .. n
  <2>1. <<low, high>> \in Bounds(n)
    BY DEF Bounds
  <2>2. f[<<low, high>>] = pupa_bsearchIn(c, f, <<low, high>>[1], <<low, high>>[2])
    BY <1>4, <2>1, Zenon
  <2> QED
    BY <2>2
<1> QED
  BY <1>3, <1>5

(* An element that is greater than the items before position pos and smaller *)
(* than those from there on.                                                 *)
Place(c, n, pos) ==
    /\ pos \in 0 .. n
    /\ \A i \in 0 .. n - 1 : IF i < pos THEN c[i] > 0 ELSE c[i] < 0

Smallest(c, n) == n > 0 /\ \A i \in 0 .. n - 1 : c[i] < 0

(* How an element that is not in a sorted index compares with its items and *)
(* with itself behind them.                                                 *)
Insertion(c, n) ==
    /\ Comparison(c, n)
    /\ c[n] = 0
    /\ \A i \in 0 .. n - 1 : c[i] # 0
    /\ \A i, j \in 0 .. n - 1 : i < j /\ c[i] < 0 => c[j] < 0

(* Every item below low is smaller and every one above high is greater. *)
Between(c, n, low, high) ==
    /\ \A i \in 0 .. n - 1 : /\ i < low => c[i] > 0
                             /\ i > high => c[i] < 0
    /\ n = 0 => high = 0

(* Wherever pupa_bsearch stops, it is where the element belongs, and it    *)
(* never ends for nothing but an element that belongs before all the items *)
(* there are.                                                              *)
THEOREM pupa_bsearchPlaces ==
    ASSUME NEW n \in Nat, NEW c, Insertion(c, n)
    PROVE  \/ pupa_bsearch(c, n) = Diverges /\ Smallest(c, n)
           \/ Place(c, n, pupa_bsearch(c, n))
<1>1. PICK f : /\ \A low \in 0 .. n, high \in -1 .. n :
                     f[<<low, high>>] = pupa_bsearchIn(c, f, low, high)
               /\ pupa_bsearch(c, n) = f[<<0, n>>]
  BY pupa_bsearchIs DEF Insertion
<1> DEFINE Right(pos) == (pos = Diverges /\ Smallest(c, n)) \/ Place(c, n, pos)
           Wrong == {r \in Bounds(n) : Between(c, n, r[1], r[2]) /\ ~Right(f[r])}
<1>2. Wrong = {}
  <2> SUFFICES ASSUME Wrong # {} PROVE FALSE
    OBVIOUS
  <2>1. PICK r \in Wrong : \A q \in Wrong : r[2] - r[1] <= q[2] - q[1]
    <3>1. Wrong \in SUBSET ((0 .. n) \X (-1 .. n))
      BY DEF Bounds
    <3> HIDE DEF Wrong
    <3> QED
      BY <3>1, Shortest
  <2>2. PICK low \in 0 .. n, high \in -1 .. n : r = <<low, high>>
    BY DEF Bounds
  <2>3. Between(c, n, low, high) /\ ~Right(f[<<low, high>>])
    BY <2>2
  <2>4. \A a \in 0 .. n, b \in -1 .. n : b - a < high - low /\ Between(c, n, a, b) =>
            Right(f[<<a, b>>])
    <3> TAKE a \in 0 .. n, b \in -1 .. n
    <3> HAVE b - a < high - low /\ Between(c, n, a, b)
    <3>1. <<a, b>> \notin Wrong
      BY <2>1, <2>2
    <3>2. <<a, b>> \in Bounds(n) /\ <<a, b>>[1] = a /\ <<a, b>>[2] = b
      BY DEF Bounds
    <3> QED
      BY <3>1, <3>2
  <2> HIDE DEF Right, Wrong
  <2>5. f[<<low, high>>] = pupa_bsearchIn(c, f, low, high)
    BY <1>1
  <2>6. \A i \in -1 .. n : c[i] \in Int
    BY DEF Insertion, Comparison
  <2>7. CASE high = -1
    <3>1. n # 0 /\ \A i \in 0 .. n - 1 : c[i] < 0
      BY <2>3, <2>7 DEF Between
    <3>2. Right(Diverges) /\ Right(0)
      BY <3>1 DEF Right, Smallest, Place
    <3>3. pupa_bsearchIn(c, f, low, high) \in {0, Diverges}
      BY <2>7 DEF pupa_bsearchIn
    <3> QED
      BY <2>3, <2>5, <3>2, <3>3
  <2>8. CASE high >= 0 /\ high <= low
    <3>1. pupa_bsearchIn(c, f, low, high) = Beside(c, low)
      BY <2>8 DEF pupa_bsearchIn
    <3>2. Place(c, n, Beside(c, low))
      <4>1. CASE c[low] > 0
        <5>1. low # n
          BY <4>1 DEF Insertion
        <5>2. Beside(c, low) = low + 1
          BY <4>1 DEF Beside
        <5> QED
          BY <2>3, <2>8, <4>1, <5>1, <5>2 DEF Place, Between
      <4>2. CASE ~ (c[low] > 0)
        <5>1. Beside(c, low) = low
          BY <4>2 DEF Beside
        <5>2. low \in 0 .. n - 1 => c[low] < 0
          BY <2>6, <4>2 DEF Insertion
        <5> QED
          BY <2>3, <2>8, <5>1, <5>2 DEF Place, Between
      <4> QED
        BY <4>1, <4>2
    <3> QED
      BY <2>3, <2>5, <3>1, <3>2 DEF Right
  <2>9. CASE high > low
    <3> DEFINE mid == (low + high) \div 2
    <3>1. mid \in low .. high - 1 /\ mid \in 0 .. n - 1
      BY <2>9
    <3>2. /\ c[mid] > 0 => pupa_bsearchIn(c, f, low, high) = f[<<mid + 1, high>>]
          /\ c[mid] < 0 => pupa_bsearchIn(c, f, low, high) = f[<<low, mid - 1>>]
      BY <2>6, <2>9, <3>1 DEF pupa_bsearchIn
    <3> HIDE DEF mid
    <3>3. CASE c[mid] > 0
      <4>1. \A i \in 0 .. n - 1 : i < mid + 1 => c[i] > 0
        BY <2>6, <3>1, <3>3 DEF Insertion
      <4>2. Between(c, n, mid + 1, high)
        BY <2>3, <4>1 DEF Between
      <4> QED
        BY <2>3, <2>4, <2>5, <3>1, <3>2, <3>3, <4>2
    <3>4. CASE c[mid] < 0
      <4>1. \A i \in 0 .. n - 1 : i > mid - 1 => c[i] < 0
        BY <2>6, <3>1, <3>4 DEF Insertion
      <4>2. Between(c, n, low, mid - 1)
        BY <2>3, <3>1, <4>1 DEF Between
      <4> QED
        BY <2>3, <2>4, <2>5, <3>1, <3>2, <3>4, <4>2
    <3> QED
      BY <2>6, <3>1, <3>3, <3>4 DEF Insertion
  <2> QED
    BY <2>7, <2>8, <2>9
<1>3. <<0, n>> \in Bounds(n) /\ Between(c, n, <<0, n>>[1], <<0, n>>[2])
  BY DEF Bounds, Between
<1>4. Right(f[<<0, n>>])
  BY <1>2, <1>3
<1> QED
  BY <1>1, <1>4
=============================================================================
