------------------------- MODULE PupaInsertionProofs -------------------------
(***************************************************************************)
(* Theorems about the index that pupa_sort builds, for every set of keys   *)
(* and every order in which they come.                                     *)
(***************************************************************************)
EXTENDS PupaInsertion, PupaSortProofs, SequenceTheorems

-----------------------------------------------------------------------------
(* The sizes at which pupa_bsearch does not end. *)

Leads(f, n) == f = [m \in 0 .. n |-> IF m < 4 THEN m ELSE f[m \div 2]]

(* The leading digits of every number are those of its half. *)
LEMMA LeadingIs ==
    ASSUME NEW n \in Nat
    PROVE  \E f : /\ \A m \in 0 .. n : f[m] = IF m < 4 THEN m ELSE f[m \div 2]
                  /\ Leading(n) = f[n]
<1> DEFINE Bad == {x \in Nat : ~ \E f : Leads(f, x)}
           lead == CHOOSE f : Leads(f, n)
<1>1. \A x \in Nat : (\E f : \A m \in 0 .. x : m # x => f[m] = IF m < 4 THEN m ELSE f[m \div 2])
                     => x \notin Bad
  <2> TAKE x \in Nat
  <2> HAVE \E f : \A m \in 0 .. x : m # x => f[m] = IF m < 4 THEN m ELSE f[m \div 2]
  <2>1. PICK f : \A m \in 0 .. x : m # x => f[m] = IF m < 4 THEN m ELSE f[m \div 2]
    OBVIOUS
  <2> DEFINE g == [m \in 0 .. x |-> IF m < 4 THEN m ELSE f[m \div 2]]
  <2>2. \A m \in 0 .. x : m >= 4 => m \div 2 \in 0 .. x /\ m \div 2 # x
    OBVIOUS
  <2>3. \A m \in 0 .. x : (IF m < 4 THEN m ELSE f[m \div 2]) = IF m < 4 THEN m ELSE g[m \div 2]
    BY <2>1, <2>2
  <2>4. g = [m \in 0 .. x |-> IF m < 4 THEN m ELSE f[m \div 2]]
    OBVIOUS
  <2> HIDE DEF g
  <2>5. Leads(g, x)
    BY <2>3, <2>4, Zenon DEF Leads
  <2> QED
    BY <2>5
<1>2. Bad = {}
  <2> SUFFICES ASSUME Bad # {} PROVE FALSE
    OBVIOUS
  <2>1. PICK x \in Bad : \A y \in Bad : x <= y
    <3>1. Bad \in SUBSET Nat
      OBVIOUS
    <3> HIDE DEF Bad
    <3> QED
      BY <3>1, Least
  <2>2. CASE x = 0
    BY <1>1, <2>2
  <2>3. CASE x # 0
    <3>1. x - 1 \in Nat /\ x - 1 \notin Bad
      BY <2>1, <2>3
    <3>2. PICK f : Leads(f, x - 1)
      BY <3>1
    <3>3. \A m \in 0 .. x - 1 : f[m] = IF m < 4 THEN m ELSE f[m \div 2]
      BY <3>2, Zenon DEF Leads
    <3>4. \A m \in 0 .. x : m # x => f[m] = IF m < 4 THEN m ELSE f[m \div 2]
      BY <3>3
    <3> QED
      BY <1>1, <3>4
  <2> QED
    BY <2>2, <2>3
<1>3. Leads(lead, n)
  BY <1>2
<1>4. Leading(n) = lead[n]
  BY Zenon DEF Leading, Leads
<1> HIDE DEF lead
<1>5. \A m \in 0 .. n : lead[m] = IF m < 4 THEN m ELSE lead[m \div 2]
  BY <1>3, Zenon DEF Leads
<1> QED
  BY <1>4, <1>5

(* From a new smallest element pupa_bsearch does not end only if the size, *)
(* plus two, begins with the binary digits 11.                             *)
THEOREM pupa_bsearchDiverges ==
    ASSUME NEW n \in Nat, NEW c, Comparison(c, n), c[n] = 0, Smallest(c, n),
           pupa_bsearch(c, n) = Diverges
    PROVE  Leading(n + 2) = 3
<1>1. PICK f : /\ \A low \in 0 .. n, high \in -1 .. n :
                     f[<<low, high>>] = pupa_bsearchIn(c, f, low, high)
               /\ pupa_bsearch(c, n) = f[<<0, n>>]
  BY pupa_bsearchIs
<1>2. PICK lead : /\ \A m \in 0 .. n + 2 : lead[m] = IF m < 4 THEN m ELSE lead[m \div 2]
                  /\ Leading(n + 2) = lead[n + 2]
  BY LeadingIs
<1> DEFINE Wrong == {h \in 0 .. n : f[<<0, h>>] = Diverges /\ lead[h + 2] # 3}
<1>3. Wrong = {}
  <2> SUFFICES ASSUME Wrong # {} PROVE FALSE
    OBVIOUS
  <2>1. PICK h \in Wrong : \A g \in Wrong : h <= g
    <3>1. Wrong \in SUBSET Nat
      OBVIOUS
    <3> HIDE DEF Wrong
    <3> QED
      BY <3>1, Least
  <2>2. h \in 0 .. n /\ f[<<0, h>>] = Diverges /\ lead[h + 2] # 3
    OBVIOUS
  <2>3. \A g \in 0 .. n : g < h /\ f[<<0, g>>] = Diverges => lead[g + 2] = 3
    BY <2>1
  <2> HIDE DEF Wrong
  <2>4. f[<<0, h>>] = pupa_bsearchIn(c, f, 0, h)
    <3>1. 0 \in 0 .. n /\ h \in -1 .. n
      BY <2>2
    <3> QED
      BY <1>1, <3>1
  <2>5. CASE h = 0
    <3>1. pupa_bsearchIn(c, f, 0, h) = Beside(c, 0)
      BY <2>5 DEF pupa_bsearchIn
    <3>2. Beside(c, 0) \in {0, 1}
      BY DEF Beside
    <3> QED
      BY <2>2, <2>4, <3>1, <3>2 DEF Diverges
  <2>6. CASE h > 0
    <3> DEFINE mid == h \div 2
    <3>1. mid \in 0 .. n - 1 /\ mid < h
      BY <2>2, <2>6
    <3>2. c[mid] < 0 /\ c[mid] \in Int
      BY <3>1 DEF Smallest, Comparison
    <3>3. pupa_bsearchIn(c, f, 0, h) = f[<<0, mid - 1>>]
      BY <2>2, <2>6, <3>2 DEF pupa_bsearchIn
    <3>4. h \in Nat /\ h + 2 \in 0 .. n + 2
      BY <2>2
    <3>7. mid = 0 => h = 1
      BY <2>6, <3>4
    <3>8. mid > 0 => h + 2 >= 4 /\ (h + 2) \div 2 = mid - 1 + 2
      BY <3>4
    <3> HIDE DEF mid
    <3>5. CASE mid = 0
      <4>1. h = 1
        BY <3>5, <3>7
      <4>2. lead[3] = 3
        BY <1>2, <3>4, <4>1
      <4> QED
        BY <2>2, <4>1, <4>2
    <3>6. CASE mid > 0
      <4>1. mid - 1 \in 0 .. n /\ mid - 1 < h
        BY <3>1, <3>4, <3>6
      <4>2. lead[mid - 1 + 2] = 3
        BY <2>2, <2>3, <2>4, <3>3, <4>1
      <4>3. h + 2 >= 4 /\ (h + 2) \div 2 = mid - 1 + 2
        BY <3>6, <3>8
      <4>4. lead[h + 2] = lead[(h + 2) \div 2]
        BY <1>2, <3>4, <4>3
      <4> QED
        BY <2>2, <4>2, <4>3, <4>4
    <3> QED
      BY <3>1, <3>5, <3>6
  <2> QED
    BY <2>2, <2>5, <2>6
<1>4. n \in 0 .. n
  OBVIOUS
<1> QED
  BY <1>1, <1>2, <1>3, <1>4

-----------------------------------------------------------------------------
(* The index that pupa_sort builds. *)

Ordered == \A i, j \in DOMAIN items : i < j => items[i] < items[j]

InsertionInv ==
    /\ items \in Seq(Orders)
    /\ Ordered
    /\ diverged = None \/ diverged \in Orders
    /\ DivergesOnlyOnMinimum

(* What InsertAt makes of a sequence. *)
LEMMA InsertAtIs ==
    ASSUME NEW S, NEW s \in Seq(S), NEW e \in S, NEW p \in Int, 1 <= p, p <= Len(s) + 1
    PROVE  /\ InsertAt(s, p, e) \in Seq(S)
           /\ Len(InsertAt(s, p, e)) = Len(s) + 1
           /\ \A i \in 1 .. Len(s) + 1 :
                 InsertAt(s, p, e)[i] = IF i < p THEN s[i] ELSE IF i = p THEN e ELSE s[i - 1]
<1> DEFINE a == SubSeq(s, 1, p - 1)
           b == SubSeq(s, p, Len(s))
           t == a \o <<e>>
<1>1. /\ a \in Seq(S) /\ Len(a) = p - 1 /\ \A i \in 1 .. p - 1 : a[i] = s[i]
      /\ b \in Seq(S) /\ Len(b) = Len(s) - p + 1
      /\ \A i \in 1 .. Len(s) - p + 1 : b[i] = s[i + p - 1]
  OBVIOUS
<1> HIDE DEF a, b
<1>2. t \in Seq(S) /\ Len(t) = p /\ (\A i \in 1 .. p - 1 : t[i] = s[i]) /\ t[p] = e
  <2>1. <<e>> \in Seq(S) /\ Len(<<e>>) = 1 /\ <<e>>[1] = e
    OBVIOUS
  <2>2. /\ t \in Seq(S)
        /\ Len(t) = Len(a) + Len(<<e>>)
        /\ \A i \in 1 .. Len(a) + Len(<<e>>) : t[i] = IF i <= Len(a) THEN a[i] ELSE <<e>>[i - Len(a)]
    BY <1>1, <2>1, ConcatProperties
  <2> HIDE DEF t
  <2> QED
    BY <1>1, <2>1, <2>2
<1> HIDE DEF t
<1>7. /\ t \o b \in Seq(S)
      /\ Len(t \o b) = Len(t) + Len(b)
      /\ \A i \in 1 .. Len(t) + Len(b) : (t \o b)[i] = IF i <= Len(t) THEN t[i] ELSE b[i - Len(t)]
  <2>1. t \in Seq(S) /\ b \in Seq(S)
    BY <1>1, <1>2
  <2> QED
    BY <2>1, ConcatProperties
<1>3. t \o b \in Seq(S) /\ Len(t \o b) = Len(s) + 1
  BY <1>1, <1>2, <1>7
<1>4. \A i \in 1 .. Len(s) + 1 : (t \o b)[i] = IF i <= p THEN t[i] ELSE b[i - p]
  BY <1>1, <1>2, <1>7
<1>5. \A i \in 1 .. Len(s) + 1 :
         (t \o b)[i] = IF i < p THEN s[i] ELSE IF i = p THEN e ELSE s[i - 1]
  BY <1>1, <1>2, <1>4
<1>6. InsertAt(s, p, e) = t \o b
  BY DEF InsertAt, t, a, b
<1> QED
  BY <1>3, <1>5, <1>6

LEMMA ItemsType ==
    ASSUME items \in Seq(Orders)
    PROVE  Len(items) \in Nat /\ \A i \in 1 .. Len(items) : items[i] \in Orders /\ items[i] \in Nat
<1>1. \A i \in 1 .. Len(items) : items[i] \in Orders
  OBVIOUS
<1>2. Len(items) \in Nat
  OBVIOUS
<1> QED
  BY <1>1, <1>2, OrdersAssumption

(* In an ordered index an element that is not there compares as it should. *)
LEMMA cmpIs ==
    ASSUME items \in Seq(Orders), Ordered, NEW e \in Orders, e \notin ToSet(items),
           NEW before \in {-1, 0, 1}
    PROVE  /\ Insertion(cmp(e, before), Len(items))
           /\ \A i \in 0 .. Len(items) - 1 : cmp(e, before)[i] = e - items[i + 1]
<1> DEFINE n == Len(items)
           c == cmp(e, before)
<1>1. n \in Nat /\ e \in Nat /\ \A i \in 1 .. n : items[i] \in Nat /\ items[i] # e
  <2>1. Orders \subseteq Nat
    BY OrdersAssumption
  <2>2. n \in Nat /\ \A i \in 1 .. n : items[i] \in Orders
    OBVIOUS
  <2>3. \A i \in 1 .. n : items[i] # e
    BY <2>2 DEF ToSet
  <2> QED
    BY <2>1, <2>2, <2>3
<1>2. c[n] = 0
  BY <1>1 DEF cmp
<1>3. \A i \in 0 .. n - 1 : i # -1 /\ i # n /\ i + 1 \in 1 .. n
  BY <1>1
<1>4. \A i \in 0 .. n - 1 : c[i] = e - items[i + 1]
  BY <1>1, <1>3 DEF cmp
<1>5. c[-1] = before
  BY <1>1 DEF cmp
<1>6. c = [i \in -1 .. n |-> c[i]]
  BY DEF cmp
<1> HIDE DEF c
<1>7. \A i \in -1 .. n : c[i] \in Int
  <2> TAKE i \in -1 .. n
  <2>1. i = -1 \/ i = n \/ i \in 0 .. n - 1
    BY <1>1
  <2> QED
    BY <1>1, <1>2, <1>3, <1>4, <1>5, <2>1
<1>8. Comparison(c, n)
  BY <1>6, <1>7, Zenon DEF Comparison
<1>9. \A i, j \in 0 .. n - 1 : i < j => items[i + 1] < items[j + 1]
  BY <1>1, <1>3 DEF Ordered
<1>10. \A i \in 0 .. n - 1 : c[i] # 0
  BY <1>1, <1>3, <1>4
<1>11. \A i, j \in 0 .. n - 1 : i < j /\ c[i] < 0 => c[j] < 0
  <2> TAKE i, j \in 0 .. n - 1
  <2> HAVE i < j /\ c[i] < 0
  <2>1. items[i + 1] \in Nat /\ items[j + 1] \in Nat /\ items[i + 1] < items[j + 1]
    BY <1>1, <1>3, <1>9
  <2> QED
    BY <1>1, <1>4, <2>1
<1>12. Insertion(c, n)
  BY <1>2, <1>8, <1>10, <1>11 DEF Insertion
<1> QED
  BY <1>4, <1>12 DEF c

(* t is the first n elements of s, in ascending order, with e put in behind *)
(* the p-th, where it belongs.                                              *)
PutIn(s, n, e, p, t) ==
    /\ n \in Nat /\ p \in 0 .. n /\ e \in Nat
    /\ \A i \in 1 .. n : s[i] \in Nat
    /\ \A i, j \in 1 .. n : i < j => s[i] < s[j]
    /\ \A i \in 1 .. n : IF i <= p THEN s[i] < e ELSE e < s[i]
    /\ \A i \in 1 .. n + 1 : /\ i <= p => i \in 1 .. n /\ t[i] = s[i]
                             /\ i = p + 1 => t[i] = e
                             /\ i > p + 1 => i - 1 \in 1 .. n /\ t[i] = s[i - 1]

LEMMA PutInOrder ==
    ASSUME NEW s, NEW n, NEW e, NEW p, NEW t, PutIn(s, n, e, p, t)
    PROVE  \A i, j \in 1 .. n + 1 : i < j => t[i] < t[j]
<1> USE DEF PutIn
<1> TAKE i, j \in 1 .. n + 1
<1> HAVE i < j
<1>1. i \in Nat /\ j \in Nat /\ p \in Nat
  OBVIOUS
<1>2. CASE j <= p
  <2>1. i \in 1 .. n /\ j \in 1 .. n /\ t[i] = s[i] /\ t[j] = s[j]
    BY <1>1, <1>2
  <2> QED
    BY <2>1
<1>3. CASE j = p + 1
  <2>1. i \in 1 .. n /\ i <= p /\ t[i] = s[i] /\ t[j] = e
    BY <1>1, <1>3
  <2> QED
    BY <2>1
<1>4. CASE j > p + 1 /\ i <= p
  <2>1. /\ i \in 1 .. n /\ j - 1 \in 1 .. n /\ i < j - 1
        /\ t[i] = s[i] /\ t[j] = s[j - 1]
    BY <1>1, <1>4
  <2> QED
    BY <2>1
<1>5. CASE j > p + 1 /\ i = p + 1
  <2>1. j - 1 \in 1 .. n /\ ~ (j - 1 <= p) /\ t[i] = e /\ t[j] = s[j - 1]
    BY <1>1, <1>5
  <2> QED
    BY <2>1
<1>6. CASE i > p + 1
  <2>1. /\ i - 1 \in 1 .. n /\ j - 1 \in 1 .. n /\ i - 1 < j - 1
        /\ t[i] = s[i - 1] /\ t[j] = s[j - 1]
    BY <1>1, <1>6
  <2> QED
    BY <2>1
<1> QED
  BY <1>1, <1>2, <1>3, <1>4, <1>5, <1>6

(* What pupa_sort does to the index once it knows the position. *)
PutAt(e, pos) ==
    items' = IF pos < Len(items) THEN InsertAt(items, pos + 1, e) ELSE Append(items, e)

(* An insertion that ends keeps the index in order. *)
LEMMA InsertedOrdered ==
    ASSUME items \in Seq(Orders), Ordered, NEW e \in Orders, e \notin ToSet(items),
           NEW before \in {-1, 0, 1}, NEW pos, Place(cmp(e, before), Len(items), pos),
           PutAt(e, pos)
    PROVE  items' \in Seq(Orders) /\ Ordered'
<1> DEFINE n == Len(items)
           c == cmp(e, before)
<1>1. n \in Nat /\ \A i \in 1 .. n : items[i] \in Orders
  OBVIOUS
<1>2. pos \in 0 .. n
  BY DEF Place
<1>3. \A i \in 0 .. n - 1 : c[i] = e - items[i + 1]
  BY cmpIs
<1>4. e \in Nat /\ \A i \in 1 .. n : items[i] \in Nat
  BY <1>1, OrdersAssumption
<1>5. \A i \in 1 .. n : IF i <= pos THEN items[i] < e ELSE e < items[i]
  <2> TAKE i \in 1 .. n
  <2>1. i - 1 \in 0 .. n - 1 /\ (i - 1) + 1 = i
    OBVIOUS
  <2>2. IF i - 1 < pos THEN c[i - 1] > 0 ELSE c[i - 1] < 0
    BY <2>1 DEF Place
  <2>3. c[i - 1] = e - items[i]
    BY <1>3, <2>1
  <2> HIDE DEF c
  <2> QED
    BY <1>2, <1>4, <2>2, <2>3
<1>6. /\ items' \in Seq(Orders)
      /\ Len(items') = n + 1
      /\ \A i \in 1 .. n + 1 :
            items'[i] = IF i < pos + 1 THEN items[i] ELSE IF i = pos + 1 THEN e ELSE items[i - 1]
  <2>1. CASE pos < n
    <3>1. pos + 1 \in 1 .. n + 1 /\ items' = InsertAt(items, pos + 1, e)
      BY <1>1, <1>2, <2>1 DEF PutAt
    <3> DEFINE p == pos + 1
               t == InsertAt(items, p, e)
    <3> HIDE DEF p
    <3>2. p \in Int /\ 1 <= p /\ p <= Len(items) + 1
      BY <3>1 DEF p
    <3>3. /\ t \in Seq(Orders)
          /\ Len(t) = Len(items) + 1
          /\ \A i \in 1 .. Len(items) + 1 :
                t[i] = IF i < p THEN items[i] ELSE IF i = p THEN e ELSE items[i - 1]
      BY <3>2, InsertAtIs
    <3> QED
      BY <3>1, <3>3 DEF p
  <2>2. CASE ~ (pos < n)
    <3>1. pos = n /\ items' = Append(items, e)
      BY <1>1, <1>2, <2>2 DEF PutAt
    <3> QED
      BY <1>1, <3>1, AppendProperties
  <2> QED
    BY <2>1, <2>2
<1>7. \A i \in 1 .. n + 1 : /\ i <= pos => i \in 1 .. n /\ items'[i] = items[i]
                            /\ i = pos + 1 => items'[i] = e
                            /\ i > pos + 1 => i - 1 \in 1 .. n /\ items'[i] = items[i - 1]
  BY <1>1, <1>2, <1>6
<1>8. \A i, j \in 1 .. n : i < j => items[i] < items[j]
  BY <1>1 DEF Ordered
<1>9. \A i, j \in 1 .. n + 1 : i < j => items'[i] < items'[j]
  <2>1. n \in Nat /\ pos \in 0 .. n /\ e \in Nat
    BY <1>1, <1>2, <1>4
  <2>2. \A i \in 1 .. n : items[i] \in Nat
    BY <1>4
  <2>3. PutIn(items, n, e, pos, items')
    <3> HIDE DEF n
    <3> QED
      BY <2>1, <2>2, <1>5, <1>7, <1>8, Zenon DEF PutIn
  <2> HIDE DEF n
  <2> QED
    BY <2>3, PutInOrder, Zenon
<1> QED
  BY <1>1, <1>6, <1>9 DEF Ordered

LEMMA NextInsertionInv ==
    InsertionInv /\ [Next]_vars => InsertionInv'
<1> SUFFICES ASSUME InsertionInv, [Next]_vars PROVE InsertionInv'
  OBVIOUS
<1> USE DEF InsertionInv
<1>1. ASSUME NEW e \in Orders, Add(e)
      PROVE  InsertionInv'
  <2> DEFINE n == Len(items)
  <2>1. n \in Nat /\ diverged = None /\ e \notin ToSet(items)
    BY <1>1 DEF Add
  <2>2. PICK before \in {-1, 0, 1} :
           LET pos == pupa_bsearch(cmp(e, before), n)
           IN  IF pos = Diverges
               THEN diverged' = e /\ UNCHANGED items
               ELSE /\ items' = IF pos < n THEN InsertAt(items, pos + 1, e) ELSE Append(items, e)
                    /\ UNCHANGED diverged
    BY <1>1 DEF Add, pupa_sort
  <2> DEFINE c == cmp(e, before)
             pos == pupa_bsearch(c, n)
  <2>3. Insertion(c, n) /\ \A i \in 0 .. n - 1 : c[i] = e - items[i + 1]
    BY <2>1, cmpIs
  <2>4. (pos = Diverges /\ Smallest(c, n)) \/ Place(c, n, pos)
    <3> HIDE DEF c
    <3> QED
      BY <2>1, <2>3, pupa_bsearchPlaces
  <2>5. CASE pos = Diverges
    <3>1. diverged' = e /\ items' = items
      BY <2>2, <2>5
    <3>2. ~ Place(c, n, pos)
      <4> HIDE DEF c, pos
      <4> QED
        BY <2>5 DEF Place, Diverges
    <3>3. Smallest(c, n)
      BY <2>4, <3>2
    <3>4. Leading(n + 2) = 3
      <4> HIDE DEF c
      <4> QED
        BY <2>1, <2>3, <2>5, <3>3, pupa_bsearchDiverges DEF Insertion
    <3>5. \A i \in 1 .. n : e < items[i]
      <4> TAKE i \in 1 .. n
      <4>1. i - 1 \in 0 .. n - 1 /\ (i - 1) + 1 = i
        OBVIOUS
      <4>2. c[i - 1] < 0 /\ c[i - 1] = e - items[i]
        <5> HIDE DEF c
        <5> QED
          BY <2>3, <3>3, <4>1 DEF Smallest
      <4>3. e \in Nat /\ items[i] \in Nat
        BY ItemsType, OrdersAssumption
      <4> HIDE DEF c
      <4> QED
        BY <4>2, <4>3
    <3>6. DivergesOnlyOnMinimum'
      <4>1. DOMAIN items = 1 .. n
        OBVIOUS
      <4> QED
        BY <3>1, <3>4, <3>5, <4>1 DEF DivergesOnlyOnMinimum
    <3> QED
      BY <3>1, <3>6 DEF Ordered
  <2>6. CASE pos # Diverges
    <3>1. PutAt(e, pos) /\ diverged' = None
      BY <2>1, <2>2, <2>6 DEF PutAt
    <3>2. Place(c, n, pos)
      BY <2>4, <2>6
    <3>3. items' \in Seq(Orders) /\ Ordered'
      <4> HIDE DEF pos
      <4> QED
        BY <2>1, <3>1, <3>2, InsertedOrdered
    <3> QED
      BY <3>1, <3>3 DEF DivergesOnlyOnMinimum
  <2> QED
    BY <2>5, <2>6
<1>2. CASE UNCHANGED vars
  BY <1>2 DEF vars, Ordered, DivergesOnlyOnMinimum
<1> QED
  BY <1>1, <1>2 DEF Next

LEMMA SpecInsertionInv ==
    Spec => []InsertionInv
<1>1. Init => InsertionInv
  BY DEF Init, InsertionInv, Ordered, DivergesOnlyOnMinimum
<1> QED
  BY <1>1, NextInsertionInv, PTL DEF Spec

(* However many keys there are and in whatever order they come, the index  *)
(* that pupa_sort builds is in order after every insertion that ends.      *)
THEOREM SortKeepsOrder ==
    Spec => []Sorted
<1>1. InsertionInv => Sorted
  <2> SUFFICES ASSUME InsertionInv, NEW i \in 2 .. Len(items) PROVE items[i - 1] < items[i]
    BY DEF Sorted
  <2>1. i - 1 \in DOMAIN items /\ i \in DOMAIN items /\ i - 1 < i
    BY DEF InsertionInv
  <2> QED
    BY <2>1 DEF InsertionInv, Ordered
<1> QED
  BY <1>1, SpecInsertionInv, PTL

(* An insertion that does not end is that of a new smallest key, into an    *)
(* index of one of the sizes that begin, plus two, with the binary digits   *)
(* 11.                                                                      *)
THEOREM OnlyMinimumDiverges ==
    Spec => []DivergesOnlyOnMinimum
<1>1. InsertionInv => DivergesOnlyOnMinimum
  BY DEF InsertionInv
<1> QED
  BY <1>1, SpecInsertionInv, PTL

(* In the index that pupa_sort builds bsearch finds every key that is there *)
(* and no other.                                                            *)
THEOREM SearchIsExact ==
    Spec => []bsearchExact
<1>1. InsertionInv => bsearchExact
  <2> SUFFICES ASSUME InsertionInv, NEW e \in Orders
               PROVE  LET i == bsearch([j \in 0 .. Len(items) - 1 |-> e - items[j + 1]], Len(items))
                      IN  IF i = NotFound THEN e \notin ToSet(items) ELSE items[i + 1] = e
    BY DEF bsearchExact
  <2> DEFINE n == Len(items)
             c == [j \in 0 .. n - 1 |-> e - items[j + 1]]
  <2>1. n \in Nat /\ e \in Nat /\ \A j \in 1 .. n : items[j] \in Nat
    BY ItemsType, OrdersAssumption DEF InsertionInv
  <2>2. \A j \in 0 .. n - 1 : j + 1 \in 1 .. n /\ items[j + 1] \in Nat /\ c[j] = e - items[j + 1]
    BY <2>1
  <2>3. \A i, j \in 0 .. n - 1 : i < j => items[i + 1] < items[j + 1]
    BY <2>1, <2>2 DEF InsertionInv, Ordered
  <2>4. c \in [0 .. n - 1 -> Int]
    BY <2>1, <2>2
  <2> HIDE DEF c
  <2>5. Decreasing(c, n)
    <3>1. \A i, j \in 0 .. n - 1 : i < j /\ c[i] <= 0 => c[j] < 0
      <4> TAKE i, j \in 0 .. n - 1
      <4> HAVE i < j /\ c[i] <= 0
      <4>1. /\ c[i] = e - items[i + 1] /\ c[j] = e - items[j + 1]
            /\ items[i + 1] < items[j + 1]
            /\ items[i + 1] \in Nat /\ items[j + 1] \in Nat
        BY <2>2, <2>3
      <4> QED
        BY <2>1, <4>1
    <3> QED
      BY <2>4, <3>1 DEF Decreasing
  <2>6. bsearch(c, n) = Found(c, 0, n)
    BY <2>1, <2>5, bsearchFinds
  <2>7. CASE \E j \in 0 .. n - 1 : c[j] = 0
    <3>1. Found(c, 0, n) \in 0 .. n - 1 /\ c[Found(c, 0, n)] = 0
      BY <2>7 DEF Found
    <3>2. items[Found(c, 0, n) + 1] = e
      BY <2>1, <2>2, <3>1
    <3> QED
      BY <2>6, <3>1, <3>2 DEF NotFound, c
  <2>8. CASE ~ \E j \in 0 .. n - 1 : c[j] = 0
    <3>1. Found(c, 0, n) = NotFound
      BY <2>8 DEF Found
    <3>2. \A j \in 1 .. n : items[j] # e
      <4> TAKE j \in 1 .. n
      <4>1. j - 1 \in 0 .. n - 1 /\ (j - 1) + 1 = j
        BY <2>1
      <4>2. c[j - 1] # 0 /\ c[j - 1] = e - items[j]
        BY <2>2, <2>8, <4>1
      <4> QED
        BY <2>1, <4>2
    <3>3. e \notin ToSet(items)
      BY <3>2 DEF ToSet, InsertionInv
    <3> QED
      BY <2>6, <3>1, <3>3 DEF c
  <2> QED
    BY <2>7, <2>8
<1> QED
  BY <1>1, SpecInsertionInv, PTL
=============================================================================
