---------------------------- MODULE PupaIndexProofs ----------------------------
(***************************************************************************)
(* What it is for an index of the store to hold a map from keys to values, *)
(* and how the operations of PupaStore on memory change that map: copying  *)
(* an index, putting an item behind the last one, pushing a version into   *)
(* an item, leaving the last item out; and what a search and a read of     *)
(* such an index find.                                                     *)
(***************************************************************************)
EXTENDS PupaStoreProofs, PupaSortProofs

(* What the file says. *)

KeyBase == KeySection(KeyCount).sec1

ValueBase == ValueSection(KeyCount).sec1

(* The text t is at address p of memory m. *)
TextAt(m, p, t) == \A i \in 0 .. TextLen[t] - 1 : At(m, p + i) = TextCell(t, i)

(* The struct c points to the text t, in what is used of an area. *)
PointsTo(m, c, base, used, t) ==
    /\ c.len = TextLen[t]
    /\ base <= c.off
    /\ c.off + TextLen[t] <= base + used
    /\ TextAt(m, c.off, t)

(* The header slot of an item with key k, when ku slots of keys are used. *)
HasKey(m, ku, item, k) == PointsTo(m, At(m, item), KeyBase, ku, k)

(* The versions of an item are vs, newest first. *)
HasVersions(m, vu, item, vs) ==
    /\ vs \in Seq(Values)
    /\ Len(vs) \in 1 .. MaxVer
    /\ At(m, item).cnt = Len(vs)
    /\ \A ver \in 1 .. Len(vs) :
          PointsTo(m, At(m, VersionSlot(item, ver)), ValueBase, vu, vs[ver])

(* _pupa_store_item_compare on keys. *)
Before(k, l) == TextLen[k] < TextLen[l] \/ (TextLen[k] = TextLen[l] /\ Rank[k] < Rank[l])

(* The n items at base are those of the keys ks, in ascending order, and hold *)
(* the map s.                                                                 *)
IndexOf(m, ku, vu, base, n, s, ks) ==
    /\ s \in [Keys -> Seq(Values)]
    /\ ks \in [0 .. n - 1 -> Keys]
    /\ \A i, j \in 0 .. n - 1 : i < j => Before(ks[i], ks[j])
    /\ \A k \in Keys : s[k] # <<>> => \E i \in 0 .. n - 1 : ks[i] = k
    /\ \A i \in 0 .. n - 1 : /\ HasKey(m, ku, ItemAt(base, i), ks[i])
                             /\ HasVersions(m, vu, ItemAt(base, i), s[ks[i]])

Holds(m, ku, vu, base, n, s) ==
    \E ks \in [0 .. n - 1 -> Keys] : IndexOf(m, ku, vu, base, n, s, ks)

-----------------------------------------------------------------------------
(* Where things are. *)

(* An item's slots, counted from the start of the index. *)
LEMMA ItemWithin ==
    ASSUME NEW n \in Nat, NEW i \in 0 .. n - 1, NEW x \in 0 .. MaxVer
    PROVE  ItemSlots * i + x \in 0 .. ItemSlots * n - 1
<1>1. MaxVer \in Nat /\ ItemSlots = 1 + MaxVer
  BY LayoutAssumption DEF ItemSlots
<1>2. ItemSlots * i \in Nat /\ ItemSlots * n \in Nat
  BY <1>1
<1>3. ItemSlots * (n - i) >= ItemSlots
  <2>1. n - i \in Nat /\ n - i >= 1
    OBVIOUS
  <2> QED
    BY <1>1, <2>1
<1>4. ItemSlots * (n - i) = ItemSlots * n - ItemSlots * i
  BY <1>1
<1> QED
  BY <1>1, <1>2, <1>3, <1>4

(* One item ends before the next begins. *)
LEMMA ItemsApart ==
    ASSUME NEW i \in Nat, NEW j \in Nat, i < j
    PROVE  ItemSlots * i + MaxVer < ItemSlots * j
<1>1. MaxVer \in Nat /\ i \in 0 .. j - 1 /\ MaxVer \in 0 .. MaxVer
  BY LayoutAssumption
<1>2. ItemSlots * i + MaxVer \in 0 .. ItemSlots * j - 1
  BY <1>1, ItemWithin
<1>3. ItemSlots * j \in Int
  BY LayoutType
<1> QED
  BY <1>2, <1>3

-----------------------------------------------------------------------------
(* What the operations on memory leave at an address. *)

LEMMA AtMemcpy ==
    ASSUME NEW m \in Mem, NEW dst, NEW src, NEW n, NEW a \in Slots
    PROVE  At(memcpy(m, dst, src, n), a) =
               IF a \in dst .. dst + n - 1 THEN At(m, src + (a - dst)) ELSE At(m, a)
BY DEF At, memcpy, Mem

LEMMA AtPutText ==
    ASSUME NEW m \in Mem, NEW p, NEW t, NEW a \in Slots
    PROVE  At(PutText(m, p, t), a) =
               IF a \in p .. p + TextLen[t] - 1 THEN TextCell(t, a - p) ELSE At(m, a)
BY DEF At, PutText, Mem

LEMMA AtPoint ==
    ASSUME NEW m \in Mem, NEW b, NEW off, NEW len
    PROVE  /\ \A a : a # b => At(Point(m, b, off, len), a) = At(m, a)
           /\ b \in Slots => /\ At(Point(m, b, off, len), b).off = off
                             /\ At(Point(m, b, off, len), b).len = len
                             /\ At(Point(m, b, off, len), b).text = NoText
                             /\ At(Point(m, b, off, len), b).cnt = At(m, b).cnt
<1>1. DOMAIN m = Slots /\ \A a \in Slots : m[a] \in Cells
  BY DEF Mem
<1>2. \A a : a # b => At(Point(m, b, off, len), a) = At(m, a)
  BY <1>1 DEF At, Point
<1>3. ASSUME b \in Slots
      PROVE  At(Point(m, b, off, len), b) = [m[b] EXCEPT !.text = NoText, !.off = off, !.len = len]
  BY <1>1, <1>3 DEF At, Point
<1>4. \A c \in Cells : LET d == [c EXCEPT !.text = NoText, !.off = off, !.len = len]
                       IN  d.off = off /\ d.len = len /\ d.text = NoText /\ d.cnt = c.cnt
  BY DEF Cells
<1>5. b \in Slots => At(m, b) = m[b] /\ m[b] \in Cells
  BY <1>1 DEF At
<1> QED
  BY <1>2, <1>3, <1>4, <1>5

LEMMA AtSetCnt ==
    ASSUME NEW m \in Mem, NEW b, NEW cnt
    PROVE  /\ \A a : a # b => At(SetCnt(m, b, cnt), a) = At(m, a)
           /\ b \in Slots => /\ At(SetCnt(m, b, cnt), b).off = At(m, b).off
                             /\ At(SetCnt(m, b, cnt), b).len = At(m, b).len
                             /\ At(SetCnt(m, b, cnt), b).text = At(m, b).text
                             /\ At(SetCnt(m, b, cnt), b).cnt = cnt
<1>1. DOMAIN m = Slots /\ \A a \in Slots : m[a] \in Cells
  BY DEF Mem
<1>2. \A a : a # b => At(SetCnt(m, b, cnt), a) = At(m, a)
  BY <1>1 DEF At, SetCnt
<1>3. ASSUME b \in Slots
      PROVE  At(SetCnt(m, b, cnt), b) = [m[b] EXCEPT !.cnt = cnt]
  BY <1>1, <1>3 DEF At, SetCnt
<1>4. \A c \in Cells : LET d == [c EXCEPT !.cnt = cnt]
                       IN  d.off = c.off /\ d.len = c.len /\ d.text = c.text /\ d.cnt = cnt
  BY DEF Cells
<1>5. b \in Slots => At(m, b) = m[b] /\ m[b] \in Cells
  BY <1>1 DEF At
<1> QED
  BY <1>2, <1>3, <1>4, <1>5

-----------------------------------------------------------------------------
(* An index lives on in a memory that has the same items, perhaps elsewhere,  *)
(* and the same texts.                                                        *)

Copied(m, from, m2, to, n) == \A x \in 0 .. n - 1 : At(m2, to + x) = At(m, from + x)

TextsStay(m, ku, vu, m2, ku2, vu2) ==
    /\ Copied(m, KeyBase, m2, KeyBase, ku)
    /\ Copied(m, ValueBase, m2, ValueBase, vu)
    /\ ku \in Nat /\ ku2 \in Nat /\ ku <= ku2
    /\ vu \in Nat /\ vu2 \in Nat /\ vu <= vu2

LEMMA TextType ==
    ASSUME NEW t \in Texts
    PROVE  TextLen[t] \in Nat \ {0} /\ Rank[t] \in Nat \ {0}
BY StoreAssumption DEF Texts

LEMMA BaseType ==
    KeyBase \in Nat /\ ValueBase \in Nat
BY LayoutType DEF KeyBase, ValueBase, Sections

LEMMA PointsToCarry ==
    ASSUME NEW m, NEW m2, NEW c \in Cells, NEW base \in Nat, NEW t \in Texts,
           NEW used \in Nat, NEW used2 \in Nat, used <= used2,
           Copied(m, base, m2, base, used), PointsTo(m, c, base, used, t)
    PROVE  PointsTo(m2, c, base, used2, t)
<1>1. TextLen[t] \in Nat
  BY TextType
<1>2. c.off \in Nat /\ base <= c.off /\ c.off + TextLen[t] <= base + used
  BY DEF Cells, PointsTo
<1>3. ASSUME NEW i \in 0 .. TextLen[t] - 1
      PROVE  At(m2, c.off + i) = TextCell(t, i)
  <2> DEFINE x == (c.off + i) - base
  <2>1. x \in 0 .. used - 1 /\ base + x = c.off + i
    BY <1>1, <1>2
  <2>2. At(m2, base + x) = At(m, base + x)
    BY <2>1 DEF Copied
  <2>3. At(m, c.off + i) = TextCell(t, i)
    BY DEF PointsTo, TextAt
  <2> QED
    BY <2>1, <2>2, <2>3
<1>4. c.off + TextLen[t] <= base + used2
  BY <1>1, <1>2
<1> QED
  BY <1>3, <1>4 DEF PointsTo, TextAt

LEMMA VersionSlotIs ==
    ASSUME NEW item \in Int, NEW ver \in 1 .. MaxVer
    PROVE  /\ VersionSlot(item, ver) = item + (1 + MaxVer - ver)
           /\ 1 + MaxVer - ver \in 1 .. MaxVer
           /\ 1 + MaxVer - ver \in 0 .. ItemSlots - 1
BY LayoutAssumption DEF VersionSlot, ItemSlots

LEMMA HasKeyCarry ==
    ASSUME NEW m \in Mem, NEW m2, NEW a, NEW a2, NEW ku \in Nat, NEW ku2 \in Nat,
           ku <= ku2, Copied(m, KeyBase, m2, KeyBase, ku), At(m2, a2) = At(m, a),
           NEW k \in Keys, HasKey(m, ku, a, k)
    PROVE  HasKey(m2, ku2, a2, k)
BY PointsToCarry, AtType, BaseType DEF HasKey, Texts

LEMMA HasVersionsCarry ==
    ASSUME NEW m \in Mem, NEW m2, NEW a \in Int, NEW a2 \in Int,
           NEW vu \in Nat, NEW vu2 \in Nat, vu <= vu2,
           Copied(m, ValueBase, m2, ValueBase, vu), Copied(m, a, m2, a2, ItemSlots),
           NEW vs, HasVersions(m, vu, a, vs)
    PROVE  HasVersions(m2, vu2, a2, vs)
<1>1. MaxVer \in Nat /\ Len(vs) \in 1 .. MaxVer /\ vs \in Seq(Values) /\ ItemSlots = 1 + MaxVer
  BY LayoutAssumption DEF HasVersions, ItemSlots
<1>2. At(m2, a2) = At(m, a)
  <2>1. 0 \in 0 .. ItemSlots - 1
    BY <1>1
  <2>2. At(m2, a2 + 0) = At(m, a + 0)
    BY <2>1, Zenon DEF Copied
  <2> QED
    BY <2>2
<1>3. ASSUME NEW ver \in 1 .. Len(vs)
      PROVE  PointsTo(m2, At(m2, VersionSlot(a2, ver)), ValueBase, vu2, vs[ver])
  <2>1. ver \in 1 .. MaxVer /\ vs[ver] \in Texts
    BY <1>1 DEF Texts
  <2>2. At(m2, VersionSlot(a2, ver)) = At(m, VersionSlot(a, ver))
    BY <2>1, VersionSlotIs DEF Copied
  <2>3. PointsTo(m, At(m, VersionSlot(a, ver)), ValueBase, vu, vs[ver])
    BY DEF HasVersions
  <2> QED
    BY <2>1, <2>2, <2>3, PointsToCarry, AtType, BaseType
<1> QED
  BY <1>1, <1>2, <1>3 DEF HasVersions

LEMMA ItemCopied ==
    ASSUME NEW m, NEW m2, NEW b \in Nat, NEW b2 \in Nat, NEW n \in Nat, NEW i \in 0 .. n - 1,
           Copied(m, b, m2, b2, ItemSlots * n)
    PROVE  /\ Copied(m, ItemAt(b, i), m2, ItemAt(b2, i), ItemSlots)
           /\ At(m2, ItemAt(b2, i)) = At(m, ItemAt(b, i))
           /\ ItemAt(b, i) \in Nat /\ ItemAt(b2, i) \in Nat
<1>1. ItemAt(b, i) \in Nat /\ ItemAt(b2, i) \in Nat
  <2>1. i \in Nat
    OBVIOUS
  <2> QED
    BY <2>1, ItemAtType
<1>2. ItemSlots = 1 + MaxVer /\ MaxVer \in Nat /\ ItemSlots * i \in Nat
  BY LayoutAssumption DEF ItemSlots
<1>3. ASSUME NEW x \in 0 .. ItemSlots - 1
      PROVE  At(m2, ItemAt(b2, i) + x) = At(m, ItemAt(b, i) + x)
  <2> DEFINE y == ItemSlots * i + x
  <2>1. x \in 0 .. MaxVer
    BY <1>2
  <2>2. y \in 0 .. ItemSlots * n - 1
    BY <2>1, ItemWithin
  <2>3. At(m2, b2 + y) = At(m, b + y)
    BY <2>2 DEF Copied
  <2>4. ItemAt(b2, i) + x = b2 + y /\ ItemAt(b, i) + x = b + y
    BY <1>2 DEF ItemAt
  <2> QED
    BY <2>3, <2>4
<1>4. At(m2, ItemAt(b2, i) + 0) = At(m, ItemAt(b, i) + 0)
  BY <1>2, <1>3
<1> QED
  BY <1>1, <1>3, <1>4 DEF Copied

LEMMA IndexCarry ==
    ASSUME NEW m \in Mem, NEW m2, NEW b \in Nat, NEW b2 \in Nat, NEW n \in Nat,
           NEW ku, NEW vu, NEW ku2, NEW vu2, TextsStay(m, ku, vu, m2, ku2, vu2),
           Copied(m, b, m2, b2, ItemSlots * n),
           NEW s, NEW ks, IndexOf(m, ku, vu, b, n, s, ks)
    PROVE  IndexOf(m2, ku2, vu2, b2, n, s, ks)
<1>1. ASSUME NEW i \in 0 .. n - 1
      PROVE  /\ HasKey(m2, ku2, ItemAt(b2, i), ks[i])
             /\ HasVersions(m2, vu2, ItemAt(b2, i), s[ks[i]])
  <2>1. ks[i] \in Keys
    BY DEF IndexOf
  <2>2. HasKey(m, ku, ItemAt(b, i), ks[i]) /\ HasVersions(m, vu, ItemAt(b, i), s[ks[i]])
    BY DEF IndexOf
  <2>3. /\ Copied(m, ItemAt(b, i), m2, ItemAt(b2, i), ItemSlots)
        /\ At(m2, ItemAt(b2, i)) = At(m, ItemAt(b, i))
        /\ ItemAt(b, i) \in Nat /\ ItemAt(b2, i) \in Nat
    BY ItemCopied
  <2>4. HasKey(m2, ku2, ItemAt(b2, i), ks[i])
    BY <2>1, <2>2, <2>3, HasKeyCarry DEF TextsStay
  <2>5. HasVersions(m2, vu2, ItemAt(b2, i), s[ks[i]])
    BY <2>2, <2>3, HasVersionsCarry DEF TextsStay
  <2> QED
    BY <2>4, <2>5
<1> QED
  BY <1>1 DEF IndexOf

-----------------------------------------------------------------------------
(* Comparing and searching. *)

(* _pupa_store_item_compare of two keys. *)
Difference(k, l) ==
    IF TextLen[k] # TextLen[l] THEN TextLen[k] - TextLen[l] ELSE Rank[k] - Rank[l]

LEMMA DifferenceOrders ==
    ASSUME NEW k \in Keys, NEW l \in Keys
    PROVE  /\ Difference(k, l) \in Int
           /\ Difference(k, l) = 0 <=> k = l
           /\ Difference(k, l) < 0 <=> Before(k, l)
           /\ Difference(k, l) > 0 <=> Before(l, k)
<1>1. /\ TextLen[k] \in Nat /\ TextLen[l] \in Nat
      /\ Rank[k] \in Nat /\ Rank[l] \in Nat
  BY TextType DEF Texts
<1> QED
  BY <1>1, OrderAssumption DEF Difference, Before

(* A key's bytes, which every search for it compares. *)
KeyBytes(k) == [x \in 0 .. TextLen[k] - 1 |-> TextCell(k, x)]

LEMMA RankOfText ==
    ASSUME NEW t \in Texts, NEW i
    PROVE  RankOf(TextCell(t, i)) = Rank[t]
BY StoreAssumption DEF RankOf, TextCell, Texts

LEMMA CompareKeys ==
    ASSUME NEW m, NEW c, NEW base, NEW used, NEW k \in Keys, NEW l \in Keys,
           PointsTo(m, c, base, used, l)
    PROVE  Compare(m, TextLen[k], KeyBytes(k), c) = Difference(k, l)
<1> DEFINE there(i) == RankOf(At(m, c.off + i))
           differ == {i \in 0 .. TextLen[k] - 1 : RankOf(KeyBytes(k)[i]) # there(i)}
           first == CHOOSE i \in differ : \A j \in differ : i <= j
<1>1. /\ TextLen[k] \in Nat \ {0} /\ TextLen[l] \in Nat \ {0}
      /\ Rank[k] \in Nat /\ Rank[l] \in Nat
      /\ k \in Texts /\ l \in Texts
  BY TextType DEF Texts
<1>2. c.len = TextLen[l]
  BY DEF PointsTo
<1>3. CASE TextLen[k] # TextLen[l]
  BY <1>2, <1>3, Zenon DEF Compare, Difference
<1>4. CASE TextLen[k] = TextLen[l]
  <2>1. ASSUME NEW i \in 0 .. TextLen[k] - 1
        PROVE  RankOf(KeyBytes(k)[i]) = Rank[k] /\ there(i) = Rank[l]
    <3>1. KeyBytes(k)[i] = TextCell(k, i)
      BY DEF KeyBytes
    <3>2. At(m, c.off + i) = TextCell(l, i)
      BY <1>4 DEF PointsTo, TextAt
    <3> QED
      BY <1>1, <3>1, <3>2, RankOfText
  <2>2. Compare(m, TextLen[k], KeyBytes(k), c) =
            IF differ = {} THEN 0 ELSE RankOf(KeyBytes(k)[first]) - there(first)
    BY <1>2, <1>4, Zenon DEF Compare
  <2>3. CASE Rank[k] = Rank[l]
    <3>1. differ = {}
      BY <2>1, <2>3
    <3> QED
      BY <1>1, <1>4, <2>2, <2>3, <3>1 DEF Difference
  <2>4. CASE Rank[k] # Rank[l]
    <3>1. differ = 0 .. TextLen[k] - 1
      BY <2>1, <2>4
    <3>2. 0 \in 0 .. TextLen[k] - 1 /\ \A j \in 0 .. TextLen[k] - 1 : 0 <= j
      BY <1>1
    <3>3. first \in 0 .. TextLen[k] - 1
      <4> HIDE DEF differ
      <4> QED
        BY <3>1, <3>2
    <3>4. RankOf(KeyBytes(k)[first]) = Rank[k] /\ there(first) = Rank[l]
      <4> HIDE DEF first, there
      <4> QED
        BY <2>1, <3>3
    <3>5. differ # {}
      BY <3>1, <3>2
    <3> QED
      BY <1>4, <2>2, <3>4, <3>5 DEF Difference
  <2> QED
    BY <2>3, <2>4
<1> QED
  BY <1>3, <1>4

(* Whatever it is compared with, the result is a number. *)
LEMMA CompareType ==
    ASSUME NEW m \in Mem, NEW c \in Cells, NEW k \in Keys
    PROVE  Compare(m, TextLen[k], KeyBytes(k), c) \in Int
<1> DEFINE there(i) == RankOf(At(m, c.off + i))
           differ == {i \in 0 .. TextLen[k] - 1 : RankOf(KeyBytes(k)[i]) # there(i)}
           first == CHOOSE i \in differ : \A j \in differ : i <= j
<1>1. TextLen[k] \in Nat \ {0} /\ Rank[k] \in Nat /\ k \in Texts /\ c.len \in Nat
  BY TextType DEF Texts, Cells
<1>2. ASSUME NEW i \in 0 .. TextLen[k] - 1
      PROVE  RankOf(KeyBytes(k)[i]) \in Int
  <2>1. KeyBytes(k)[i] = TextCell(k, i)
    BY DEF KeyBytes
  <2> QED
    BY <1>1, <2>1, RankOfText
<1>3. \A d \in Cells : RankOf(d) \in Int
  BY TextType DEF RankOf, Cells
<1>4. \A i : there(i) \in Int
  BY <1>3, AtType
<1>5. ASSUME differ # {}
      PROVE  RankOf(KeyBytes(k)[first]) - there(first) \in Int
  <2>1. differ \in SUBSET Nat
    BY <1>1
  <2>2. \E i \in differ : \A j \in differ : i <= j
    <3> HIDE DEF differ
    <3> QED
      BY <1>5, <2>1, Least
  <2>3. first \in differ
    BY <2>2, Zenon
  <2>4. first \in 0 .. TextLen[k] - 1
    BY <2>3
  <2> HIDE DEF first, there
  <2>5. RankOf(KeyBytes(k)[first]) \in Int /\ there(first) \in Int
    BY <1>2, <1>4, <2>4
  <2> QED
    BY <2>5
<1>6. Compare(m, TextLen[k], KeyBytes(k), c) =
          IF TextLen[k] # c.len THEN TextLen[k] - c.len
          ELSE IF differ = {} THEN 0 ELSE RankOf(KeyBytes(k)[first]) - there(first)
  BY Zenon DEF Compare
<1> HIDE DEF differ, first, there
<1> QED
  BY <1>1, <1>5, <1>6

(* bsearch finds a key where it is, and none that is not there. *)
LEMMA SearchIs ==
    ASSUME NEW m, NEW ku, NEW vu, NEW b, NEW n \in Nat, NEW s, NEW ks,
           IndexOf(m, ku, vu, b, n, s, ks), NEW k \in Keys
    PROVE  /\ \A i \in 0 .. n - 1 : ks[i] = k => Search(m, b, n, k) = i
           /\ (\A i \in 0 .. n - 1 : ks[i] # k) => Search(m, b, n, k) = NotFound
           /\ Search(m, b, n, k) = NotFound \/ Search(m, b, n, k) \in 0 .. n - 1
           /\ \A i \in 0 .. n - 1 : Search(m, b, n, k) = i => ks[i] = k
<1> DEFINE c == [i \in 0 .. n - 1 |->
                    Compare(m, TextLen[k], KeyBytes(k), At(m, ItemAt(b, i)))]
<1>1. \A i \in 0 .. n - 1 : ks[i] \in Keys /\ c[i] = Difference(k, ks[i])
  BY CompareKeys DEF IndexOf, HasKey
<1>2. \A i, j \in 0 .. n - 1 : i < j => Before(ks[i], ks[j])
  BY DEF IndexOf
<1>3. c \in [0 .. n - 1 -> Int]
  BY <1>1, DifferenceOrders
<1>4. Search(m, b, n, k) = bsearch(c, n)
  BY Zenon DEF Search, KeyBytes
<1> HIDE DEF c
<1>5. ASSUME NEW i \in 0 .. n - 1, NEW j \in 0 .. n - 1, i < j, c[i] <= 0
      PROVE  c[j] < 0
  <2>1. ks[i] \in Keys /\ ks[j] \in Keys /\ Before(ks[i], ks[j])
    BY <1>1, <1>2, <1>5
  <2>2. k = ks[i] \/ Before(k, ks[i])
    BY <1>1, <1>5, <2>1, DifferenceOrders
  <2>3. \A x, y, z \in Keys : Before(x, y) /\ Before(y, z) => Before(x, z)
    BY TextType DEF Before, Texts
  <2>4. Before(k, ks[j])
    BY <2>1, <2>2, <2>3
  <2> QED
    BY <1>1, <2>1, <2>4, DifferenceOrders
<1>6. Search(m, b, n, k) = Found(c, 0, n)
  BY <1>3, <1>4, <1>5, bsearchFinds DEF Decreasing
<1>7. \A i \in 0 .. n - 1 : c[i] = 0 <=> ks[i] = k
  BY <1>1, DifferenceOrders
<1>8. \A i, j \in 0 .. n - 1 : c[i] = 0 /\ c[j] = 0 => i = j
  BY <1>3, <1>5
<1> QED
  BY <1>6, <1>7, <1>8 DEF Found, NotFound

-----------------------------------------------------------------------------
(* Reading. *)

(* The bytes a struct points to are those of one text only. *)
LEMMA BytesIs ==
    ASSUME NEW c, NEW base, NEW used, NEW t \in Texts, PointsTo(mem, c, base, used, t)
    PROVE  Bytes(c) = t
<1> DEFINE read == {u \in Texts : /\ TextLen[u] = c.len
                                  /\ \A i \in 0 .. c.len - 1 :
                                        At(mem, c.off + i) = TextCell(u, i)}
<1>1. c.len = TextLen[t] /\ c.len \in Nat \ {0}
  BY TextType DEF PointsTo
<1>2. \A i \in 0 .. c.len - 1 : At(mem, c.off + i) = TextCell(t, i)
  BY <1>1 DEF PointsTo, TextAt
<1>3. t \in read
  BY <1>1, <1>2
<1>4. ASSUME NEW u \in read
      PROVE  u = t
  <2>1. 0 \in 0 .. c.len - 1
    BY <1>1
  <2>2. TextCell(u, 0) = TextCell(t, 0)
    BY <1>2, <2>1
  <2> QED
    BY <2>2 DEF TextCell
<1>5. Bytes(c) = IF read = {} THEN Garbage ELSE CHOOSE u \in read : TRUE
  BY Zenon DEF Bytes
<1> HIDE DEF read
<1> QED
  BY <1>3, <1>4, <1>5

(* pupa_store_get_values of an item. *)
LEMMA VersionsIs ==
    ASSUME NEW vu, NEW item \in Int, NEW vs, HasVersions(mem, vu, item, vs)
    PROVE  [ver \in 1 .. (IF At(mem, item).cnt <= MaxVer THEN At(mem, item).cnt ELSE MaxVer) |->
                Bytes(At(mem, VersionSlot(item, ver)))] = vs
<1>1. MaxVer \in Nat /\ Len(vs) \in 1 .. MaxVer /\ At(mem, item).cnt = Len(vs)
  BY LayoutAssumption DEF HasVersions
<1>2. (IF At(mem, item).cnt <= MaxVer THEN At(mem, item).cnt ELSE MaxVer) = Len(vs)
  BY <1>1
<1>3. vs \in Seq(Values) /\ vs = [ver \in 1 .. Len(vs) |-> vs[ver]]
  BY DEF HasVersions
<1>4. ASSUME NEW ver \in 1 .. Len(vs)
      PROVE  Bytes(At(mem, VersionSlot(item, ver))) = vs[ver]
  <2>1. vs[ver] \in Texts
    BY <1>3 DEF Texts
  <2>2. PointsTo(mem, At(mem, VersionSlot(item, ver)), ValueBase, vu, vs[ver])
    BY DEF HasVersions
  <2> QED
    BY <2>1, <2>2, BytesIs
<1>5. [ver \in 1 .. Len(vs) |-> Bytes(At(mem, VersionSlot(item, ver)))] =
          [ver \in 1 .. Len(vs) |-> vs[ver]]
  BY <1>4, Zenon
<1> QED
  BY <1>2, <1>3, <1>5, Zenon

(* What readers of an index find is the map it holds. *)
LEMMA ViewIs ==
    ASSUME item_section.used \in Nat, Live \in Nat, NEW ku, NEW vu, NEW s,
           Holds(mem, ku, vu, Live, item_section.used, s)
    PROVE  View = s
<1> DEFINE n == item_section.used
<1>1. PICK ks \in [0 .. n - 1 -> Keys] : IndexOf(mem, ku, vu, Live, n, s, ks)
  BY DEF Holds
<1>2. DOMAIN Versions = 0 .. n - 1
  BY DEF Versions
<1>3. ASSUME NEW i \in 0 .. n - 1
      PROVE  Versions[i] = s[ks[i]]
  <2>1. HasVersions(mem, vu, ItemAt(Live, i), s[ks[i]])
    BY <1>1 DEF IndexOf
  <2>2. ItemAt(Live, i) \in Int
    BY ItemAtType
  <2>3. Versions[i] =
            [ver \in 1 .. (IF At(mem, ItemAt(Live, i)).cnt <= MaxVer
                           THEN At(mem, ItemAt(Live, i)).cnt ELSE MaxVer) |->
                Bytes(At(mem, VersionSlot(ItemAt(Live, i), ver)))]
    BY Zenon DEF Versions
  <2> QED
    BY <2>1, <2>2, <2>3, VersionsIs
<1>4. s \in [Keys -> Seq(Values)]
  BY <1>1 DEF IndexOf
<1>5. ASSUME NEW k \in Keys
      PROVE  (IF Find(k) \in DOMAIN Versions THEN Versions[Find(k)] ELSE <<>>) = s[k]
  <2>1. CASE \E i \in 0 .. n - 1 : ks[i] = k
    <3>1. PICK i \in 0 .. n - 1 : ks[i] = k
      BY <2>1
    <3>2. Find(k) = i
      <4>1. n \in Nat /\ Find(k) = Search(mem, Live, n, k)
        BY DEF Find
      <4> HIDE DEF n
      <4> QED
        BY <1>1, <3>1, <4>1, SearchIs
    <3> QED
      BY <1>2, <1>3, <3>1, <3>2
  <2>2. CASE \A i \in 0 .. n - 1 : ks[i] # k
    <3>1. Find(k) = NotFound
      <4>1. n \in Nat /\ Find(k) = Search(mem, Live, n, k)
        BY DEF Find
      <4> HIDE DEF n
      <4>2. Search(mem, Live, n, k) = NotFound \/ Search(mem, Live, n, k) \in 0 .. n - 1
        BY <1>1, <4>1, SearchIs
      <4>3. \A i \in 0 .. n - 1 : Search(mem, Live, n, k) = i => ks[i] = k
        BY <1>1, <4>1, SearchIs
      <4> QED
        BY <2>2, <4>1, <4>2, <4>3
    <3>2. s[k] = <<>>
      BY <1>1, <2>2 DEF IndexOf
    <3> QED
      BY <1>2, <3>1, <3>2 DEF NotFound
  <2> QED
    BY <2>1, <2>2
<1> HIDE DEF n
<1>6. View = [k \in Keys |-> s[k]]
  BY <1>5, Zenon DEF View
<1> QED
  BY <1>4, <1>6

(* pupa_bsearch leaves an item where it is that is greater than all before *)
(* it.                                                                     *)
LEMMA SortPositionIs ==
    ASSUME NEW m \in Mem, key_section \in Sections,
           NEW ku, NEW vu, NEW b \in Nat, HdrSlots <= b, NEW n \in Nat, NEW s, NEW ks,
           IndexOf(m, ku, vu, b, n + 1, s, ks)
    PROVE  SortPosition(m, b, n) = n
<1> DEFINE e == At(m, ItemAt(b, n))
           bytes == [x \in 0 .. e.len - 1 |-> At(m, e.off + x)]
           c == [i \in -1 .. n |-> Compare(m, e.len, bytes, AtOrHeader(m, ItemAt(b, i)))]
           k == ks[n]
<1>1. /\ k \in Keys /\ PointsTo(m, e, KeyBase, ku, k)
      /\ n \in 0 .. n
  BY DEF IndexOf, HasKey
<1>2. e.len = TextLen[k] /\ bytes = KeyBytes(k)
  <2>1. e.len = TextLen[k] /\ \A i \in 0 .. TextLen[k] - 1 : At(m, e.off + i) = TextCell(k, i)
    BY <1>1 DEF PointsTo, TextAt
  <2> QED
    BY <2>1, Zenon DEF KeyBytes
<1>3. SortPosition(m, b, n) = pupa_bsearch(c, n)
  BY Zenon DEF SortPosition
<1>4. \A i \in -1 .. n : c[i] = Compare(m, TextLen[k], KeyBytes(k), AtOrHeader(m, ItemAt(b, i)))
  BY <1>2
<1>5. ASSUME NEW i \in 0 .. n
      PROVE  c[i] = Difference(k, ks[i]) /\ ks[i] \in Keys
  <2>1. AtOrHeader(m, ItemAt(b, i)) = At(m, ItemAt(b, i))
    <3>1. ItemSlots * i \in Nat
      BY LayoutType
    <3>2. ItemAt(b, i) >= HdrSlots
      BY <3>1, LayoutAssumption DEF ItemAt
    <3> QED
      BY <3>2 DEF AtOrHeader
  <2>2. ks[i] \in Keys /\ PointsTo(m, At(m, ItemAt(b, i)), KeyBase, ku, ks[i])
    BY DEF IndexOf, HasKey
  <2>3. i \in -1 .. n
    OBVIOUS
  <2> HIDE DEF c, k
  <2> QED
    BY <1>1, <1>4, <2>1, <2>2, <2>3, CompareKeys
<1>6. ASSUME NEW i \in 0 .. n - 1
      PROVE  c[i] > 0
  <2>1. Before(ks[i], k) /\ ks[i] \in Keys /\ i \in 0 .. n
    BY DEF IndexOf
  <2> HIDE DEF c, k
  <2> QED
    BY <1>1, <1>5, <2>1, DifferenceOrders
<1>7. c \in [-1 .. n -> Int]
  <2>1. ASSUME NEW i \in -1 .. n
        PROVE  c[i] \in Int
    <3>1. AtOrHeader(m, ItemAt(b, i)) \in Cells
      BY AtType DEF AtOrHeader, Zero, Cells, Sections
    <3> HIDE DEF c, k
    <3> QED
      BY <1>1, <1>4, <3>1, CompareType
  <2> QED
    BY <2>1
<1> HIDE DEF c
<1>8. c[n] = 0
  BY <1>1, <1>5, DifferenceOrders
<1>9. Insertion(c, n)
  <2>1. \A i \in 0 .. n - 1 : c[i] \in Int /\ c[i] > 0
    BY <1>6, <1>7
  <2> QED
    BY <1>7, <1>8, <2>1 DEF Insertion, Comparison
<1>10. Place(c, n, pupa_bsearch(c, n))
  <2>1. ~ Smallest(c, n)
    <3>1. n > 0 => 0 \in 0 .. n - 1 /\ c[0] \in Int /\ c[0] > 0
      BY <1>6, <1>7
    <3> QED
      BY <3>1 DEF Smallest
  <2> QED
    BY <1>9, <2>1, pupa_bsearchPlaces
<1>11. ASSUME pupa_bsearch(c, n) < n
       PROVE  FALSE
  <2> DEFINE p == pupa_bsearch(c, n)
  <2>1. p \in 0 .. n - 1 /\ c[p] \in Int /\ c[p] < 0
    BY <1>7, <1>10, <1>11 DEF Place
  <2>2. c[p] > 0
    BY <1>6, <2>1
  <2> QED
    BY <2>1, <2>2
<1> QED
  BY <1>3, <1>10, <1>11 DEF Place

(* Sorting an item in where it is changes nothing. *)
LEMMA MoveItemIs ==
    ASSUME NEW m \in Mem, NEW b \in Nat, NEW n \in Nat
    PROVE  MoveItem(m, b, n, n) = m
<1>1. ItemSlots \in Nat /\ ItemAt(b, n) \in Int /\ ItemAt(b, n + 1) \in Int
  BY LayoutType, ItemAtType
<1>2. DOMAIN m = Slots /\ Slots \subseteq Int
  BY DEF Mem, Slots
<1>3. ASSUME NEW a \in DOMAIN m
      PROVE  m[a] = (IF a \in ItemAt(b, n) .. ItemAt(b, n + 1) - 1
                     THEN At(m, a + ItemSlots * (n - n))
                     ELSE IF a \in ItemAt(b, n + 1) .. ItemAt(b, n + 1) - 1
                     THEN At(m, a - ItemSlots)
                     ELSE m[a])
  <2>1. a + ItemSlots * (n - n) = a
    <3>1. a \in Int
      BY <1>2
    <3>2. n - n = 0 /\ ItemSlots * 0 = 0
      BY <1>1
    <3> QED
      BY <3>1, <3>2
  <2>2. a \notin ItemAt(b, n + 1) .. ItemAt(b, n + 1) - 1
    BY <1>1
  <2> QED
    BY <2>1, <2>2, Zenon DEF At
<1>4. m = [a \in DOMAIN m |-> m[a]]
  BY DEF Mem
<1> QED
  BY <1>3, <1>4, Zenon DEF MoveItem

-----------------------------------------------------------------------------
(* Writing a version into an item. *)

LEMMA Elsewhere ==
    ASSUME NEW m \in Mem
    PROVE  /\ \A dst, src, n, a : a \notin dst .. dst + n - 1 =>
                  At(memcpy(m, dst, src, n), a) = At(m, a)
           /\ \A p, t, a : a \notin p .. p + TextLen[t] - 1 =>
                  At(PutText(m, p, t), a) = At(m, a)
BY DEF At, memcpy, PutText

(* m2 is m with a version more in an item, the newest of c: one of len slots *)
(* at address p.                                                             *)
Pushes(m, m2, item, p, len, c) ==
    /\ m2 \in Mem
    /\ At(m2, item).off = At(m, item).off
    /\ At(m2, item).len = At(m, item).len
    /\ At(m2, item).cnt = c
    /\ At(m2, VersionSlot(item, 1)).off = p
    /\ At(m2, VersionSlot(item, 1)).len = len
    /\ \A ver \in 2 .. c : At(m2, VersionSlot(item, ver)) = At(m, VersionSlot(item, ver - 1))
    /\ \A ver \in c + 1 .. MaxVer : At(m2, VersionSlot(item, ver)) = At(m, VersionSlot(item, ver))
    /\ \A a : a \notin item .. item + MaxVer => At(m2, a) = At(m, a)

(* The new item's first version. *)
LEMMA PushFirst ==
    ASSUME NEW m \in Mem, NEW item \in Nat, NEW p \in Nat, NEW len \in Nat,
           item .. item + MaxVer \subseteq Slots
    PROVE  Pushes(m, SetCnt(Point(m, item + MaxVer, p, len), item, 1), item, p, len, 1)
<1> DEFINE last == item + MaxVer
           m1 == Point(m, last, p, len)
           m2 == SetCnt(m1, item, 1)
<1>1. MaxVer \in Nat \ {0} /\ last \in Slots /\ item \in Slots /\ last # item /\ 1 \in Nat
  BY LayoutAssumption
<1>2. VersionSlot(item, 1) = last
  BY <1>1 DEF VersionSlot
<1>3. m1 \in Mem
  BY PointType
<1>4. m2 \in Mem
  <2> HIDE DEF m1
  <2> QED BY <1>1, <1>3, SetCntType
<1>5. /\ \A a : a # last => At(m1, a) = At(m, a)
      /\ At(m1, last).off = p
      /\ At(m1, last).len = len
  <2> HIDE DEF last
  <2> QED BY <1>1, AtPoint
<1> HIDE DEF m1
<1>6. /\ \A a : a # item => At(m2, a) = At(m1, a)
      /\ At(m2, item).off = At(m1, item).off
      /\ At(m2, item).len = At(m1, item).len
      /\ At(m2, item).cnt = 1
  BY <1>1, <1>3, AtSetCnt
<1> HIDE DEF m2
<1>7. \A a : a \notin item .. last => a # item /\ a # last
  BY <1>1
<1>8. /\ At(m2, item).off = At(m, item).off
      /\ At(m2, item).len = At(m, item).len
      /\ At(m2, last).off = p
      /\ At(m2, last).len = len
      /\ \A a : a \notin item .. last => At(m2, a) = At(m, a)
  <2> HIDE DEF last
  <2> QED BY <1>1, <1>5, <1>6, <1>7
<1>9. Pushes(m, m2, item, p, len, 1)
  <2>1. \A ver \in 2 .. 1 : At(m2, VersionSlot(item, ver)) = At(m, VersionSlot(item, ver - 1))
    OBVIOUS
  <2>2. \A ver \in 1 + 1 .. MaxVer :
           At(m2, VersionSlot(item, ver)) = At(m, VersionSlot(item, ver))
    <3> TAKE ver \in 1 + 1 .. MaxVer
    <3>1. VersionSlot(item, ver) # item /\ VersionSlot(item, ver) # last
      BY <1>1 DEF VersionSlot
    <3> HIDE DEF last
    <3> QED
      BY <1>5, <1>6, <3>1
  <2> QED
    BY <1>2, <1>4, <1>6, <1>8, <2>1, <2>2, Zenon DEF Pushes
<1> QED
  BY <1>9 DEF m1, m2

(* The newest version where only one is kept. *)
LEMMA PushOnly ==
    ASSUME NEW m \in Mem, NEW item \in Nat, NEW p \in Nat, NEW len \in Nat,
           MaxVer = 1, item .. item + MaxVer \subseteq Slots, At(m, item).cnt = 1
    PROVE  Pushes(m, Point(m, item + MaxVer, p, len), item, p, len, 1)
<1> DEFINE last == item + MaxVer
           m2 == Point(m, last, p, len)
<1>1. last \in Slots /\ last # item
  OBVIOUS
<1>2. VersionSlot(item, 1) = last
  BY DEF VersionSlot
<1>3. m2 \in Mem
  BY PointType
<1>4. /\ \A a : a # last => At(m2, a) = At(m, a)
      /\ At(m2, last).off = p
      /\ At(m2, last).len = len
  <2> HIDE DEF last
  <2> QED BY <1>1, AtPoint
<1>5. \A a : a \notin item .. last => a # last
  OBVIOUS
<1>6. \A ver \in 2 .. 1 : At(m2, VersionSlot(item, ver)) = At(m, VersionSlot(item, ver - 1))
  OBVIOUS
<1> HIDE DEF m2
<1>7. \A a : a \notin item .. item + MaxVer => At(m2, a) = At(m, a)
  BY <1>4, <1>5
<1>8. \A ver \in 1 + 1 .. MaxVer : At(m2, VersionSlot(item, ver)) = At(m, VersionSlot(item, ver))
  OBVIOUS
<1>9. Pushes(m, m2, item, p, len, 1)
  BY <1>1, <1>2, <1>3, <1>4, <1>6, <1>7, <1>8, Zenon DEF Pushes
<1> QED
  BY <1>9 DEF m2

MovedDown(m, item, p, len, n) ==
    Point(memcpy(m, (item + MaxVer) - n, ((item + MaxVer) - n) + 1, n), item + MaxVer, p, len)

(* Where more are kept the versions there are move down by one: the last n  *)
(* of them when there is a slot left, all but the oldest when there is not. *)
LEMMA PushDown ==
    ASSUME NEW m \in Mem, NEW item \in Nat, NEW p \in Nat, NEW len \in Nat,
           item .. item + MaxVer \subseteq Slots,
           NEW n \in 0 .. MaxVer - 1
    PROVE  /\ Pushes(m, SetCnt(MovedDown(m, item, p, len, n), item, n + 1), item, p, len, n + 1)
           /\ At(m, item).cnt = n + 1 =>
                  Pushes(m, MovedDown(m, item, p, len, n), item, p, len, n + 1)
<1> DEFINE last == item + MaxVer
           from == last - n
           m1 == memcpy(m, from, from + 1, n)
           m2 == Point(m1, last, p, len)
<1>1. MaxVer \in Nat \ {0} /\ last \in Slots /\ last # item
  BY LayoutAssumption
<1>2. VersionSlot(item, 1) = last
  BY <1>1 DEF VersionSlot
<1>3. m1 \in Mem
  BY memcpyType
<1>4. m2 \in Mem
  <2> HIDE DEF m1, last
  <2> QED BY <1>3, PointType
<1>5. /\ \A a : a # last => At(m2, a) = At(m1, a)
      /\ At(m2, last).off = p
      /\ At(m2, last).len = len
  <2> HIDE DEF m1, last
  <2> QED BY <1>1, <1>3, AtPoint
<1>6. \A a : a \notin from .. from + n - 1 => At(m1, a) = At(m, a)
  <2> HIDE DEF from
  <2> QED BY Elsewhere
<1>7. \A a \in from .. from + n - 1 : At(m1, a) = At(m, a + 1)
  <2> TAKE a \in from .. from + n - 1
  <2>1. a \in Slots /\ (from + 1) + (a - from) = a + 1
    BY <1>1
  <2>2. At(m1, a) = IF a \in from .. from + n - 1 THEN At(m, (from + 1) + (a - from)) ELSE At(m, a)
    <3> HIDE DEF from
    <3> QED BY <2>1, AtMemcpy
  <2> QED
    BY <2>1, <2>2
<1> HIDE DEF m1, m2
<1>8. At(m2, item) = At(m, item)
  <2>1. item \notin from .. from + n - 1 /\ item # last
    BY <1>1
  <2> HIDE DEF from, last
  <2> QED
    BY <1>5, <1>6, <2>1
<1>9. ASSUME NEW ver \in 2 .. n + 1
      PROVE  At(m2, VersionSlot(item, ver)) = At(m, VersionSlot(item, ver - 1))
  <2> DEFINE a == VersionSlot(item, ver)
  <2>1. a \in from .. from + n - 1 /\ a # last /\ a + 1 = VersionSlot(item, ver - 1)
    BY <1>1 DEF VersionSlot
  <2> HIDE DEF a, from, last
  <2> QED
    BY <1>5, <1>7, <2>1 DEF a
<1>10. ASSUME NEW a, a \notin item .. last
       PROVE  At(m2, a) = At(m, a)
  <2>1. a \notin from .. from + n - 1 /\ a # last
    BY <1>1, <1>10
  <2> HIDE DEF from, last
  <2> QED
    BY <1>5, <1>6, <2>1
<1>11. ASSUME NEW ver \in (n + 1) + 1 .. MaxVer
       PROVE  At(m2, VersionSlot(item, ver)) = At(m, VersionSlot(item, ver))
  <2> DEFINE a == VersionSlot(item, ver)
  <2>1. a \notin from .. from + n - 1 /\ a # last
    BY <1>1 DEF VersionSlot
  <2> HIDE DEF a, from, last
  <2> QED
    BY <1>5, <1>6, <2>1 DEF a
<1>12. ASSUME At(m, item).cnt = n + 1
       PROVE  Pushes(m, m2, item, p, len, n + 1)
  BY <1>2, <1>4, <1>5, <1>8, <1>9, <1>10, <1>12, <1>11, Zenon DEF Pushes
<1> DEFINE m3 == SetCnt(m2, item, n + 1)
<1>13. m3 \in Mem
  <2>1. n + 1 \in Nat
    OBVIOUS
  <2> QED
    BY <1>4, <2>1, SetCntType
<1>14. /\ \A a : a # item => At(m3, a) = At(m2, a)
       /\ At(m3, item).off = At(m2, item).off
       /\ At(m3, item).len = At(m2, item).len
       /\ At(m3, item).cnt = n + 1
  <2>1. item \in Slots
    BY <1>1
  <2> QED
    BY <1>4, <2>1, AtSetCnt
<1> HIDE DEF m3
<1>15. ASSUME NEW ver \in 1 .. n + 1
       PROVE  VersionSlot(item, ver) # item
  BY <1>1, <1>15 DEF VersionSlot
<1>16. /\ At(m3, VersionSlot(item, 1)).off = p
       /\ At(m3, VersionSlot(item, 1)).len = len
  BY <1>1, <1>2, <1>5, <1>14
<1>17. \A ver \in 2 .. n + 1 : At(m3, VersionSlot(item, ver)) = At(m, VersionSlot(item, ver - 1))
  <2> TAKE ver \in 2 .. n + 1
  <2>1. VersionSlot(item, ver) # item
    BY <1>15
  <2> QED
    BY <1>9, <1>14, <2>1
<1>18. \A a : a \notin item .. last => At(m3, a) = At(m, a)
  <2>1. item \in item .. last
    BY <1>1
  <2> HIDE DEF last
  <2> QED
    BY <1>10, <1>14, <2>1
<1>19. \A ver \in (n + 1) + 1 .. MaxVer :
          At(m3, VersionSlot(item, ver)) = At(m, VersionSlot(item, ver))
  <2> TAKE ver \in (n + 1) + 1 .. MaxVer
  <2>1. VersionSlot(item, ver) # item
    BY <1>1 DEF VersionSlot
  <2> QED
    BY <1>14, <1>11, <2>1
<1>20. Pushes(m, m3, item, p, len, n + 1)
  BY <1>8, <1>13, <1>14, <1>16, <1>17, <1>18, <1>19, Zenon DEF Pushes
<1>21. MovedDown(m, item, p, len, n) = m2
  BY Zenon DEF MovedDown, m2, m1
<1> QED
  BY <1>12, <1>20, <1>21 DEF m3

(* pupa_store_item_add gives the item its first version, and                *)
(* pupa_store_item_replace one more, the oldest giving way when all slots   *)
(* are taken.                                                               *)
LEMMA PushVersionIs ==
    ASSUME NEW m \in Mem, w.item \in Nat, w.item .. w.item + MaxVer \subseteq Slots,
           w.val \in Values, NEW p \in Nat, NEW c \in 0 .. MaxVer,
           \/ w.op = "add" /\ c = 0
           \/ w.op = "replace" /\ c > 0 /\ At(m, w.item).cnt = c
    PROVE  Pushes(m, PushVersion(m, p), w.item, p, TextLen[w.val], KV!Kept(c))
<1> DEFINE item == w.item
           len == TextLen[w.val]
           last == item + MaxVer
<1>1. MaxVer \in Nat \ {0} /\ len \in Nat /\ item \in Nat
  BY LayoutAssumption, TextType DEF Texts
<1>2. CASE w.op = "add"
  <2>1. KV!Kept(c) = 1
    BY <1>1, <1>2 DEF KV!Kept
  <2>2. PushVersion(m, p) = SetCnt(Point(m, item + MaxVer, p, len), item, 1)
    BY <1>2, Zenon DEF PushVersion
  <2> HIDE DEF len
  <2>3. Pushes(m, SetCnt(Point(m, item + MaxVer, p, len), item, 1), item, p, len, 1)
    BY <1>1, PushFirst
  <2> QED
    BY <2>1, <2>2, <2>3 DEF len
<1>3. CASE w.op # "add" /\ MaxVer = 1
  <2>1. KV!Kept(c) = 1 /\ At(m, item).cnt = 1
    BY <1>1, <1>3 DEF KV!Kept
  <2>2. PushVersion(m, p) = Point(m, item + MaxVer, p, len)
    BY <1>3, Zenon DEF PushVersion
  <2> HIDE DEF len
  <2>3. Pushes(m, Point(m, item + MaxVer, p, len), item, p, len, 1)
    BY <1>1, <1>3, <2>1, PushOnly
  <2> QED
    BY <2>1, <2>2, <2>3 DEF len
<1>4. CASE w.op # "add" /\ MaxVer # 1 /\ c = MaxVer
  <2>1. KV!Kept(c) = MaxVer /\ At(m, item).cnt = MaxVer
    BY <1>1, <1>4 DEF KV!Kept
  <2>2. PushVersion(m, p) =
            Point(memcpy(m, item + 1, item + 2, MaxVer - 1), item + MaxVer, p, len)
    <3>1. MaxVer >= MaxVer
      BY <1>1
    <3> QED
      BY <1>4, <2>1, <3>1, Zenon DEF PushVersion
  <2> DEFINE n == MaxVer - 1
  <2>3. (item + MaxVer) - n = item + 1 /\ ((item + MaxVer) - n) + 1 = item + 2
    BY <1>1
  <2>4. PushVersion(m, p) = MovedDown(m, item, p, len, n)
    BY <2>2, <2>3 DEF MovedDown
  <2>5. n \in 0 .. MaxVer - 1 /\ n + 1 = MaxVer
    BY <1>1
  <2> HIDE DEF len, n
  <2>6. Pushes(m, MovedDown(m, item, p, len, n), item, p, len, n + 1)
    BY <1>1, <2>1, <2>5, PushDown
  <2> QED
    BY <2>1, <2>4, <2>5, <2>6 DEF len
<1>5. CASE w.op # "add" /\ MaxVer # 1 /\ c < MaxVer
  <2>1. KV!Kept(c) = c + 1 /\ At(m, item).cnt = c
    BY <1>5 DEF KV!Kept
  <2>2. PushVersion(m, p) =
            SetCnt(Point(memcpy(m, last - c, last - c + 1, c), last, p, len), item, c + 1)
    <3>1. ~ (c >= MaxVer)
      BY <1>1, <1>5
    <3> QED
      BY <1>5, <2>1, <3>1, Zenon DEF PushVersion
  <2>3. PushVersion(m, p) = SetCnt(MovedDown(m, item, p, len, c), item, c + 1)
    BY <2>2, Zenon DEF MovedDown
  <2>4. c \in 0 .. MaxVer - 1
    BY <1>1, <1>5
  <2> HIDE DEF len
  <2>5. Pushes(m, SetCnt(MovedDown(m, item, p, len, c), item, c + 1), item, p, len, c + 1)
    BY <1>1, <2>4, PushDown
  <2> QED
    BY <2>1, <2>3, <2>5 DEF len
<1> QED
  BY <1>1, <1>2, <1>3, <1>4, <1>5

(* The new version's text is behind those there are, the item before all of *)
(* them: the item then has the versions it had and the new one in front.    *)
LEMMA PushedVersions ==
    ASSUME NEW m \in Mem, NEW m2, NEW item \in Nat, item + MaxVer < ValueBase,
           NEW v \in Values, NEW vu \in Nat,
           NEW vs \in Seq(Values), Len(vs) \in 0 .. MaxVer,
           \A ver \in 1 .. Len(vs) :
              PointsTo(m, At(m, VersionSlot(item, ver)), ValueBase, vu, vs[ver]),
           TextAt(m, ValueBase + vu, v),
           Pushes(m, m2, item, ValueBase + vu, TextLen[v], KV!Kept(Len(vs)))
    PROVE  /\ HasVersions(m2, vu + TextLen[v], item, SubSeq(<<v>> \o vs, 1, KV!Kept(Len(vs))))
           /\ At(m2, item).off = At(m, item).off
           /\ At(m2, item).len = At(m, item).len
           /\ \A a : a \notin item .. item + MaxVer => At(m2, a) = At(m, a)
<1> DEFINE c == KV!Kept(Len(vs))
           new == SubSeq(<<v>> \o vs, 1, c)
<1>1. /\ MaxVer \in Nat \ {0} /\ TextLen[v] \in Nat /\ v \in Texts
      /\ ValueBase \in Nat /\ Len(vs) \in Nat
  BY LayoutAssumption, TextType, BaseType DEF Texts
<1>2. c \in 1 .. MaxVer /\ c <= Len(vs) + 1
  BY <1>1 DEF KV!Kept
<1>3. new \in Seq(Values) /\ Len(new) = c /\ new[1] = v
      /\ \A ver \in 2 .. c : new[ver] = vs[ver - 1]
  <2> HIDE DEF c
  <2>1. <<v>> \in Seq(Values) /\ Len(<<v>>) = 1 /\ <<v>>[1] = v
    OBVIOUS
  <2>2. <<v>> \o vs \in Seq(Values) /\ Len(<<v>> \o vs) = Len(vs) + 1
    BY <2>1
  <2>3. (<<v>> \o vs)[1] = v /\ \A i \in 2 .. Len(vs) + 1 : (<<v>> \o vs)[i] = vs[i - 1]
    BY <2>1
  <2>4. new = [i \in 1 .. c |-> (<<v>> \o vs)[i]]
    BY <1>1, <1>2, <2>2
  <2> QED
    BY <1>1, <1>2, <2>2, <2>3, <2>4
<1> HIDE DEF c, new
<1>4. ASSUME NEW x \in Nat, x >= ValueBase
      PROVE  At(m2, x) = At(m, x)
  <2>1. x \notin item .. item + MaxVer
    BY <1>1, <1>4
  <2> QED
    BY <2>1 DEF Pushes
<1>5. PointsTo(m2, At(m2, VersionSlot(item, 1)), ValueBase, vu + TextLen[v], new[1])
  <2> DEFINE d == At(m2, VersionSlot(item, 1))
  <2>1. d.off = ValueBase + vu /\ d.len = TextLen[v]
    BY DEF Pushes
  <2>2. ASSUME NEW i \in 0 .. TextLen[v] - 1
        PROVE  At(m2, (ValueBase + vu) + i) = TextCell(v, i)
    <3>1. (ValueBase + vu) + i \in Nat /\ (ValueBase + vu) + i >= ValueBase
      BY <1>1
    <3>2. At(m, (ValueBase + vu) + i) = TextCell(v, i)
      BY DEF TextAt
    <3> QED
      BY <1>4, <3>1, <3>2
  <2>3. ValueBase <= ValueBase + vu
        /\ (ValueBase + vu) + TextLen[v] <= ValueBase + (vu + TextLen[v])
    BY <1>1
  <2> HIDE DEF d
  <2> QED
    BY <1>3, <2>1, <2>2, <2>3 DEF PointsTo, TextAt, d
<1>6. ASSUME NEW ver \in 2 .. c
      PROVE  PointsTo(m2, At(m2, VersionSlot(item, ver)), ValueBase, vu + TextLen[v], new[ver])
  <2> DEFINE d == At(m, VersionSlot(item, ver - 1))
  <2>1. At(m2, VersionSlot(item, ver)) = d
    BY DEF Pushes, c
  <2>2. ver - 1 \in 1 .. Len(vs) /\ new[ver] = vs[ver - 1] /\ vs[ver - 1] \in Texts
    BY <1>1, <1>2, <1>3 DEF Texts
  <2>3. PointsTo(m, d, ValueBase, vu, vs[ver - 1])
    BY <2>2
  <2>4. Copied(m, ValueBase, m2, ValueBase, vu)
    <3>1. \A x \in 0 .. vu - 1 : ValueBase + x \in Nat /\ ValueBase + x >= ValueBase
      BY <1>1
    <3> QED
      BY <1>4, <3>1 DEF Copied
  <2>5. vu + TextLen[v] \in Nat /\ vu <= vu + TextLen[v] /\ d \in Cells
    BY <1>1, AtType
  <2> HIDE DEF d
  <2>6. PointsTo(m2, d, ValueBase, vu + TextLen[v], vs[ver - 1])
    BY <1>1, <2>2, <2>3, <2>4, <2>5, PointsToCarry
  <2> QED
    BY <2>1, <2>2, <2>6
<1>7. ASSUME NEW ver \in 1 .. c
      PROVE  PointsTo(m2, At(m2, VersionSlot(item, ver)), ValueBase, vu + TextLen[v], new[ver])
  <2>1. ver = 1 \/ ver \in 2 .. c
    BY <1>2
  <2> QED
    BY <1>5, <1>6, <2>1
<1>8. At(m2, item).cnt = c
  BY DEF Pushes, c
<1>9. HasVersions(m2, vu + TextLen[v], item, new)
  BY <1>2, <1>3, <1>7, <1>8 DEF HasVersions
<1> QED
  BY <1>9, Zenon DEF Pushes, new, c

-----------------------------------------------------------------------------
(* The map an index holds when an item of it has changed, when one more is  *)
(* counted and when the last one is no longer counted.                      *)

LEMMA WithIs ==
    ASSUME NEW s \in [Keys -> Seq(Values)], NEW k \in Keys, NEW v \in Values
    PROVE  /\ KV!With(s, k, v) \in [Keys -> Seq(Values)]
           /\ KV!With(s, k, v)[k] = SubSeq(<<v>> \o s[k], 1, KV!Kept(Len(s[k])))
           /\ KV!With(s, k, v)[k] # <<>>
           /\ \A l \in Keys : l # k => KV!With(s, k, v)[l] = s[l]
<1> DEFINE new == SubSeq(<<v>> \o s[k], 1, KV!Kept(Len(s[k])))
           one == <<v>> \o s[k]
<1>1. s[k] \in Seq(Values) /\ Len(s[k]) \in Nat
  OBVIOUS
<1>2. one \in Seq(Values) /\ Len(one) = Len(s[k]) + 1
  BY <1>1
<1>3. KV!Kept(Len(s[k])) \in 1 .. Len(one)
  BY <1>1, <1>2, LayoutAssumption DEF KV!Kept
<1>4. new \in Seq(Values) /\ Len(new) = KV!Kept(Len(s[k])) /\ Len(<<>>) = 0
  <2> HIDE DEF one
  <2> DEFINE c == KV!Kept(Len(s[k]))
  <2>1. new = SubSeq(one, 1, c)
    BY DEF one
  <2> HIDE DEF c, new
  <2>2. c \in 1 .. Len(one)
    BY <1>3 DEF c
  <2>3. SubSeq(one, 1, c) \in Seq(Values) /\ Len(SubSeq(one, 1, c)) = c
    BY <1>2, <2>2
  <2> QED
    BY <2>1, <2>3 DEF c
<1>5. new # <<>>
  BY <1>3, <1>4
<1> HIDE DEF new
<1>6. KV!With(s, k, v) = [s EXCEPT ![k] = new]
  BY Zenon DEF KV!With, new
<1>7. \A t : [s EXCEPT ![k] = t][k] = t
  OBVIOUS
<1>8. [s EXCEPT ![k] = new] \in [Keys -> Seq(Values)]
  BY <1>4
<1>9. \A l \in Keys : l # k => [s EXCEPT ![k] = new][l] = s[l]
  OBVIOUS
<1>10. KV!With(s, k, v)[k] = new
  BY <1>6, <1>7
<1> QED
  BY <1>5, <1>6, <1>8, <1>9, <1>10 DEF new

LEMMA WithoutIs ==
    ASSUME NEW s \in [Keys -> Seq(Values)], NEW k \in Keys
    PROVE  /\ KV!Without(s, k) \in [Keys -> Seq(Values)]
           /\ KV!Without(s, k)[k] = <<>>
           /\ \A l \in Keys : l # k => KV!Without(s, k)[l] = s[l]
<1>1. <<>> \in Seq(Values)
  OBVIOUS
<1> QED
  BY <1>1 DEF KV!Without

LEMMA IndexReplaced ==
    ASSUME NEW m \in Mem, NEW m2, NEW b \in Nat, NEW n \in Nat,
           NEW ku, NEW vu, NEW ku2, NEW vu2, TextsStay(m, ku, vu, m2, ku2, vu2),
           NEW s, NEW ks, IndexOf(m, ku, vu, b, n, s, ks),
           NEW i \in 0 .. n - 1, NEW k, k = ks[i], NEW v \in Values,
           \A j \in 0 .. n - 1 : j # i =>
              Copied(m, ItemAt(b, j), m2, ItemAt(b, j), ItemSlots),
           At(m2, ItemAt(b, i)).off = At(m, ItemAt(b, i)).off,
           At(m2, ItemAt(b, i)).len = At(m, ItemAt(b, i)).len,
           HasVersions(m2, vu2, ItemAt(b, i), SubSeq(<<v>> \o s[k], 1, KV!Kept(Len(s[k]))))
    PROVE  IndexOf(m2, ku2, vu2, b, n, KV!With(s, k, v), ks)
<1> DEFINE t == KV!With(s, k, v)
<1>1. k \in Keys /\ s \in [Keys -> Seq(Values)]
  BY DEF IndexOf
<1>2. /\ t \in [Keys -> Seq(Values)]
      /\ t[k] = SubSeq(<<v>> \o s[k], 1, KV!Kept(Len(s[k])))
      /\ \A l \in Keys : l # k => t[l] = s[l]
  <2> HIDE DEF t
  <2>1. /\ t \in [Keys -> Seq(Values)]
        /\ t[k] = SubSeq(<<v>> \o s[k], 1, KV!Kept(Len(s[k])))
        /\ t[k] # <<>>
        /\ \A l \in Keys : l # k => t[l] = s[l]
    BY <1>1, WithIs DEF t
  <2> QED
    BY <2>1
<1> HIDE DEF t
<1>3. ku \in Nat /\ ku2 \in Nat /\ ku <= ku2 /\ Copied(m, KeyBase, m2, KeyBase, ku)
      /\ vu \in Nat /\ vu2 \in Nat /\ vu <= vu2 /\ Copied(m, ValueBase, m2, ValueBase, vu)
  BY DEF TextsStay
<1>4. ASSUME NEW j \in 0 .. n - 1, j # i
      PROVE  HasKey(m2, ku2, ItemAt(b, j), ks[j]) /\ HasVersions(m2, vu2, ItemAt(b, j), t[ks[j]])
  <2> DEFINE a == ItemAt(b, j)
  <2>1. ks[j] \in Keys /\ ks[j] # k
    <3>1. ks[j] \in Keys /\ (Before(ks[i], ks[j]) \/ Before(ks[j], ks[i]))
      BY <1>4 DEF IndexOf
    <3>2. ~ Before(k, k)
      BY <1>1, TextType DEF Before, Texts
    <3> QED
      BY <3>1, <3>2
  <2>2. HasKey(m, ku, a, ks[j]) /\ HasVersions(m, vu, a, s[ks[j]])
    BY DEF IndexOf
  <2>3. a \in Int
    BY ItemAtType
  <2>4. Copied(m, a, m2, a, ItemSlots)
    BY <1>4
  <2>5. At(m2, a) = At(m, a)
    <3>1. 0 \in 0 .. ItemSlots - 1
      BY LayoutAssumption DEF ItemSlots
    <3>2. At(m2, a + 0) = At(m, a + 0)
      BY <2>4, <3>1, Zenon DEF Copied
    <3> QED
      BY <2>3, <3>2
  <2>6. t[ks[j]] = s[ks[j]]
    BY <1>2, <2>1
  <2> HIDE DEF a
  <2>7. HasKey(m2, ku2, a, ks[j])
    BY <1>3, <2>1, <2>2, <2>5, HasKeyCarry
  <2>8. HasVersions(m2, vu2, a, s[ks[j]])
    BY <1>3, <2>2, <2>3, <2>4, HasVersionsCarry
  <2> QED
    BY <2>6, <2>7, <2>8 DEF a
<1>5. HasKey(m2, ku2, ItemAt(b, i), k)
  <2>1. HasKey(m, ku, ItemAt(b, i), k)
    BY DEF IndexOf
  <2>2. PointsTo(m2, At(m, ItemAt(b, i)), KeyBase, ku2, k)
    BY <1>1, <1>3, <2>1, AtType, BaseType, PointsToCarry DEF HasKey, Texts
  <2> QED
    BY <2>2 DEF HasKey, PointsTo
<1>6. ASSUME NEW l \in Keys, t[l] # <<>>
      PROVE  \E j \in 0 .. n - 1 : ks[j] = l
  <2>1. CASE l = k
    BY <2>1
  <2>2. CASE l # k
    BY <1>2, <1>6, <2>2 DEF IndexOf
  <2> QED
    BY <2>1, <2>2
<1>7. ASSUME NEW j \in 0 .. n - 1
      PROVE  HasKey(m2, ku2, ItemAt(b, j), ks[j]) /\ HasVersions(m2, vu2, ItemAt(b, j), t[ks[j]])
  BY <1>2, <1>4, <1>5
<1>8. ks \in [0 .. n - 1 -> Keys] /\ \A x, y \in 0 .. n - 1 : x < y => Before(ks[x], ks[y])
  BY DEF IndexOf
<1> QED
  BY <1>2, <1>6, <1>7, <1>8 DEF IndexOf, t

LEMMA IndexAppended ==
    ASSUME NEW m, NEW b \in Nat, NEW n \in Nat, NEW ku, NEW vu,
           NEW s, Holds(m, ku, vu, b, n, s),
           NEW k \in Keys, NEW v \in Values,
           \A l \in Keys : s[l] # <<>> => Before(l, k),
           HasKey(m, ku, ItemAt(b, n), k),
           HasVersions(m, vu, ItemAt(b, n), SubSeq(<<v>> \o s[k], 1, KV!Kept(Len(s[k]))))
    PROVE  Holds(m, ku, vu, b, n + 1, KV!With(s, k, v))
<1> DEFINE t == KV!With(s, k, v)
<1>1. PICK ks \in [0 .. n - 1 -> Keys] : IndexOf(m, ku, vu, b, n, s, ks)
  BY DEF Holds
<1> DEFINE ls == [i \in 0 .. n |-> IF i = n THEN k ELSE ks[i]]
<1>2. /\ t \in [Keys -> Seq(Values)]
      /\ t[k] = SubSeq(<<v>> \o s[k], 1, KV!Kept(Len(s[k])))
      /\ \A l \in Keys : l # k => t[l] = s[l]
  BY <1>1, WithIs DEF IndexOf
<1> HIDE DEF t
<1>3. ls \in [0 .. n -> Keys] /\ ls[n] = k /\ \A i \in 0 .. n - 1 : ls[i] = ks[i]
  OBVIOUS
<1> HIDE DEF ls
<1>4. ASSUME NEW i \in 0 .. n - 1
      PROVE  /\ Before(ks[i], k)
             /\ HasKey(m, ku, ItemAt(b, i), ks[i])
             /\ HasVersions(m, vu, ItemAt(b, i), t[ks[i]])
  <2>1. ks[i] \in Keys /\ HasKey(m, ku, ItemAt(b, i), ks[i])
        /\ HasVersions(m, vu, ItemAt(b, i), s[ks[i]])
    BY <1>1 DEF IndexOf
  <2>2. s[ks[i]] # <<>>
    BY <2>1 DEF HasVersions
  <2>3. Before(ks[i], k)
    BY <2>1, <2>2
  <2>4. ks[i] # k
    BY <2>3, TextType DEF Before, Texts
  <2> QED
    BY <1>2, <2>1, <2>3, <2>4
<1>5. \A i, j \in 0 .. n : i < j => Before(ls[i], ls[j])
  <2> TAKE i, j \in 0 .. n
  <2> HAVE i < j
  <2>1. i \in 0 .. n - 1
    OBVIOUS
  <2>2. CASE j = n
    BY <1>3, <1>4, <2>1, <2>2
  <2>3. CASE j \in 0 .. n - 1
    BY <1>1, <1>3, <2>1, <2>3 DEF IndexOf
  <2> QED
    BY <2>2, <2>3
<1>6. \A i \in 0 .. n : /\ HasKey(m, ku, ItemAt(b, i), ls[i])
                        /\ HasVersions(m, vu, ItemAt(b, i), t[ls[i]])
  <2> TAKE i \in 0 .. n
  <2>1. CASE i = n
    BY <1>2, <1>3, <2>1
  <2>2. CASE i \in 0 .. n - 1
    BY <1>3, <1>4, <2>2
  <2> QED
    BY <2>1, <2>2
<1>7. ASSUME NEW l \in Keys, t[l] # <<>>
      PROVE  \E i \in 0 .. n : ls[i] = l
  <2>1. CASE l = k
    BY <1>3, <2>1
  <2>2. CASE l # k
    <3>1. PICK i \in 0 .. n - 1 : ks[i] = l
      BY <1>1, <1>2, <1>7, <2>2 DEF IndexOf
    <3> QED
      BY <1>3, <3>1
  <2> QED
    BY <2>1, <2>2
<1>8. (n + 1) - 1 = n
  OBVIOUS
<1>9. IndexOf(m, ku, vu, b, n + 1, t, ls)
  BY <1>2, <1>3, <1>5, <1>6, <1>7, <1>8, Zenon DEF IndexOf
<1> QED
  BY <1>3, <1>8, <1>9, Zenon DEF Holds, t

LEMMA IndexDropped ==
    ASSUME NEW m, NEW b, NEW n \in Nat, NEW ku, NEW vu,
           NEW s, NEW ks, IndexOf(m, ku, vu, b, n + 1, s, ks)
    PROVE  Holds(m, ku, vu, b, n, KV!Without(s, ks[n]))
<1> DEFINE k == ks[n]
           t == KV!Without(s, k)
           ls == [i \in 0 .. n - 1 |-> ks[i]]
<1>1. (n + 1) - 1 = n
  OBVIOUS
<1>2. /\ s \in [Keys -> Seq(Values)] /\ ks \in [0 .. n -> Keys]
      /\ \A i, j \in 0 .. n : i < j => Before(ks[i], ks[j])
      /\ \A l \in Keys : s[l] # <<>> => \E i \in 0 .. n : ks[i] = l
      /\ \A i \in 0 .. n : /\ HasKey(m, ku, ItemAt(b, i), ks[i])
                           /\ HasVersions(m, vu, ItemAt(b, i), s[ks[i]])
  BY <1>1, Zenon DEF IndexOf
<1>3. k \in Keys
  BY <1>2
<1> HIDE DEF k
<1>4. /\ t \in [Keys -> Seq(Values)] /\ t[k] = <<>>
      /\ \A l \in Keys : l # k => t[l] = s[l]
  BY <1>2, <1>3, WithoutIs
<1> HIDE DEF t
<1>5. ls \in [0 .. n - 1 -> Keys] /\ \A i \in 0 .. n - 1 : ls[i] = ks[i]
  BY <1>2
<1> HIDE DEF ls
<1>6. \A i \in 0 .. n - 1 : i \in 0 .. n /\ ks[i] # k
  <2> TAKE i \in 0 .. n - 1
  <2>1. i \in 0 .. n /\ n \in 0 .. n /\ i < n
    OBVIOUS
  <2>2. Before(ks[i], k) /\ ks[i] \in Keys
    BY <1>2, <2>1 DEF k
  <2> QED
    BY <1>3, <2>1, <2>2, TextType DEF Before, Texts
<1>7. \A i \in 0 .. n - 1 : /\ HasKey(m, ku, ItemAt(b, i), ls[i])
                            /\ HasVersions(m, vu, ItemAt(b, i), t[ls[i]])
  BY <1>2, <1>4, <1>5, <1>6
<1>8. ASSUME NEW l \in Keys, t[l] # <<>>
      PROVE  \E i \in 0 .. n - 1 : ls[i] = l
  <2>1. l # k /\ s[l] # <<>>
    BY <1>4, <1>8
  <2>2. PICK i \in 0 .. n : ks[i] = l
    BY <1>2, <2>1
  <2>3. i \in 0 .. n - 1
    BY <2>1, <2>2 DEF k
  <2> QED
    BY <1>5, <2>2, <2>3
<1>9. \A i, j \in 0 .. n - 1 : i < j => Before(ls[i], ls[j])
  BY <1>2, <1>5, <1>6
<1>10. IndexOf(m, ku, vu, b, n, t, ls)
  BY <1>4, <1>5, <1>7, <1>8, <1>9, Zenon DEF IndexOf
<1> QED
  BY <1>5, <1>10, Zenon DEF Holds, t, k
=============================================================================
