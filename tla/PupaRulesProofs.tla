---------------------------- MODULE PupaRulesProofs ----------------------------
(***************************************************************************)
(* Theorems about PupaStore for callers that keep to the rules: they read  *)
(* before they write, add keys in ascending order, delete the greatest     *)
(* only and leave room in every area.                                      *)
(***************************************************************************)
EXTENDS PupaIndexProofs

CallersKeepToRules ==
    /\ {"fresh", "order", "room"} \subseteq Rules
    /\ "kill_add" \notin Faults

-----------------------------------------------------------------------------
(* The invariant. *)

Snap == SnapBase(item_section)

Index(base, n, s) == Holds(mem, key_section.used, value_section.used, base, n, s)

(* The same with key k at position i. *)
IndexWith(base, n, s, i, k) ==
    /\ i \in 0 .. n - 1
    /\ \E ks \in [0 .. n - 1 -> Keys] :
          ks[i] = k /\ IndexOf(mem, key_section.used, value_section.used, base, n, s, ks)

(* The sections are where pupa_store_init put them: no compaction has switched *)
(* the areas of keys or values, and the items that are counted fit.            *)
InPlace ==
    /\ item_section.sec1 = ItemSection(KeyCount).sec1
    /\ item_section.sec2 = ItemSection(KeyCount).sec2
    /\ item_section.size = KeyCount
    /\ item_section.used <= ItemCapacity(KeyCount)
    /\ key_section.id = 1
    /\ key_section.sec1 = KeyBase
    /\ key_section.size = KeyArea(KeyCount)
    /\ key_section.used <= key_section.size
    /\ value_section.id = 1
    /\ value_section.sec1 = ValueBase
    /\ value_section.size = ValueArea(KeyCount)

ValueRoom == value_section.used + TextLen[w.val] <= value_section.size

(* No call is under way: what readers find is all there is. *)
Resting == w.op = "none" /\ Index(Live, item_section.used, View)

(* An add, from its beginning to the new item's count. *)
Adding ==
    /\ w.op = "add"
    /\ Index(Live, item_section.used, shown)
    /\ w.key \in Keys /\ w.val \in Values
    /\ \A k \in Keys : shown[k] # <<>> => Before(k, w.key)
    /\ item_section.used < ItemCapacity(KeyCount)
    /\ store_items_snapshot = Snap
    /\ w.pc \in {"item", "value"} =>
          /\ Index(Snap, item_section.used, shown)
          /\ w.item = ItemAt(Snap, item_section.used)
          /\ ValueRoom
    /\ w.pc = "item" => key_section.used + TextLen[w.key] <= key_section.size
    /\ w.pc = "value" => HasKey(mem, key_section.used, w.item, w.key)
    /\ w.pc = "used" => Index(Snap, item_section.used + 1, Due)

(* The item is counted, the index that has it not current. *)
Added ==
    /\ w.op = "add"
    /\ w.key \in Keys /\ w.val \in Values
    /\ item_section.used > 0
    /\ Index(Live, item_section.used - 1, shown)
    /\ Index(Snap, item_section.used, Due)
    /\ store_items_snapshot = Snap

(* A replacement, until the index is switched. *)
Replacing ==
    /\ w.op = "replace"
    /\ w.key \in Keys /\ w.val \in Values
    /\ Index(Live, item_section.used, shown)
    /\ w.pc = "value" =>
          /\ \E i \in 0 .. item_section.used - 1 :
                /\ IndexWith(Snap, item_section.used, shown, i, w.key)
                /\ w.item = ItemAt(Snap, i)
          /\ ValueRoom
    /\ w.pc = "flip" => Index(Snap, item_section.used, Due)

(* A deletion, until the item is taken off the count: in the index that is to *)
(* be current it is the last one.                                             *)
Deleting ==
    /\ w.op = "del"
    /\ w.key \in Keys
    /\ item_section.used > 0
    /\ Index(Live, item_section.used, shown)
    /\ IndexWith(IF w.pc = "flip" THEN Snap ELSE Live, item_section.used, shown,
                 item_section.used - 1, w.key)

(* The call is through but for msync. *)
Written ==
    /\ w.op \in {"add", "replace", "del"}
    /\ w.key \in Keys
    /\ w.op # "del" => w.val \in Values
    /\ w.op = "del" => shown[w.key] # <<>>
    /\ shown \in [Keys -> Seq(Values)]
    /\ Index(Live, item_section.used, Due)

(* What holds where a call is: callers who keep to the rules never get to a *)
(* compaction or a signal.                                                  *)
PhaseInv ==
    /\ w.pc \notin {"compact_key", "compact_value", "dead"}
    /\ w.pc \in {"idle", "down"} => Resting
    /\ w.pc \in {"item", "used"} => Adding
    /\ w.pc = "value" => Adding \/ Replacing
    /\ w.pc = "sort" => Added
    /\ w.pc = "flip" => Added \/ Replacing \/ Deleting
    /\ w.pc = "uncount" => Deleting
    /\ w.pc = "sync" => Written

RulesInv == IndInv /\ InPlace /\ PhaseInv

(* What a step of such a call leaves alone: the items readers search and the *)
(* texts that are counted, which readers compare and have pointers to.       *)
CurrentStays ==
    /\ Copied(mem, Live, mem', Live, ItemSlots * item_section.used)
    /\ TextsStay(mem, key_section.used, value_section.used,
                 mem', key_section'.used, value_section'.used)

-----------------------------------------------------------------------------
(* Where things are. *)

(* The items counted lie in one item area, the areas in the file one behind *)
(* the other.                                                               *)
AreasApart(area, live, snap) ==
    /\ area \in Nat
    /\ live \in Nat /\ snap \in Nat
    /\ HdrSlots <= live /\ live + area <= KeyBase
    /\ HdrSlots <= snap /\ snap + area <= KeyBase
    /\ live + area <= snap \/ snap + area <= live

LEMMA Places ==
    ASSUME IndInv, InPlace
    PROVE  /\ AreasApart(ItemArea(KeyCount), Live, Snap)
           /\ HdrSlots \in Nat /\ KeyBase \in Nat /\ ValueBase \in Nat
           /\ StoreSize(KeyCount) \in Nat
           /\ KeyBase + key_section.size <= ValueBase
           /\ ValueBase + value_section.size <= StoreSize(KeyCount)
           /\ key_section.used \in Nat /\ key_section.used <= key_section.size
           /\ value_section.used \in Nat /\ value_section.used <= value_section.size
           /\ key_section.size \in Nat /\ value_section.size \in Nat
           /\ FreeAddr(key_section) = KeyBase + key_section.used
           /\ FreeAddr(value_section) = ValueBase + value_section.used
<1> DEFINE n == KeyCount
<1>1. n \in Nat
  BY StoreAssumption
<1>2. ItemArea(n) \in Nat /\ KeyArea(n) \in Nat /\ ValueArea(n) \in Nat /\ HdrSlots \in Nat
  BY <1>1, AreaType
<1>3. /\ ItemSection(n).sec1 = HdrSlots
      /\ ItemSection(n).sec2 = HdrSlots + ItemArea(n)
      /\ KeySection(n).sec1 = HdrSlots + ItemArea(n) + ItemArea(n)
      /\ KeySection(n).sec2 = KeySection(n).sec1 + KeyArea(n)
      /\ ValueSection(n).sec1 = KeySection(n).sec2 + KeyArea(n)
      /\ ValueSection(n).sec2 = ValueSection(n).sec1 + ValueArea(n)
      /\ StoreSize(n) = ValueSection(n).sec2 + ValueArea(n)
  BY <1>1, AreasFollow DEF KeySection, ValueSection, Section
<1>4. /\ item_section.id \in {1, 2}
      /\ key_section.used \in Nat /\ key_section.used <= key_section.size
      /\ value_section.used \in Nat /\ value_section.used <= value_section.size
  BY DEF IndInv, TypeOK, UsedBounded, Sections, InPlace
<1>5. KeyBase = HdrSlots + ItemArea(n) + ItemArea(n) /\ ValueBase = KeyBase + KeyArea(n) + KeyArea(n)
  BY <1>2, <1>3 DEF KeyBase, ValueBase
<1>6. /\ FreeAddr(key_section) = KeyBase + key_section.used
      /\ FreeAddr(value_section) = ValueBase + value_section.used
  BY DEF InPlace, FreeAddr, LiveBase
<1>7. \/ Live = HdrSlots /\ Snap = HdrSlots + ItemArea(n)
      \/ Live = HdrSlots + ItemArea(n) /\ Snap = HdrSlots
  BY <1>3, <1>4 DEF InPlace, Live, Snap, LiveBase, SnapBase
<1>8. key_section.size = KeyArea(n) /\ value_section.size = ValueArea(n)
  BY DEF InPlace
<1> HIDE DEF n
<1>9. AreasApart(ItemArea(n), Live, Snap)
  BY <1>2, <1>5, <1>7 DEF AreasApart
<1>10. StoreSize(n) = ValueBase + ValueArea(n) + ValueArea(n)
  BY <1>2, <1>3 DEF ValueBase, n
<1> QED
  BY <1>2, <1>4, <1>5, <1>6, <1>8, <1>9, <1>10 DEF n

-----------------------------------------------------------------------------
(* What readers find, of a state and of the next one. *)
LEMMA Reads ==
    \A s : IndInv /\ Index(Live, item_section.used, s) => View = s
<1>1. ASSUME NEW s, IndInv, Index(Live, item_section.used, s)
      PROVE  View = s
  <2>1. item_section.used \in Nat /\ Live \in Nat
    BY <1>1, SectionType DEF IndInv, TypeOK, Sections, Live
  <2> QED
    BY <1>1, <2>1, ViewIs DEF Index
<1> QED
  BY <1>1

LEMMA ReadsNext ==
    \A s : (IndInv /\ Index(Live, item_section.used, s) => View = s)'
<1>1. (\A s : IndInv /\ Index(Live, item_section.used, s) => View = s)'
  BY Reads, PTL
<1> QED
  BY <1>1

LEMMA ShownNext ==
    (IndInv /\ Index(Live, item_section.used, shown) => View = shown)'
<1>1. IndInv /\ Index(Live, item_section.used, shown) => View = shown
  BY Reads
<1> QED
  BY <1>1, PTL

-----------------------------------------------------------------------------
(* What the writes of a call leave alone. *)

LEMMA CapacityType == ItemCapacity(KeyCount) \in Int
BY AreaType, StoreAssumption DEF ItemCapacity

LEMMA ItemsFit ==
    ASSUME NEW n \in Nat, n <= ItemCapacity(KeyCount)
    PROVE  ItemSlots * n \in Nat /\ ItemSlots * n <= ItemArea(KeyCount)
<1>1. KeyCount \in Nat /\ ItemSlots \in Nat
  BY StoreAssumption, LayoutType
<1>2. n * ItemSlots <= ItemArea(KeyCount)
  BY <1>1, CapacityExact
<1>3. n * ItemSlots = ItemSlots * n
  BY <1>1
<1> QED
  BY <1>1, <1>2, <1>3

(* Where an item of the snapshot is. *)
LEMMA ItemPlace ==
    ASSUME IndInv, InPlace, NEW j \in Nat, j < ItemCapacity(KeyCount)
    PROVE  /\ ItemAt(Snap, j) \in Nat
           /\ ItemAt(Snap, j) >= HdrSlots
           /\ ItemAt(Snap, j) + MaxVer < KeyBase
           /\ ItemAt(Snap, j) .. ItemAt(Snap, j) + MaxVer \subseteq Slots
<1> DEFINE item == ItemAt(Snap, j)
           at == ItemSlots * j
<1>1. /\ AreasApart(ItemArea(KeyCount), Live, Snap)
      /\ HdrSlots \in Nat /\ KeyBase \in Nat /\ ValueBase \in Nat /\ StoreSize(KeyCount) \in Nat
      /\ key_section.size \in Nat /\ KeyBase + key_section.size <= ValueBase
      /\ value_section.size \in Nat /\ ValueBase + value_section.size <= StoreSize(KeyCount)
  BY Places
<1>2. ItemSlots * (j + 1) <= ItemArea(KeyCount)
  <2>1. ItemCapacity(KeyCount) \in Int
    BY CapacityType
  <2>2. j + 1 \in Nat /\ j + 1 <= ItemCapacity(KeyCount)
    BY <2>1
  <2> QED
    BY <2>2, ItemsFit
<1>3. ItemSlots = 1 + MaxVer /\ MaxVer \in Nat
  BY LayoutAssumption DEF ItemSlots
<1>4. at \in Nat /\ ItemSlots * (j + 1) = at + ItemSlots
  BY <1>3
<1>5. item = Snap + at
  BY DEF ItemAt
<1> HIDE DEF at, item
<1>6. item \in Nat /\ item >= HdrSlots /\ item + MaxVer < KeyBase
  BY <1>1, <1>2, <1>3, <1>4, <1>5 DEF AreasApart
<1>7. item .. item + MaxVer \subseteq Slots
  BY <1>1, <1>3, <1>6 DEF Slots
<1> QED
  BY <1>6, <1>7 DEF item

(* A snapshot is taken behind or before the current index and before all texts. *)
LEMMA SnapshotLeaves ==
    ASSUME IndInv, InPlace
    PROVE  LET n == ItemSlots * item_section.used
           IN  /\ n \in Nat /\ n <= ItemArea(KeyCount)
               /\ Copied(mem, Live, make_snapshot, Live, n)
               /\ TextsStay(mem, key_section.used, value_section.used,
                            make_snapshot, key_section.used, value_section.used)
<1> DEFINE used == item_section.used
           ku == key_section.used
           vu == value_section.used
           n == ItemSlots * used
           area == ItemArea(KeyCount)
           m2 == memcpy(mem, Snap, store_items, n)
<1>1. /\ AreasApart(area, Live, Snap)
      /\ HdrSlots \in Nat /\ KeyBase \in Nat /\ ValueBase \in Nat
      /\ KeyBase <= ValueBase /\ KeyBase <= StoreSize(KeyCount) /\ StoreSize(KeyCount) \in Nat
      /\ ku \in Nat /\ vu \in Nat
  BY Places
<1>2. used \in Nat /\ mem \in Mem
  BY DEF IndInv, TypeOK, Sections, Mem
<1>3. n \in Nat /\ n <= area
  <2> HIDE DEF used, area
  <2>1. used <= ItemCapacity(KeyCount)
    BY DEF InPlace, used
  <2> QED
    BY <1>2, <2>1, ItemsFit DEF area
<1> HIDE DEF n, area, ku, vu
<1>4. \A a : a \notin Snap .. Snap + n - 1 => At(m2, a) = At(mem, a)
  BY <1>2, Elsewhere
<1> HIDE DEF m2
<1>5. Copied(mem, Live, m2, Live, n)
  <2>1. \A x \in 0 .. n - 1 : Live + x \notin Snap .. Snap + n - 1
    BY <1>1, <1>3 DEF AreasApart
  <2> QED
    BY <1>4, <2>1 DEF Copied
<1>6. TextsStay(mem, ku, vu, m2, ku, vu)
  <2>1. \A x \in Nat : KeyBase + x \notin Snap .. Snap + n - 1
                       /\ ValueBase + x \notin Snap .. Snap + n - 1
    BY <1>1, <1>3 DEF AreasApart
  <2>2. Copied(mem, KeyBase, m2, KeyBase, ku)
    <3>1. \A x \in 0 .. ku - 1 : x \in Nat
      BY <1>1
    <3> QED
      BY <1>4, <2>1, <3>1 DEF Copied
  <2>3. Copied(mem, ValueBase, m2, ValueBase, vu)
    <3>1. \A x \in 0 .. vu - 1 : x \in Nat
      BY <1>1
    <3> QED
      BY <1>4, <2>1, <3>1 DEF Copied
  <2> QED
    BY <1>1, <2>2, <2>3 DEF TextsStay
<1>7. make_snapshot = m2
  BY Zenon DEF make_snapshot, m2, n, Snap
<1> QED
  BY <1>3, <1>5, <1>6, <1>7 DEF n, ku, vu, area

(* The snapshot holds what the current index holds, which stays. *)
LEMMA SnapshotTaken ==
    ASSUME IndInv, InPlace, store_items = Live, NEW s, NEW ks,
           IndexOf(mem, key_section.used, value_section.used, Live, item_section.used, s, ks)
    PROVE  /\ IndexOf(make_snapshot, key_section.used, value_section.used,
                      Live, item_section.used, s, ks)
           /\ IndexOf(make_snapshot, key_section.used, value_section.used,
                      Snap, item_section.used, s, ks)
<1> DEFINE used == item_section.used
           ku == key_section.used
           vu == value_section.used
           n == ItemSlots * used
           m2 == make_snapshot
<1>1. /\ AreasApart(ItemArea(KeyCount), Live, Snap) /\ ItemArea(KeyCount) \in Nat
      /\ HdrSlots \in Nat /\ KeyBase \in Nat /\ KeyBase <= StoreSize(KeyCount)
      /\ StoreSize(KeyCount) \in Nat
  BY Places DEF AreasApart
<1>2. used \in Nat /\ mem \in Mem
  BY DEF IndInv, TypeOK, Sections, Mem
<1>3. /\ n \in Nat /\ n <= ItemArea(KeyCount)
      /\ Copied(mem, Live, m2, Live, n)
      /\ TextsStay(mem, ku, vu, m2, ku, vu)
  BY SnapshotLeaves
<1> HIDE DEF n, ku, vu
<1>4. m2 = memcpy(mem, Snap, Live, n)
  BY Zenon DEF make_snapshot, n, Snap
<1> HIDE DEF m2
<1>5. ASSUME NEW x \in 0 .. n - 1
      PROVE  At(m2, Snap + x) = At(mem, Live + x)
  <2> DEFINE a == Snap + x
  <2>1. a \in Slots /\ a \in Snap .. Snap + n - 1 /\ Live + (a - Snap) = Live + x
    BY <1>1, <1>3 DEF AreasApart, Slots
  <2> HIDE DEF a
  <2>2. At(m2, a) = IF a \in Snap .. Snap + n - 1 THEN At(mem, Live + (a - Snap)) ELSE At(mem, a)
    BY <1>2, <1>4, <2>1, AtMemcpy
  <2> QED
    BY <2>1, <2>2 DEF a
<1>6. Copied(mem, Live, m2, Snap, n)
  BY <1>5 DEF Copied
<1>7. IndexOf(mem, ku, vu, Live, used, s, ks)
  BY DEF ku, vu
<1>8. Live \in Nat /\ Snap \in Nat
  BY <1>1 DEF AreasApart
<1> HIDE DEF used
<1>9. IndexOf(m2, ku, vu, Live, used, s, ks)
  BY <1>2, <1>3, <1>7, <1>8, IndexCarry DEF n
<1>10. IndexOf(m2, ku, vu, Snap, used, s, ks)
  BY <1>2, <1>3, <1>6, <1>7, <1>8, IndexCarry DEF n
<1> QED
  BY <1>9, <1>10 DEF ku, vu, used, m2

(* m2 is m but for the j-th item of the snapshot and a text put behind      *)
(* those of the keys or those of the values.                                *)
WritesItem(m, m2, j, p, len) ==
    /\ j \in Nat /\ j < ItemCapacity(KeyCount)
    /\ len \in Nat
    /\ \/ p = KeyBase + key_section.used /\ key_section.used + len <= key_section.size
       \/ p = ValueBase + value_section.used
    /\ \A a : a \notin ItemAt(Snap, j) .. ItemAt(Snap, j) + MaxVer /\ a \notin p .. p + len - 1
                  => At(m2, a) = At(m, a)

LEMMA WriteLeaves ==
    ASSUME IndInv, InPlace, NEW m, NEW m2, NEW j, NEW p, NEW len, WritesItem(m, m2, j, p, len)
    PROVE  /\ Copied(m, KeyBase, m2, KeyBase, key_section.used)
           /\ Copied(m, ValueBase, m2, ValueBase, value_section.used)
           /\ Copied(m, Live, m2, Live, ItemSlots * item_section.used)
           /\ j = item_section.used => Copied(m, Snap, m2, Snap, ItemSlots * j)
           /\ \A i \in 0 .. ItemCapacity(KeyCount) - 1 : i # j =>
                 Copied(m, ItemAt(Snap, i), m2, ItemAt(Snap, i), ItemSlots)
<1> DEFINE used == item_section.used
           ku == key_section.used
           vu == value_section.used
           area == ItemArea(KeyCount)
           item == ItemAt(Snap, j)
           Off(a) == a \notin item .. item + MaxVer /\ a \notin p .. p + len - 1
<1>1. /\ AreasApart(area, Live, Snap)
      /\ HdrSlots \in Nat /\ KeyBase \in Nat /\ ValueBase \in Nat
      /\ key_section.size \in Nat /\ KeyBase + key_section.size <= ValueBase
      /\ ku \in Nat /\ ku <= key_section.size /\ vu \in Nat
  BY Places
<1>2. used \in Nat /\ used <= ItemCapacity(KeyCount) /\ MaxVer \in Nat /\ ItemSlots = 1 + MaxVer
  BY LayoutAssumption DEF IndInv, TypeOK, Sections, InPlace, ItemSlots
<1>3. ItemSlots * used \in Nat /\ ItemSlots * used <= area
  BY <1>2, ItemsFit
<1>4. j \in Nat /\ len \in Nat /\ ItemCapacity(KeyCount) \in Int /\ j + 1 <= ItemCapacity(KeyCount)
  <2>1. ItemCapacity(KeyCount) \in Int
    BY <1>2, AreaType, StoreAssumption DEF ItemCapacity
  <2> QED
    BY <2>1 DEF WritesItem
<1>5. /\ item = Snap + ItemSlots * j /\ ItemSlots * j \in Nat
      /\ ItemSlots * j + MaxVer < area
  <2>1. ItemSlots * (j + 1) <= area /\ j + 1 \in Nat
    BY <1>4, ItemsFit
  <2>2. ItemSlots * (j + 1) = ItemSlots * j + ItemSlots /\ ItemSlots * j \in Nat
    BY <1>2, <1>4
  <2> QED
    BY <1>2, <2>1, <2>2, AreaType, StoreAssumption DEF ItemAt
<1>6. \/ p = KeyBase + ku /\ ku + len <= key_section.size
      \/ p = ValueBase + vu
  BY DEF WritesItem
<1>7. \A a : Off(a) => At(m2, a) = At(m, a)
  BY Zenon DEF WritesItem
<1> HIDE DEF area, ku, vu, item
<1>8. \A x \in 0 .. ku - 1 : Off(KeyBase + x)
  BY <1>1, <1>2, <1>4, <1>5, <1>6 DEF AreasApart
<1>9. \A x \in 0 .. vu - 1 : Off(ValueBase + x)
  BY <1>1, <1>2, <1>4, <1>5, <1>6 DEF AreasApart
<1>10. \A a \in Nat : a < KeyBase /\ a \notin item .. item + MaxVer => Off(a)
  BY <1>1, <1>4, <1>6
<1>11. \A x \in 0 .. ItemSlots * used - 1 : Off(Live + x)
  <2>1. ASSUME NEW x \in 0 .. ItemSlots * used - 1
        PROVE  Live + x \in Nat /\ Live + x < KeyBase /\ Live + x \notin item .. item + MaxVer
    BY <1>1, <1>2, <1>3, <1>5 DEF AreasApart
  <2> QED
    BY <1>10, <2>1
<1>12. j = used => \A x \in 0 .. ItemSlots * j - 1 : Off(Snap + x)
  <2>1. ASSUME NEW x \in 0 .. ItemSlots * j - 1
        PROVE  Snap + x \in Nat /\ Snap + x < KeyBase /\ Snap + x \notin item .. item + MaxVer
    BY <1>1, <1>2, <1>3, <1>5 DEF AreasApart
  <2> QED
    BY <1>10, <2>1
<1>13. ASSUME NEW i \in 0 .. ItemCapacity(KeyCount) - 1, i # j, NEW x \in 0 .. ItemSlots - 1
       PROVE  Off(ItemAt(Snap, i) + x)
  <2> DEFINE at == ItemSlots * i
  <2>1. i \in Nat /\ i + 1 \in Nat /\ i + 1 <= ItemCapacity(KeyCount)
    BY <1>4
  <2>2. ItemSlots * (i + 1) <= area
    BY <2>1, ItemsFit DEF area
  <2>3. ItemSlots * (i + 1) = at + ItemSlots /\ at \in Nat
    BY <1>2, <2>1
  <2>4. at + MaxVer < ItemSlots * j \/ ItemSlots * j + MaxVer < at
    <3>1. i < j \/ j < i
      BY <1>4, <1>13, <2>1
    <3> QED
      BY <1>4, <2>1, <3>1, ItemsApart
  <2>5. ItemAt(Snap, i) = Snap + at
    BY DEF ItemAt
  <2> HIDE DEF at
  <2>6. (Snap + at) + x \in Nat /\ (Snap + at) + x < KeyBase
        /\ (Snap + at) + x \notin item .. item + MaxVer
    BY <1>1, <1>2, <1>5, <2>2, <2>3, <2>4 DEF AreasApart
  <2> QED
    BY <1>10, <2>5, <2>6
<1> HIDE DEF Off
<1> QED
  BY <1>7, <1>8, <1>9, <1>11, <1>12, <1>13 DEF Copied, ku, vu

(* An index lives on in the memory after the write: the current one, and    *)
(* the snapshot's unless the item written to is counted in it.              *)
LEMMA IndexesLive ==
    ASSUME IndInv, InPlace, NEW m \in Mem, NEW m2, NEW j, NEW p, NEW len,
           WritesItem(m, m2, j, p, len),
           NEW ku \in Nat, NEW vu \in Nat, key_section.used <= ku, value_section.used <= vu,
           NEW s
    PROVE  /\ TextsStay(m, key_section.used, value_section.used, m2, ku, vu)
           /\ Holds(m, key_section.used, value_section.used, Live, item_section.used, s)
                  => Holds(m2, ku, vu, Live, item_section.used, s)
           /\ j = item_section.used
              /\ Holds(m, key_section.used, value_section.used, Snap, item_section.used, s)
                  => Holds(m2, ku, vu, Snap, item_section.used, s)
<1> DEFINE used == item_section.used
           ku1 == key_section.used
           vu1 == value_section.used
<1>1. /\ Copied(m, KeyBase, m2, KeyBase, ku1)
      /\ Copied(m, ValueBase, m2, ValueBase, vu1)
      /\ Copied(m, Live, m2, Live, ItemSlots * used)
      /\ j = used => Copied(m, Snap, m2, Snap, ItemSlots * j)
  BY WriteLeaves
<1>2. ku1 \in Nat /\ vu1 \in Nat /\ Live \in Nat /\ Snap \in Nat
  BY Places DEF AreasApart
<1>3. used \in Nat /\ ku1 <= ku /\ vu1 <= vu
  BY DEF IndInv, TypeOK, Sections
<1> HIDE DEF used, ku1, vu1
<1>4. TextsStay(m, ku1, vu1, m2, ku, vu)
  BY <1>1, <1>2, <1>3 DEF TextsStay
<1>5. ASSUME Holds(m, ku1, vu1, Live, used, s)
      PROVE  Holds(m2, ku, vu, Live, used, s)
  <2>1. PICK ks \in [0 .. used - 1 -> Keys] : IndexOf(m, ku1, vu1, Live, used, s, ks)
    BY <1>5 DEF Holds
  <2>2. IndexOf(m2, ku, vu, Live, used, s, ks)
    BY <1>1, <1>2, <1>3, <1>4, <2>1, IndexCarry
  <2> QED
    BY <2>2 DEF Holds
<1>6. ASSUME j = used, Holds(m, ku1, vu1, Snap, used, s)
      PROVE  Holds(m2, ku, vu, Snap, used, s)
  <2>1. PICK ks \in [0 .. used - 1 -> Keys] : IndexOf(m, ku1, vu1, Snap, used, s, ks)
    BY <1>6 DEF Holds
  <2>2. IndexOf(m2, ku, vu, Snap, used, s, ks)
    BY <1>1, <1>2, <1>3, <1>4, <1>6, <2>1, IndexCarry
  <2> QED
    BY <2>2 DEF Holds
<1> QED
  BY <1>4, <1>5, <1>6 DEF used, ku1, vu1

-----------------------------------------------------------------------------
(* The steps that begin a call. *)

(* What the index is before the call and the snapshot when it has been taken. *)
Taken(ks) ==
    /\ ks \in [0 .. item_section.used - 1 -> Keys]
    /\ \A b \in {Live, Snap} :
          IndexOf(make_snapshot, key_section.used, value_section.used,
                  b, item_section.used, View, ks)
    /\ IndexOf(mem, key_section.used, value_section.used, Live, item_section.used, View, ks)
    /\ \A k \in Keys : Find(k) = FindInSnapshot(k)
    /\ \A k \in Keys : \/ FindInSnapshot(k) = NotFound
                       \/ FindInSnapshot(k) \in 0 .. item_section.used - 1
    /\ \A k \in Keys, i \in 0 .. item_section.used - 1 : FindInSnapshot(k) = i <=> ks[i] = k

LEMMA CallTakesSnapshot ==
    ASSUME IndInv, InPlace, PhaseInv, w.pc = "idle", store_items = Live
    PROVE  \E ks : Taken(ks)
<1> DEFINE used == item_section.used
           ku == key_section.used
           vu == value_section.used
<1>1. used \in Nat
  BY DEF IndInv, TypeOK, Sections
<1>2. PICK ks \in [0 .. used - 1 -> Keys] : IndexOf(mem, ku, vu, Live, used, View, ks)
  BY DEF PhaseInv, Resting, Index, Holds
<1>3. /\ IndexOf(make_snapshot, ku, vu, Live, used, View, ks)
      /\ IndexOf(make_snapshot, ku, vu, Snap, used, View, ks)
  BY <1>2, SnapshotTaken
<1> HIDE DEF used, ku, vu
<1>4. ASSUME NEW m, NEW b, IndexOf(m, ku, vu, b, used, View, ks), NEW k \in Keys
      PROVE  /\ \/ Search(m, b, used, k) = NotFound
                \/ Search(m, b, used, k) \in 0 .. used - 1
             /\ \A i \in 0 .. used - 1 : Search(m, b, used, k) = i <=> ks[i] = k
  <2>1. Search(m, b, used, k) = NotFound \/ Search(m, b, used, k) \in 0 .. used - 1
    BY <1>1, <1>4, SearchIs
  <2>2. \A i \in 0 .. used - 1 : ks[i] = k => Search(m, b, used, k) = i
    BY <1>1, <1>4, SearchIs
  <2>3. \A i \in 0 .. used - 1 : Search(m, b, used, k) = i => ks[i] = k
    BY <1>1, <1>4, SearchIs
  <2> QED
    BY <2>1, <2>2, <2>3
<1>5. ASSUME NEW k \in Keys
      PROVE  /\ Find(k) = FindInSnapshot(k)
             /\ FindInSnapshot(k) = NotFound \/ FindInSnapshot(k) \in 0 .. used - 1
             /\ \A i \in 0 .. used - 1 : FindInSnapshot(k) = i <=> ks[i] = k
  <2>1. FindInSnapshot(k) = Search(make_snapshot, Snap, used, k)
    BY DEF FindInSnapshot, Snap, used
  <2>2. Find(k) = Search(mem, Live, used, k)
    BY DEF Find, used
  <2> DEFINE f == Search(make_snapshot, Snap, used, k)
             g == Search(mem, Live, used, k)
  <2>3. f = NotFound \/ f \in 0 .. used - 1
    BY <1>3, <1>4
  <2>4. \A i \in 0 .. used - 1 : f = i <=> ks[i] = k
    BY <1>3, <1>4
  <2>5. g = NotFound \/ g \in 0 .. used - 1
    BY <1>2, <1>4
  <2>6. \A i \in 0 .. used - 1 : g = i <=> ks[i] = k
    BY <1>2, <1>4
  <2> HIDE DEF f, g
  <2>7. f = g
    BY <2>3, <2>4, <2>5, <2>6
  <2> QED
    BY <2>1, <2>2, <2>3, <2>4, <2>7 DEF f, g
<1> QED
  BY <1>2, <1>3, <1>5, Zenon DEF Taken, used, ku, vu

(* The state of a call that has begun: both indexes hold what was shown. *)
BothHold(ks, s) ==
    /\ Index(Live, item_section.used, s)
    /\ Index(Snap, item_section.used, s)
    /\ \A i \in 0 .. item_section.used - 1 :
          /\ IndexWith(Live, item_section.used, s, i, ks[i])
          /\ IndexWith(Snap, item_section.used, s, i, ks[i])

LEMMA BothHoldNext ==
    ASSUME Begin, mem' = make_snapshot, NEW ks, Taken(ks)
    PROVE  /\ BothHold(ks, shown)'
           /\ shown' = View
           /\ item_section' = item_section
           /\ key_section' = key_section
           /\ value_section' = value_section
           /\ store_items_snapshot' = Snap
           /\ Live' = Live /\ Snap' = Snap
<1>1. /\ shown' = View
      /\ item_section' = item_section
      /\ key_section' = key_section
      /\ value_section' = value_section
      /\ store_items_snapshot' = Snap
  BY DEF Begin, header, Snap
<1>2. Live' = Live /\ Snap' = Snap
  BY <1>1 DEF Live, Snap
<1> DEFINE used == item_section.used
<1>3. \A b \in {Live, Snap} :
         IndexOf(mem', key_section'.used, value_section'.used, b, used, shown', ks)
  BY <1>1, Zenon DEF Taken
<1>4. ks \in [0 .. used - 1 -> Keys]
  BY DEF Taken
<1>5. item_section'.used = used
  BY <1>1
<1> HIDE DEF used
<1>6. \A b \in {Live, Snap} :
         /\ Holds(mem', key_section'.used, value_section'.used, b, used, shown')
         /\ \A i \in 0 .. used - 1 :
               \E ls \in [0 .. used - 1 -> Keys] :
                  /\ ls[i] = ks[i]
                  /\ IndexOf(mem', key_section'.used, value_section'.used, b, used, shown', ls)
  BY <1>3, <1>4, Zenon DEF Holds
<1>7. BothHold(ks, shown)'
  BY <1>2, <1>5, <1>6, Zenon DEF BothHold, Index, IndexWith
<1> QED
  BY <1>1, <1>2, <1>7

LEMMA AscendingIs ==
    ASSUME NEW ks, Taken(ks), NEW k \in Keys, Ascending(k), Find(k) = NotFound
    PROVE  \A l \in Keys : View[l] # <<>> => Before(l, k)
<1> SUFFICES ASSUME NEW l \in Keys, View[l] # <<>>
             PROVE  Before(l, k)
  OBVIOUS
<1>1. IndexOf(mem, key_section.used, value_section.used, Live, item_section.used, View, ks)
  BY DEF Taken
<1>2. PICK i \in 0 .. item_section.used - 1 : ks[i] = l
  BY <1>1 DEF IndexOf
<1>3. HasKey(mem, key_section.used, ItemAt(Live, i), l)
  BY <1>1, <1>2 DEF IndexOf
<1>4. Compare(mem, TextLen[k], KeyBytes(k), At(mem, ItemAt(Live, i))) = Difference(k, l)
  BY <1>3, CompareKeys DEF HasKey
<1>5. Compare(mem, TextLen[k], KeyBytes(k), At(mem, ItemAt(Live, i))) >= 0
  BY DEF Ascending, KeyBytes
<1>6. k # l
  <2>1. FindInSnapshot(k) = NotFound
    BY DEF Taken
  <2>2. ks[i] # k
    BY <2>1 DEF Taken, NotFound
  <2> QED
    BY <1>2, <2>2
<1> QED
  BY <1>4, <1>5, <1>6, DifferenceOrders

LEMMA BeginRules ==
    ASSUME IndInv, InPlace, PhaseInv, CallersKeepToRules, NEW k \in Keys,
           \/ DelMissing(k) \/ DelExisting(k)
           \/ \E v \in Values : SetNew(k, v) \/ SetExisting(k, v)
    PROVE  InPlace' /\ PhaseInv' /\ CurrentStays /\ mem' = make_snapshot
<1>1. Begin /\ w.pc = "idle" /\ store_items = Live
  BY DEF DelMissing, DelExisting, SetNew, SetExisting, Begin, SetPermitted, DelPermitted,
         CallersKeepToRules
<1>2. PICK ks : Taken(ks)
  BY <1>1, CallTakesSnapshot
<1> DEFINE used == item_section.used
<1>3. used \in Nat
  BY DEF IndInv, TypeOK, Sections
<1>4. /\ item_section' = item_section
      /\ key_section' = key_section
      /\ value_section' = value_section
  BY <1>1 DEF Begin, header
<1>5. InPlace' /\ (mem' = make_snapshot => CurrentStays)
  <2>1. InPlace'
    BY <1>4 DEF InPlace
  <2>2. /\ Copied(mem, Live, make_snapshot, Live, ItemSlots * used)
        /\ TextsStay(mem, key_section.used, value_section.used,
                     make_snapshot, key_section.used, value_section.used)
    BY SnapshotLeaves
  <2>3. ASSUME mem' = make_snapshot PROVE CurrentStays
    BY <1>4, <2>2, <2>3 DEF CurrentStays
  <2> QED
    BY <2>1, <2>3
<1>6. CASE DelMissing(k)
  <2>1. mem' = make_snapshot /\ Return("NOT_FOUND") /\ "NOT_FOUND" \in Codes
    BY <1>6 DEF DelMissing, Codes
  <2>2. w'.pc = "idle" /\ w'.op = "none"
    BY <2>1, ReturnType
  <2>3. BothHold(ks, shown)'
    BY <1>1, <1>2, <2>1, BothHoldNext
  <2>4. (IndInv /\ Index(Live, item_section.used, shown) => View = shown)'
    BY ShownNext
  <2>5. IndInv'
    BY <1>6, BeginSteps
  <2>6. Resting'
    BY <2>2, <2>3, <2>4, <2>5 DEF BothHold, Resting
  <2> QED
    BY <1>5, <2>1, <2>2, <2>6 DEF PhaseInv
<1>7. CASE DelExisting(k)
  <2>1. PICK i \in 0 .. used - 1 :
           /\ FindInSnapshot(k) = i
           /\ mem' = RemoveItem(make_snapshot, ItemAt(SnapBase(item_section), i), i)
           /\ w' = Call("flip", "del", k, NoText, ItemAt(SnapBase(item_section), i))
    BY <1>7 DEF DelExisting
  <2>2. i = used - 1 /\ used > 0
    <3>1. Find(k) \in {NotFound, used - 1}
      BY <1>7 DEF DelExisting, DelPermitted, CallersKeepToRules
    <3>2. Find(k) = i
      BY <1>2, <2>1 DEF Taken
    <3> QED
      BY <1>3, <3>1, <3>2 DEF NotFound
  <2>3. mem' = make_snapshot
    <3>1. ~ (ItemSlots * i + 1 < used)
      <4>1. ItemSlots \in Nat /\ ItemSlots >= 2
        BY LayoutAssumption DEF ItemSlots
      <4>2. ItemSlots * i >= 2 * i
        BY <4>1, <1>3
      <4>3. ItemSlots * i \in Nat
        BY <4>1, <1>3
      <4> QED
        BY <1>3, <2>2, <4>2, <4>3
    <3> QED
      BY <2>1, <3>1 DEF RemoveItem
  <2>4. w'.pc = "flip" /\ w'.op = "del" /\ w'.key = k
    BY <2>1 DEF Call
  <2>5. BothHold(ks, shown)' /\ ks[i] = k
    BY <1>1, <1>2, <2>1, <2>3, BothHoldNext DEF Taken
  <2>6. /\ Index(Live, item_section.used, shown)'
        /\ IndexWith(Snap, item_section.used, shown, i, k)'
    BY <1>4, <2>5 DEF BothHold
  <2>7. Deleting'
    BY <1>3, <1>4, <2>2, <2>4, <2>6 DEF Deleting
  <2> QED
    BY <1>5, <2>3, <2>4, <2>7 DEF PhaseInv
<1>8. ASSUME NEW v \in Values, SetNew(k, v)
      PROVE  PhaseInv' /\ CurrentStays /\ mem' = make_snapshot
  <2>1. /\ mem' = make_snapshot
        /\ w' = Call("item", "add", k, v, ItemAt(Snap, used))
        /\ FindInSnapshot(k) = NotFound
        /\ Find(k) # NotFound \/ Ascending(k)
        /\ Room(k, v)
    BY <1>8 DEF SetNew, SetPermitted, CallersKeepToRules, Snap
  <2>2. Find(k) = NotFound
    BY <1>2, <2>1 DEF Taken
  <2>3. \A l \in Keys : View[l] # <<>> => Before(l, k)
    BY <1>2, <2>1, <2>2, AscendingIs
  <2>4. /\ w'.pc = "item" /\ w'.op = "add" /\ w'.key = k /\ w'.val = v
        /\ w'.item = ItemAt(Snap, used)
    BY <2>1 DEF Call
  <2>5. /\ BothHold(ks, shown)' /\ shown' = View
        /\ store_items_snapshot' = Snap /\ Snap' = Snap
    BY <1>1, <1>2, <2>1, BothHoldNext
  <2>6. /\ Index(Live, item_section.used, shown)'
        /\ Index(Snap, item_section.used, shown)'
    BY <2>5 DEF BothHold
  <2>7. /\ item_section'.used < ItemCapacity(KeyCount)
        /\ key_section'.used + TextLen[k] <= key_section'.size
        /\ value_section'.used + TextLen[v] <= value_section'.size
    BY <1>4, <2>1 DEF Room
  <2>8. Adding'
    BY <1>4, <2>3, <2>4, <2>5, <2>6, <2>7 DEF Adding, ValueRoom
  <2> QED
    BY <1>5, <2>1, <2>4, <2>8 DEF PhaseInv
<1>9. ASSUME NEW v \in Values, SetExisting(k, v)
      PROVE  PhaseInv' /\ CurrentStays /\ mem' = make_snapshot
  <2>1. PICK i \in 0 .. used - 1 :
           /\ mem' = make_snapshot
           /\ FindInSnapshot(k) = i
           /\ w' = Call("value", "replace", k, v, ItemAt(Snap, i))
           /\ Room(k, v)
    BY <1>9 DEF SetExisting, SetPermitted, CallersKeepToRules, Snap
  <2>2. /\ w'.pc = "value" /\ w'.op = "replace" /\ w'.key = k /\ w'.val = v
        /\ w'.item = ItemAt(Snap, i)
    BY <2>1 DEF Call
  <2>3. BothHold(ks, shown)' /\ ks[i] = k /\ Snap' = Snap
    BY <1>1, <1>2, <2>1, BothHoldNext DEF Taken
  <2>4. /\ Index(Live, item_section.used, shown)'
        /\ IndexWith(Snap, item_section.used, shown, i, k)'
    BY <1>4, <2>3 DEF BothHold
  <2>5. value_section'.used + TextLen[v] <= value_section'.size
    BY <1>4, <2>1 DEF Room
  <2>6. Replacing'
    BY <1>4, <2>2, <2>3, <2>4, <2>5 DEF Replacing, ValueRoom
  <2> QED
    BY <1>5, <2>1, <2>2, <2>6 DEF PhaseInv
<1> QED
  BY <1>5, <1>6, <1>7, <1>8, <1>9

-----------------------------------------------------------------------------
(* The steps of a call. *)

(* The item after the last one of the snapshot gets a key and keeps what it *)
(* has of versions.                                                         *)
KeyPut ==
    LET item == ItemAt(Snap, item_section.used)
    IN  /\ WritesItem(mem, mem', item_section.used, KeyBase + key_section.used, TextLen[w.key])
        /\ At(mem', item).cnt = At(mem, item).cnt
        /\ \A x \in 1 .. MaxVer : At(mem', item + x) = At(mem, item + x)

(* There is room for the key, it goes behind the others, and the item after *)
(* the last one of the snapshot is that key's.                              *)
LEMMA KeyRules ==
    ASSUME IndInv, InPlace, Adding, AppendKey
    PROVE  InPlace' /\ PhaseInv' /\ CurrentStays /\ KeyPut
<1> DEFINE used == item_section.used
           ku == key_section.used
           vu == value_section.used
           len == TextLen[w.key]
           p == KeyBase + ku
           item == ItemAt(Snap, used)
           m1 == Point(mem, item, p, len)
           m2 == PutText(m1, p, w.key)
<1>1. /\ w.pc = "item" /\ w.op = "add" /\ w.key \in Keys /\ w.val \in Values
      /\ w.item = item /\ ku + len <= key_section.size /\ ValueRoom
      /\ store_items_snapshot = Snap /\ used < ItemCapacity(KeyCount)
      /\ Index(Live, used, shown) /\ Index(Snap, used, shown)
      /\ \A k \in Keys : shown[k] # <<>> => Before(k, w.key)
  BY DEF AppendKey, Adding
<1>2. /\ mem' = m2
      /\ key_section' = [key_section EXCEPT !.used = @ + At(m2, item).len]
      /\ w' = [w EXCEPT !.pc = "value", !.i = 0, !.size = 0]
      /\ item_section' = item_section /\ value_section' = value_section
      /\ store_items_snapshot' = store_items_snapshot /\ shown' = shown
  <2>1. FreeAddr(key_section) = p
    BY Places
  <2> QED
    BY <1>1, <2>1 DEF AppendKey, WriteKey, ctx, history
<1>3. /\ len \in Nat /\ used \in Nat /\ mem \in Mem /\ w \in Calls /\ w.key \in Texts
      /\ key_section \in Sections
  BY <1>1, TextType DEF IndInv, TypeOK, Sections, Mem, Texts
<1>4. /\ AreasApart(ItemArea(KeyCount), Live, Snap)
      /\ HdrSlots \in Nat /\ KeyBase \in Nat /\ ValueBase \in Nat /\ StoreSize(KeyCount) \in Nat
      /\ key_section.size \in Nat /\ KeyBase + key_section.size <= ValueBase
      /\ value_section.size \in Nat /\ ValueBase + value_section.size <= StoreSize(KeyCount)
      /\ ku \in Nat /\ vu \in Nat
  BY Places
<1>5. item \in Nat /\ item < KeyBase /\ item >= HdrSlots
  <2>1. item \in Nat /\ item + MaxVer < KeyBase /\ item >= HdrSlots
    <3> HIDE DEF used
    <3> QED
      BY <1>1, <1>3, ItemPlace
  <2> HIDE DEF item
  <2> QED
    BY <1>4, <2>1, LayoutAssumption
<1>6. p \in Nat /\ m1 \in Mem
  <2>1. p \in Nat
    BY <1>4
  <2> HIDE DEF p, len, item
  <2> QED
    BY <1>3, <2>1, PointType
<1> HIDE DEF m1
<1>7. m1 = Point(mem, item, p, len)
  BY DEF m1
<1>8. WritesItem(mem, m2, used, p, len)
  <2>1. \A a : a \notin p .. p + len - 1 => At(m2, a) = At(m1, a)
    BY <1>6, Elsewhere
  <2>2. \A a : a # item => At(m1, a) = At(mem, a)
    <3> HIDE DEF p, len, item
    <3> QED
      BY <1>3, <1>7, AtPoint
  <2>3. \A a : a \notin item .. item + MaxVer => a # item
    BY <1>5, LayoutAssumption
  <2> HIDE DEF m2
  <2>4. \A a : a \notin item .. item + MaxVer /\ a \notin p .. p + len - 1
                  => At(m2, a) = At(mem, a)
    BY <2>1, <2>2, <2>3
  <2> QED
    BY <1>1, <1>3, <2>4 DEF WritesItem
<1>9. HasKey(m2, ku + len, item, w.key)
  <2> DEFINE c == At(m2, item)
  <2>1. c.off = p /\ c.len = len
    <3>1. item \in Slots
      BY <1>4, <1>5 DEF Slots
    <3>2. item \notin p .. p + len - 1
      BY <1>4, <1>5
    <3>3. c = At(m1, item)
      BY <1>6, <3>2, Elsewhere
    <3> HIDE DEF p, len, item, c
    <3> QED
      BY <1>3, <1>7, <3>1, <3>3, AtPoint
  <2>2. ASSUME NEW i \in 0 .. len - 1
        PROVE  At(m2, p + i) = TextCell(w.key, i)
    <3> DEFINE a == p + i
    <3>1. a \in Slots /\ a \in p .. p + len - 1 /\ a - p = i
      <4>1. ku + len <= key_section.size
        BY <1>1
      <4> HIDE DEF len, ku, item, m2
      <4>2. a \in KeyBase .. StoreSize(KeyCount) - 1
        BY <1>3, <1>4, <4>1
      <4> QED
        BY <1>3, <1>4, <1>5, <4>2 DEF Slots
    <3> HIDE DEF a
    <3>2. At(m2, a) = IF a \in p .. p + len - 1 THEN TextCell(w.key, a - p) ELSE At(m1, a)
      BY <1>6, <3>1, AtPutText
    <3> QED
      BY <3>1, <3>2 DEF a
  <2>3. KeyBase <= p /\ p + len <= KeyBase + (ku + len)
    BY <1>3, <1>4
  <2> HIDE DEF c, m2
  <2> QED
    BY <2>1, <2>2, <2>3 DEF HasKey, PointsTo, TextAt, c
<1>10. /\ At(m2, item).cnt = At(mem, item).cnt
       /\ \A x \in 1 .. MaxVer : At(m2, item + x) = At(mem, item + x)
  <2>1. item + MaxVer < KeyBase /\ MaxVer \in Nat /\ item \in Slots
    <3>1. item .. item + MaxVer \subseteq Slots /\ item + MaxVer < KeyBase
      <4> HIDE DEF used
      <4> QED
        BY <1>1, <1>3, ItemPlace
    <3> HIDE DEF item
    <3> QED
      BY <1>5, <3>1, LayoutAssumption
  <2>2. \A a : a \notin p .. p + len - 1 => At(m2, a) = At(m1, a)
    BY <1>6, Elsewhere
  <2> HIDE DEF m2, len, item
  <2>3. \A x \in 0 .. MaxVer : item + x \notin p .. p + len - 1
    BY <1>3, <1>4, <1>5, <2>1
  <2> HIDE DEF p
  <2>4. /\ \A a : a # item => At(m1, a) = At(mem, a)
        /\ At(m1, item).cnt = At(mem, item).cnt
    BY <1>3, <1>7, <2>1, AtPoint
  <2>5. item \notin p .. p + len - 1
    <3>1. 0 \in 0 .. MaxVer /\ item + 0 = item
      BY <1>5, <2>1
    <3> QED
      BY <2>3, <3>1
  <2>6. ASSUME NEW x \in 1 .. MaxVer
        PROVE  At(m2, item + x) = At(mem, item + x)
    <3>1. item + x # item /\ x \in 0 .. MaxVer
      BY <1>5, <2>1
    <3> QED
      BY <2>2, <2>3, <2>4, <3>1
  <2> QED
    BY <2>2, <2>4, <2>5, <2>6
<1> HIDE DEF m2
<1>11. /\ Holds(m2, ku + len, vu, Live, used, shown)
       /\ Holds(m2, ku + len, vu, Snap, used, shown)
       /\ TextsStay(mem, ku, vu, m2, ku + len, vu)
  <2>1. ku + len \in Nat /\ ku <= ku + len /\ vu <= vu
    BY <1>3, <1>4
  <2>2. Holds(mem, ku, vu, Live, used, shown) /\ Holds(mem, ku, vu, Snap, used, shown)
    BY <1>1 DEF Index
  <2> QED
    BY <1>3, <1>4, <1>8, <2>1, <2>2, IndexesLive
<1>12. /\ key_section'.used = ku + len /\ key_section'.id = key_section.id
       /\ key_section'.sec1 = key_section.sec1 /\ key_section'.size = key_section.size
  <2>1. At(m2, item).len = len
    BY <1>9 DEF HasKey, PointsTo
  <2> QED
    BY <1>2, <1>3, <2>1 DEF Sections
<1>13. /\ w'.pc = "value" /\ w'.op = "add" /\ w'.key = w.key /\ w'.val = w.val
       /\ w'.item = w.item
  BY <1>1, <1>2, <1>3 DEF Calls
<1>14. Live' = Live /\ Snap' = Snap
  BY <1>2 DEF Live, Snap
<1>15. InPlace'
  BY <1>1, <1>2, <1>12 DEF InPlace
<1>16. Index(Live, item_section.used, shown)' /\ Index(Snap, item_section.used, shown)'
  BY <1>2, <1>11, <1>12, <1>14 DEF Index
<1>17. HasKey(mem, key_section.used, w.item, w.key)'
  BY <1>1, <1>2, <1>9, <1>12, <1>13
<1>18. Adding'
  BY <1>1, <1>2, <1>13, <1>14, <1>16, <1>17 DEF Adding, ValueRoom
<1>19. CurrentStays
  BY <1>2, <1>8, <1>11, <1>12, WriteLeaves DEF CurrentStays
<1>20. KeyPut
  BY <1>2, <1>8, <1>10, Zenon DEF KeyPut
<1> QED
  BY <1>13, <1>15, <1>18, <1>19, <1>20 DEF PhaseInv

(* The value's text goes behind the others, the version that points to it   *)
(* into item j of the snapshot.                                             *)
ValueWritten(j) ==
    /\ w.val \in Values /\ ValueRoom
    /\ j \in Nat /\ j < ItemCapacity(KeyCount)
    /\ w.item = ItemAt(Snap, j)

(* Such an item gets the version in front of those it has. *)
ValuePushed ==
    LET p == ValueBase + value_section.used
    IN  \E j, c : /\ ValueWritten(j)
                  /\ c \in 1 .. MaxVer
                  /\ Pushes(PutText(mem, p, w.val), mem', w.item, p, TextLen[w.val], c)

LEMMA ValueText ==
    ASSUME IndInv, InPlace, NEW j, ValueWritten(j)
    PROVE  LET p == ValueBase + value_section.used
               m1 == PutText(mem, p, w.val)
           IN  /\ m1 \in Mem
               /\ WritesItem(mem, m1, j, p, TextLen[w.val])
               /\ TextAt(m1, p, w.val)
               /\ \A a \in Int : a < ValueBase => At(m1, a) = At(mem, a)
<1> DEFINE p == ValueBase + value_section.used
           m1 == PutText(mem, p, w.val)
           len == TextLen[w.val]
           vu == value_section.used
<1>1. /\ w.val \in Texts /\ len \in Nat /\ mem \in Mem
      /\ vu + len <= value_section.size
      /\ j \in Nat /\ j < ItemCapacity(KeyCount)
  BY TextType DEF ValueWritten, ValueRoom, Texts, IndInv, TypeOK, Mem
<1>2. /\ AreasApart(ItemArea(KeyCount), Live, Snap)
      /\ HdrSlots \in Nat /\ KeyBase \in Nat /\ ValueBase \in Nat /\ StoreSize(KeyCount) \in Nat
      /\ value_section.size \in Nat /\ ValueBase + value_section.size <= StoreSize(KeyCount)
      /\ KeyBase + key_section.size <= ValueBase /\ key_section.size \in Nat
      /\ vu \in Nat
  BY Places
<1> HIDE DEF vu
<1>3. p = ValueBase + vu
  BY DEF vu
<1>4. p \in Nat /\ p >= ValueBase
  BY <1>2, <1>3
<1> HIDE DEF p
<1>5. m1 \in Mem
  BY <1>1, <1>4, PutTextType
<1>6. \A a : a \notin p .. p + len - 1 => At(m1, a) = At(mem, a)
  BY <1>1, Elsewhere
<1>7. ASSUME NEW i \in 0 .. len - 1
      PROVE  At(m1, p + i) = TextCell(w.val, i)
  <2> DEFINE a == p + i
  <2> HIDE DEF len
  <2>1. a \in p .. p + len - 1 /\ a - p = i
    BY <1>1, <1>4
  <2>2. a \in Slots
    BY <1>1, <1>2, <1>3, <2>1 DEF Slots, AreasApart
  <2> HIDE DEF a
  <2>3. At(m1, a) = IF a \in p .. p + len - 1 THEN TextCell(w.val, a - p) ELSE At(mem, a)
    BY <1>1, <2>2, AtPutText DEF len
  <2> QED
    BY <2>1, <2>3 DEF a
<1> HIDE DEF m1
<1>8. WritesItem(mem, m1, j, p, len)
  <2> HIDE DEF len
  <2> QED
    BY <1>1, <1>3, <1>6 DEF WritesItem, vu
<1>9. \A a \in Int : a < ValueBase => At(m1, a) = At(mem, a)
  <2>1. \A a \in Int : a < ValueBase => a \notin p .. p + len - 1
    BY <1>1, <1>2, <1>4
  <2> QED
    BY <1>6, <2>1
<1>10. TextAt(m1, p, w.val)
  BY <1>7 DEF TextAt
<1> QED
  BY <1>5, <1>8, <1>9, <1>10 DEF m1, p, len

LEMMA ValueWrites ==
    ASSUME IndInv, InPlace, NEW j, ValueWritten(j), NEW m1,
           m1 = PutText(mem, ValueBase + value_section.used, w.val),
           NEW m2, NEW c,
           Pushes(m1, m2, w.item, ValueBase + value_section.used, TextLen[w.val], c)
    PROVE  /\ WritesItem(mem, m2, j, ValueBase + value_section.used, TextLen[w.val])
           /\ WritesItem(m1, m2, j, ValueBase + value_section.used, 0)
<1> DEFINE p == ValueBase + value_section.used
           len == TextLen[w.val]
           item == w.item
<1>1. WritesItem(mem, m1, j, p, len)
  BY ValueText
<1>2. item = ItemAt(Snap, j)
  BY DEF ValueWritten
<1>3. \A a : a \notin item .. item + MaxVer => At(m2, a) = At(m1, a)
  BY DEF Pushes
<1> HIDE DEF p, len, item
<1>4. /\ j \in Nat /\ j < ItemCapacity(KeyCount)
      /\ len \in Nat
      /\ p = ValueBase + value_section.used
      /\ \A a : a \notin item .. item + MaxVer /\ a \notin p .. p + len - 1 =>
            At(m1, a) = At(mem, a)
  BY <1>1, <1>2 DEF WritesItem, p
<1> QED
  BY <1>2, <1>3, <1>4 DEF WritesItem, p, len

(* What the step of AppendValue does to the state. *)
LEMMA ValueStep ==
    ASSUME IndInv, InPlace, AppendValue, ValueRoom, w.op \in {"add", "replace"}, w.val \in Values
    PROVE  /\ mem' = PushVersion(PutText(mem, ValueBase + value_section.used, w.val),
                                 ValueBase + value_section.used)
           /\ value_section'.used = value_section.used + TextLen[w.val]
           /\ item_section' = item_section /\ key_section' = key_section
           /\ store_items_snapshot' = store_items_snapshot /\ shown' = shown
           /\ w'.pc = (IF w.op = "add" THEN "used" ELSE "flip")
           /\ w'.op = w.op /\ w'.key = w.key /\ w'.val = w.val
           /\ Live' = Live /\ Snap' = Snap
           /\ InPlace'
<1>1. w \in Calls /\ value_section \in Sections
  BY DEF IndInv, TypeOK
<1>2. FreeAddr(value_section) = ValueBase + value_section.used
  BY Places
<1>3. /\ mem' = PushVersion(PutText(mem, ValueBase + value_section.used, w.val),
                            ValueBase + value_section.used)
      /\ value_section' = [value_section EXCEPT !.used = @ + TextLen[w.val]]
      /\ Goto(IF w.op = "add" THEN "used" ELSE "flip")
      /\ item_section' = item_section /\ key_section' = key_section
      /\ store_items_snapshot' = store_items_snapshot /\ shown' = shown
  BY <1>2 DEF AppendValue, WriteValue, ctx, history
<1>4. /\ value_section'.used = value_section.used + TextLen[w.val]
      /\ value_section'.id = value_section.id
      /\ value_section'.sec1 = value_section.sec1
      /\ value_section'.size = value_section.size
  BY <1>1, <1>3 DEF Sections
<1>5. SameCall(w', w, IF w.op = "add" THEN "used" ELSE "flip")
  BY <1>1, <1>3, GotoType DEF Pcs
<1>6. InPlace'
  BY <1>3, <1>4 DEF InPlace
<1>7. Live' = Live /\ Snap' = Snap
  BY <1>3 DEF Live, Snap
<1> QED
  BY <1>3, <1>4, <1>5, <1>6, <1>7 DEF SameCall

LEMMA AddedValueRules ==
    ASSUME IndInv, InPlace, Adding, AppendValue
    PROVE  InPlace' /\ PhaseInv' /\ CurrentStays /\ ValuePushed
<1> DEFINE used == item_section.used
           ku == key_section.used
           vu == value_section.used
           len == TextLen[w.val]
           p == ValueBase + vu
           m1 == PutText(mem, p, w.val)
           m2 == PushVersion(m1, p)
           k == w.key
           v == w.val
           item == w.item
<1>1. /\ w.pc = "value" /\ w.op = "add" /\ k \in Keys /\ v \in Values
      /\ item = ItemAt(Snap, used) /\ ValueRoom /\ used < ItemCapacity(KeyCount)
      /\ Index(Live, used, shown) /\ Index(Snap, used, shown)
      /\ HasKey(mem, ku, item, k)
      /\ \A l \in Keys : shown[l] # <<>> => Before(l, k)
      /\ store_items_snapshot = Snap
  BY DEF AppendValue, Adding
<1>2. /\ used \in Nat /\ mem \in Mem /\ len \in Nat /\ v \in Texts
  BY <1>1, TextType DEF IndInv, TypeOK, Sections, Mem, Texts
<1>3. ku \in Nat /\ vu \in Nat /\ ValueBase \in Nat /\ KeyBase \in Nat /\ p \in Nat
      /\ Snap \in Nat /\ KeyBase <= ValueBase
  <2>1. ku \in Nat /\ vu \in Nat /\ ValueBase \in Nat /\ KeyBase \in Nat
        /\ Snap \in Nat /\ KeyBase + key_section.size <= ValueBase /\ key_section.size \in Nat
    BY Places DEF AreasApart
  <2> QED
    BY <2>1
<1>4. ValueWritten(used)
  BY <1>1, <1>2 DEF ValueWritten
<1>5. m1 \in Mem /\ TextAt(m1, p, v) /\ \A a \in Int : a < ValueBase => At(m1, a) = At(mem, a)
  BY <1>4, ValueText
<1>6. item \in Nat /\ item + MaxVer < KeyBase /\ item .. item + MaxVer \subseteq Slots
  <2> HIDE DEF used, item
  <2> QED
    BY <1>1, <1>2, ItemPlace
<1>7. shown[k] = <<>>
  BY <1>1, TextType DEF Before, Texts
<1>8. Pushes(m1, m2, item, p, len, KV!Kept(0))
  <2>1. 0 \in 0 .. MaxVer
    BY LayoutAssumption
  <2> HIDE DEF m1, p
  <2> QED
    BY <1>1, <1>3, <1>5, <1>6, <2>1, PushVersionIs
<1> HIDE DEF m2
<1>9. WritesItem(mem, m2, used, p, len)
  BY <1>4, <1>8, ValueWrites
<1> HIDE DEF m1
<1>10. vu + len \in Nat /\ vu <= vu + len
  BY <1>2, <1>3
<1>11. /\ TextsStay(mem, ku, vu, m2, ku, vu + len)
       /\ Holds(m2, ku, vu + len, Live, used, shown)
       /\ Holds(m2, ku, vu + len, Snap, used, shown)
  <2>1. Holds(mem, ku, vu, Live, used, shown) /\ Holds(mem, ku, vu, Snap, used, shown)
    BY <1>1 DEF Index
  <2>2. ku <= ku
    BY <1>3
  <2> QED
    BY <1>2, <1>3, <1>9, <1>10, <2>1, <2>2, IndexesLive
<1>12. /\ HasVersions(m2, vu + len, item, SubSeq(<<v>> \o <<>>, 1, KV!Kept(Len(<<>>))))
       /\ At(m2, item).off = At(m1, item).off
       /\ At(m2, item).len = At(m1, item).len
  <2> DEFINE none == <<>>
  <2>1. none \in Seq(Values) /\ Len(none) = 0 /\ Len(none) \in 0 .. MaxVer
    BY LayoutAssumption
  <2>2. Pushes(m1, m2, item, p, len, KV!Kept(Len(none)))
    BY <1>8, <2>1
  <2>3. \A ver \in 1 .. Len(none) :
           PointsTo(m1, At(m1, VersionSlot(item, ver)), ValueBase, vu, none[ver])
    BY <2>1
  <2>4. item + MaxVer < ValueBase /\ item \in Nat
    BY <1>3, <1>6, LayoutAssumption
  <2>5. /\ m1 \in Mem /\ v \in Values /\ vu \in Nat
        /\ TextAt(m1, ValueBase + vu, v)
        /\ Pushes(m1, m2, item, ValueBase + vu, TextLen[v], KV!Kept(Len(none)))
    BY <1>1, <1>3, <1>5, <2>2
  <2> HIDE DEF none, item, len, vu, v, p
  <2>6. /\ HasVersions(m2, vu + TextLen[v], item, SubSeq(<<v>> \o none, 1, KV!Kept(Len(none))))
        /\ At(m2, item).off = At(m1, item).off
        /\ At(m2, item).len = At(m1, item).len
    BY <2>1, <2>3, <2>4, <2>5, PushedVersions
  <2>7. len = TextLen[v] /\ none = <<>>
    BY DEF len, none, v
  <2> QED
    BY <2>6, <2>7
<1>13. HasKey(m2, ku, item, k)
  <2>1. At(m1, item) = At(mem, item)
    BY <1>3, <1>5, <1>6, LayoutAssumption
  <2>2. PointsTo(m2, At(mem, item), KeyBase, ku, k)
    <3>1. k \in Texts /\ ku <= ku /\ Copied(mem, KeyBase, m2, KeyBase, ku)
      BY <1>1, <1>3, <1>11 DEF Texts, TextsStay
    <3> QED
      BY <1>1, <1>2, <1>3, <3>1, AtType, PointsToCarry DEF HasKey
  <2> QED
    BY <1>12, <2>1, <2>2 DEF HasKey, PointsTo
<1>14. Holds(m2, ku, vu + len, Snap, used + 1, KV!With(shown, k, v))
  <2> HIDE DEF used, item, k, v, len
  <2> QED
    BY <1>1, <1>2, <1>3, <1>7, <1>11, <1>12, <1>13, IndexAppended
<1>15. /\ mem' = m2
       /\ value_section'.used = vu + len
       /\ item_section' = item_section /\ key_section' = key_section
       /\ store_items_snapshot' = store_items_snapshot /\ shown' = shown
       /\ w'.pc = "used"
       /\ w'.op = w.op /\ w'.key = w.key /\ w'.val = w.val
       /\ Live' = Live /\ Snap' = Snap
       /\ InPlace'
  BY <1>1, ValueStep DEF m2, m1
<1>16. Due' = KV!With(shown, k, v)
  BY <1>1, <1>15 DEF Due
<1>17. Index(Live, item_section.used, shown)' /\ Index(Snap, item_section.used + 1, Due)'
  BY <1>11, <1>14, <1>15, <1>16 DEF Index
<1>18. Adding'
  BY <1>1, <1>15, <1>17 DEF Adding
<1>19. CurrentStays
  BY <1>9, <1>11, <1>15, WriteLeaves DEF CurrentStays
<1>20. ValuePushed
  <2>1. KV!Kept(0) \in 1 .. MaxVer
    BY LayoutAssumption DEF KV!Kept
  <2>2. Pushes(PutText(mem, p, w.val), m2, w.item, p, TextLen[w.val], KV!Kept(0))
    BY <1>8 DEF m1
  <2> HIDE DEF used
  <2> QED
    BY <1>4, <1>15, <2>1, <2>2, Zenon DEF ValuePushed
<1> QED
  BY <1>15, <1>18, <1>19, <1>20 DEF PhaseInv

LEMMA ReplacedValueRules ==
    ASSUME IndInv, InPlace, Replacing, AppendValue
    PROVE  InPlace' /\ PhaseInv' /\ CurrentStays /\ ValuePushed
<1> DEFINE used == item_section.used
           ku == key_section.used
           vu == value_section.used
           len == TextLen[w.val]
           p == ValueBase + vu
           m1 == PutText(mem, p, w.val)
           m2 == PushVersion(m1, p)
           k == w.key
           v == w.val
           item == w.item
<1>1. /\ w.pc = "value" /\ w.op = "replace" /\ k \in Keys /\ v \in Values
      /\ ValueRoom /\ Index(Live, used, shown)
  BY DEF AppendValue, Replacing
<1>2. PICK i \in 0 .. used - 1 :
         IndexWith(Snap, used, shown, i, k) /\ item = ItemAt(Snap, i)
  BY <1>1 DEF Replacing
<1>3. PICK ks \in [0 .. used - 1 -> Keys] :
         ks[i] = k /\ IndexOf(mem, ku, vu, Snap, used, shown, ks)
  BY <1>2 DEF IndexWith
<1>4. /\ used \in Nat /\ mem \in Mem /\ len \in Nat /\ v \in Texts
  BY <1>1, TextType DEF IndInv, TypeOK, Sections, Mem, Texts
<1>5. ku \in Nat /\ vu \in Nat /\ ValueBase \in Nat /\ KeyBase \in Nat /\ p \in Nat
      /\ Snap \in Nat /\ Live \in Nat /\ KeyBase <= ValueBase /\ Snap + ItemArea(KeyCount) <= KeyBase
  <2>1. ku \in Nat /\ vu \in Nat /\ ValueBase \in Nat /\ KeyBase \in Nat
        /\ Snap \in Nat /\ Live \in Nat /\ KeyBase + key_section.size <= ValueBase
        /\ key_section.size \in Nat /\ Snap + ItemArea(KeyCount) <= KeyBase
    BY Places DEF AreasApart
  <2> QED
    BY <2>1
<1>6. ItemCapacity(KeyCount) \in Int /\ used <= ItemCapacity(KeyCount)
      /\ i \in Nat /\ i < ItemCapacity(KeyCount)
  <2>1. ItemCapacity(KeyCount) \in Int
    BY CapacityType
  <2>2. used <= ItemCapacity(KeyCount)
    BY DEF InPlace
  <2> HIDE DEF used
  <2> QED
    BY <1>4, <2>1, <2>2
<1>7. ValueWritten(i)
  BY <1>1, <1>2, <1>6 DEF ValueWritten
<1>8. /\ m1 \in Mem /\ TextAt(m1, p, v) /\ \A a \in Int : a < ValueBase => At(m1, a) = At(mem, a)
      /\ WritesItem(mem, m1, i, p, len)
  BY <1>7, ValueText
<1>9. item \in Nat /\ item + MaxVer < KeyBase /\ item .. item + MaxVer \subseteq Slots
  <2> HIDE DEF used, item
  <2> QED
    BY <1>2, <1>6, ItemPlace
<1> HIDE DEF m1
<1>10. IndexOf(m1, ku, vu, Snap, used, shown, ks)
  <2> HIDE DEF ku, vu, len, p
  <2>0. ku <= ku /\ vu <= vu
    BY <1>5
  <2>1. TextsStay(mem, ku, vu, m1, ku, vu)
    BY <1>4, <1>5, <1>8, <2>0, IndexesLive DEF ku, vu
  <2>2. Copied(mem, Snap, m1, Snap, ItemSlots * used)
    <3>1. ItemSlots * used \in Nat /\ ItemSlots * used <= ItemArea(KeyCount)
      BY <1>4, <1>6, ItemsFit
    <3>2. ItemArea(KeyCount) \in Nat
      BY AreaType, StoreAssumption
    <3> DEFINE n == ItemSlots * used
    <3> HIDE DEF n
    <3>3. \A x \in 0 .. n - 1 : Snap + x \in Int /\ Snap + x < ValueBase
      BY <1>5, <3>1, <3>2 DEF n
    <3>4. Copied(mem, Snap, m1, Snap, n)
      BY <1>8, <3>3 DEF Copied
    <3> QED
      BY <3>4 DEF n
  <2> HIDE DEF used, ku, vu
  <2> QED
    BY <1>3, <1>4, <1>5, <2>1, <2>2, IndexCarry
<1> DEFINE vs == shown[k]
<1>11. /\ HasVersions(m1, vu, item, vs)
       /\ vs \in Seq(Values) /\ Len(vs) \in 1 .. MaxVer
  BY <1>2, <1>3, <1>10 DEF IndexOf, HasVersions
<1>12. Pushes(m1, m2, item, p, len, KV!Kept(Len(vs)))
  <2>1. Len(vs) \in 0 .. MaxVer /\ Len(vs) > 0 /\ At(m1, item).cnt = Len(vs)
    BY <1>11 DEF HasVersions
  <2> HIDE DEF p, vs
  <2> QED
    BY <1>1, <1>5, <1>8, <1>9, <2>1, PushVersionIs
<1> HIDE DEF m2
<1>13. WritesItem(mem, m2, i, p, len) /\ WritesItem(m1, m2, i, p, 0)
  BY <1>7, <1>12, ValueWrites DEF m1
<1>14. /\ HasVersions(m2, vu + len, item, SubSeq(<<v>> \o vs, 1, KV!Kept(Len(vs))))
       /\ At(m2, item).off = At(m1, item).off
       /\ At(m2, item).len = At(m1, item).len
  <2>1. Len(vs) \in 0 .. MaxVer
        /\ \A ver \in 1 .. Len(vs) :
              PointsTo(m1, At(m1, VersionSlot(item, ver)), ValueBase, vu, vs[ver])
    BY <1>11 DEF HasVersions
  <2>2. item + MaxVer < ValueBase
    BY <1>5, <1>9, LayoutAssumption
  <2>3. /\ m1 \in Mem /\ v \in Values /\ vu \in Nat /\ item \in Nat /\ vs \in Seq(Values)
        /\ TextAt(m1, ValueBase + vu, v)
        /\ Pushes(m1, m2, item, ValueBase + vu, TextLen[v], KV!Kept(Len(vs)))
    BY <1>1, <1>5, <1>8, <1>9, <1>11, <1>12
  <2> HIDE DEF vs, item, len, vu, v, p
  <2>4. /\ HasVersions(m2, vu + TextLen[v], item, SubSeq(<<v>> \o vs, 1, KV!Kept(Len(vs))))
        /\ At(m2, item).off = At(m1, item).off
        /\ At(m2, item).len = At(m1, item).len
    BY <2>1, <2>2, <2>3, PushedVersions
  <2>5. len = TextLen[v]
    BY DEF len, v
  <2> QED
    BY <2>4, <2>5
<1>15. vu + len \in Nat /\ vu <= vu + len /\ ku <= ku
  <2> HIDE DEF vu, len, ku
  <2> QED
    BY <1>4, <1>5
<1>16. TextsStay(m1, ku, vu, m2, ku, vu + len)
  BY <1>5, <1>8, <1>13, <1>15, IndexesLive
<1>17. \A j \in 0 .. used - 1 : j # i => Copied(m1, ItemAt(Snap, j), m2, ItemAt(Snap, j), ItemSlots)
  <2>1. \A j \in 0 .. used - 1 : j \in 0 .. ItemCapacity(KeyCount) - 1
    BY <1>4, <1>6
  <2> QED
    BY <1>13, <2>1, WriteLeaves
<1>18. IndexOf(m2, ku, vu + len, Snap, used, KV!With(shown, k, v), ks)
  <2> HIDE DEF used, ku, vu, len, item, k, v
  <2> QED
    BY <1>1, <1>2, <1>3, <1>4, <1>5, <1>8, <1>10, <1>14, <1>16, <1>17, IndexReplaced DEF vs
<1>19. Holds(m2, ku, vu + len, Live, used, shown)
  <2>1. Holds(mem, ku, vu, Live, used, shown)
    BY <1>1 DEF Index
  <2> QED
    BY <1>4, <1>5, <1>13, <1>15, <2>1, IndexesLive
<1>20. /\ mem' = m2
       /\ value_section'.used = vu + len
       /\ item_section' = item_section /\ key_section' = key_section
       /\ shown' = shown
       /\ w'.pc = "flip"
       /\ w'.op = w.op /\ w'.key = w.key /\ w'.val = w.val
       /\ Live' = Live /\ Snap' = Snap
       /\ InPlace'
  BY <1>1, ValueStep DEF m2, m1
<1>21. Due' = KV!With(shown, k, v)
  BY <1>1, <1>20 DEF Due
<1>22. Index(Live, item_section.used, shown)' /\ Index(Snap, item_section.used, Due)'
  <2>1. Holds(m2, ku, vu + len, Snap, used, KV!With(shown, k, v))
    BY <1>18 DEF Holds
  <2> QED
    BY <1>19, <1>20, <1>21, <2>1 DEF Index
<1>23. Replacing'
  BY <1>1, <1>20, <1>22 DEF Replacing
<1>24. CurrentStays
  <2>1. TextsStay(mem, ku, vu, m2, ku, vu + len)
    BY <1>4, <1>5, <1>13, <1>15, IndexesLive
  <2> QED
    BY <1>13, <1>20, <2>1, WriteLeaves DEF CurrentStays
<1>25. ValuePushed
  <2>1. KV!Kept(Len(vs)) \in 1 .. MaxVer
    BY <1>11, LayoutAssumption DEF KV!Kept
  <2>2. Pushes(PutText(mem, p, w.val), m2, w.item, p, TextLen[w.val], KV!Kept(Len(vs)))
    BY <1>12 DEF m1
  <2> HIDE DEF vs
  <2> QED
    BY <1>7, <1>20, <2>1, <2>2, Zenon DEF ValuePushed
<1> QED
  BY <1>20, <1>23, <1>24, <1>25 DEF PhaseInv

(* More items never fit than pupa_init was asked for. *)
LEMMA CapacitySmall == ItemCapacity(KeyCount) <= KeyCount
<1>1. KeyCount \in Nat \ {0} /\ ItemSection(KeyCount).size = KeyCount
  BY StoreAssumption DEF ItemSection, Section
<1>2. CASE KeyCount > 1
  BY <1>1, <1>2, CapacityType, ItemAreaTooSmall
<1>3. CASE KeyCount = 1
  <2>1. ItemArea(1) = ItemSlots /\ ItemSlots \in Nat \ {0}
    BY AreaType DEF ItemArea, ItemSlots
  <2>2. ~ (2 * ItemSlots <= ItemArea(1))
    BY <2>1
  <2>3. ~ (2 <= ItemCapacity(1))
    BY <2>2, CapacityExact
  <2> QED
    BY <1>3, <2>3, CapacityType
<1> QED
  BY <1>1, <1>2, <1>3

(* Where the new item goes is where it is. *)
LEMMA AddedInPlace ==
    ASSUME IndInv, InPlace, Added
    PROVE  /\ SortPosition(mem, store_items_snapshot, item_section.used - 1)
                = item_section.used - 1
           /\ MoveItem(mem, store_items_snapshot, item_section.used - 1, item_section.used - 1)
                = mem
<1> DEFINE n == item_section.used - 1
<1>1. /\ mem \in Mem /\ key_section \in Sections /\ item_section.used \in Nat
  BY DEF IndInv, TypeOK, Mem, Sections
<1>2. n \in Nat /\ n + 1 = item_section.used /\ store_items_snapshot = Snap
  BY <1>1 DEF Added
<1>3. Snap \in Nat /\ HdrSlots <= Snap
  BY Places DEF AreasApart
<1>4. PICK ks : IndexOf(mem, key_section.used, value_section.used, Snap, n + 1, Due, ks)
  BY <1>2 DEF Added, Index, Holds
<1> HIDE DEF n
<1>5. SortPosition(mem, Snap, n) = n
  BY <1>1, <1>2, <1>3, <1>4, SortPositionIs
<1>6. MoveItem(mem, Snap, n, n) = mem
  BY <1>1, <1>2, <1>3, MoveItemIs
<1> QED
  BY <1>2, <1>5, <1>6 DEF n

(* No call fails. *)
LEMMA NoFailure ==
    ASSUME IndInv, InPlace, PhaseInv
    PROVE  ~ \/ ItemsFull \/ StartKeyCompaction
             \/ CompactKey \/ CompactKeyFault \/ CompactKeyFull \/ CompactKeyDone
             \/ StartValueCompaction
             \/ CompactValue \/ CompactValueNext \/ CompactValueFault
             \/ CompactValueFull \/ CompactValueDone
             \/ SortFault
<1>1. ~ (CompactKey \/ CompactKeyFault \/ CompactKeyFull \/ CompactKeyDone)
  BY DEF PhaseInv, CompactKey, CompactKeyFault, CompactKeyFull, CompactKeyDone
<1>2. ~ (CompactValue \/ CompactValueNext \/ CompactValueFault \/ CompactValueFull
         \/ CompactValueDone)
  BY DEF PhaseInv, CompactValue, CompactValueNext, CompactValueFault, CompactValueFull,
         CompactValueDone
<1>3. w.pc = "item" => item_section.used < KeyCount /\ KeyFits(key_section.used)
  <2> SUFFICES ASSUME w.pc = "item"
               PROVE  item_section.used < KeyCount /\ KeyFits(key_section.used)
    OBVIOUS
  <2>1. Adding
    BY DEF PhaseInv
  <2>2. /\ item_section.used < ItemCapacity(KeyCount)
        /\ KeyFits(key_section.used)
    BY <2>1 DEF Adding, KeyFits
  <2>3. item_section.used \in Nat /\ KeyCount \in Nat
    BY StoreAssumption DEF IndInv, TypeOK, Sections
  <2> QED
    BY <2>2, <2>3, CapacitySmall, CapacityType
<1>4. ~ (ItemsFull \/ StartKeyCompaction)
  <2>1. item_section.size = KeyCount /\ item_section.used \in Nat /\ KeyCount \in Nat
    BY StoreAssumption DEF InPlace, IndInv, TypeOK, Sections
  <2> QED
    BY <1>3, <2>1 DEF ItemsFull, StartKeyCompaction
<1>5. ~ StartValueCompaction
  <2> SUFFICES ASSUME w.pc = "value" PROVE ValueFits(value_section.used)
    BY DEF StartValueCompaction
  <2>1. Adding \/ Replacing
    BY DEF PhaseInv
  <2>2. ValueRoom
    BY <2>1 DEF Adding, Replacing
  <2> QED
    BY <2>2 DEF ValueRoom, ValueFits
<1>6. ~ SortFault
  <2> SUFFICES ASSUME w.pc = "sort"
               PROVE  SortPosition(mem, store_items_snapshot, item_section.used - 1) # Diverges
    BY DEF SortFault
  <2>1. Added
    BY DEF PhaseInv
  <2>2. item_section.used - 1 >= 0
    BY <2>1 DEF Added, IndInv, TypeOK, Sections
  <2> QED
    BY <2>1, <2>2, AddedInPlace DEF Diverges
<1> QED
  BY <1>1, <1>2, <1>4, <1>5, <1>6

(* The new item is counted while readers have the other index. *)
LEMMA CountRules ==
    ASSUME IndInv, InPlace, PhaseInv, CountItem
    PROVE  InPlace' /\ PhaseInv'
<1>1. Adding /\ w.pc = "used" /\ w \in Calls
  BY DEF PhaseInv, CountItem, IndInv, TypeOK
<1>2. item_section \in Sections /\ item_section.used \in Nat
  BY DEF IndInv, TypeOK, Sections
<1>3. /\ item_section' = [item_section EXCEPT !.used = @ + 1]
      /\ Goto("sort")
      /\ key_section' = key_section /\ value_section' = value_section /\ mem' = mem
      /\ store_items_snapshot' = store_items_snapshot /\ shown' = shown
  BY DEF CountItem, ctx, history
<1>4. /\ item_section'.used = item_section.used + 1
      /\ item_section'.id = item_section.id /\ item_section'.size = item_section.size
      /\ item_section'.sec1 = item_section.sec1 /\ item_section'.sec2 = item_section.sec2
  BY <1>2, <1>3 DEF Sections
<1>5. Live' = Live /\ Snap' = Snap
  BY <1>4 DEF Live, Snap, LiveBase, SnapBase
<1>6. w'.pc = "sort" /\ w'.op = w.op /\ w'.key = w.key /\ w'.val = w.val
  BY <1>1, <1>3, GotoType DEF SameCall, Pcs
<1>7. InPlace'
  <2>1. item_section.used + 1 <= ItemCapacity(KeyCount)
    BY <1>1, <1>2, CapacityType DEF Adding
  <2> QED
    BY <1>3, <1>4, <2>1 DEF InPlace
<1>8. /\ Index(Live, item_section.used, shown)
      /\ Index(Snap, item_section.used + 1, Due)
      /\ w.op = "add" /\ w.key \in Keys /\ w.val \in Values
      /\ store_items_snapshot = Snap
  BY <1>1 DEF Adding
<1>9. Due' = Due
  BY <1>3, <1>6 DEF Due
<1>10. item_section'.used > 0 /\ item_section'.used - 1 = item_section.used
  BY <1>2, <1>4
<1>11. Index(Live, item_section.used - 1, shown)'
  BY <1>3, <1>5, <1>8, <1>10 DEF Index
<1>12. Index(Snap, item_section.used, Due)'
  BY <1>3, <1>4, <1>5, <1>8, <1>9 DEF Index
<1>13. Added'
  BY <1>3, <1>5, <1>6, <1>8, <1>10, <1>11, <1>12 DEF Added
<1> QED
  BY <1>6, <1>7, <1>13 DEF PhaseInv

(* The new item is in its place, whether pupa_sort looks or has no memory. *)
LEMMA SortRules ==
    ASSUME IndInv, InPlace, PhaseInv, SortItem \/ SortNoMemory
    PROVE  InPlace' /\ PhaseInv' /\ mem' = mem
<1>1. Added /\ w.pc = "sort" /\ w \in Calls
  BY DEF PhaseInv, SortItem, SortNoMemory, IndInv, TypeOK
<1>2. mem' = mem
  <2>1. CASE SortItem
    BY <1>1, <2>1, AddedInPlace DEF SortItem
  <2>2. CASE SortNoMemory
    BY <2>2 DEF SortNoMemory
  <2> QED
    BY <2>1, <2>2
<1>3. /\ Goto("flip")
      /\ item_section' = item_section
      /\ key_section' = key_section /\ value_section' = value_section
      /\ store_items_snapshot' = store_items_snapshot /\ shown' = shown
  BY DEF SortItem, SortNoMemory, header, history
<1>4. w'.pc = "flip" /\ w'.op = w.op /\ w'.key = w.key /\ w'.val = w.val
  BY <1>1, <1>3, GotoType DEF SameCall, Pcs
<1>5. InPlace'
  BY <1>3 DEF InPlace
<1>6. Live' = Live /\ Snap' = Snap /\ Due' = Due
  BY <1>3, <1>4 DEF Live, Snap, Due
<1>7. Added'
  BY <1>1, <1>2, <1>3, <1>4, <1>6 DEF Added, Index
<1> QED
  BY <1>2, <1>4, <1>5, <1>7 DEF PhaseInv

(* The index that was written is the current one. *)
LEMMA FlipRules ==
    ASSUME IndInv, InPlace, PhaseInv, FlipItems
    PROVE  InPlace' /\ PhaseInv'
<1>1. (Added \/ Replacing \/ Deleting) /\ w.pc = "flip" /\ w \in Calls
  BY DEF PhaseInv, FlipItems, IndInv, TypeOK
<1>2. item_section \in Sections /\ item_section.used \in Nat
  BY DEF IndInv, TypeOK, Sections
<1>3. /\ item_section' = Flip(item_section)
      /\ Goto(IF w.op = "del" THEN "uncount" ELSE "sync")
      /\ key_section' = key_section /\ value_section' = value_section /\ mem' = mem
      /\ shown' = shown
  BY DEF FlipItems, ctx, history
<1>4. /\ item_section'.used = item_section.used
      /\ item_section'.id = (IF item_section.id = 1 THEN 2 ELSE 1)
      /\ item_section'.size = item_section.size
      /\ item_section'.sec1 = item_section.sec1 /\ item_section'.sec2 = item_section.sec2
  BY <1>2, <1>3 DEF Sections, Flip, SnapshotId
<1>5. Live' = Snap
  BY <1>2, <1>4 DEF Live, Snap, LiveBase, SnapBase, Sections
<1>6. /\ w'.pc = (IF w.op = "del" THEN "uncount" ELSE "sync")
      /\ w'.op = w.op /\ w'.key = w.key /\ w'.val = w.val
  BY <1>1, <1>3, GotoType DEF SameCall, Pcs
<1>7. InPlace'
  BY <1>3, <1>4 DEF InPlace
<1>8. CASE Added \/ Replacing
  <2>1. /\ w.op \in {"add", "replace"}
        /\ w.key \in Keys /\ w.val \in Values
        /\ Index(Snap, item_section.used, Due)
    BY <1>1, <1>8 DEF Added, Replacing
  <2>2. shown \in [Keys -> Seq(Values)]
    BY <1>8 DEF Added, Replacing, Index, Holds, IndexOf
  <2>3. Due' = Due
    BY <1>3, <1>6 DEF Due
  <2>4. Index(Live, item_section.used, Due)'
    BY <1>3, <1>4, <1>5, <2>1, <2>3 DEF Index
  <2>5. Written'
    BY <1>3, <1>6, <2>1, <2>2, <2>4 DEF Written
  <2> QED
    BY <1>6, <1>7, <2>1, <2>5 DEF PhaseInv
<1>9. CASE Deleting
  <2>1. /\ w.op = "del" /\ w.key \in Keys /\ item_section.used > 0
        /\ IndexWith(Snap, item_section.used, shown, item_section.used - 1, w.key)
    BY <1>1, <1>9 DEF Deleting
  <2>2. Index(Snap, item_section.used, shown)
    BY <2>1 DEF IndexWith, Index, Holds
  <2>3. w'.pc = "uncount"
    BY <1>6, <2>1
  <2>4. /\ Index(Live, item_section.used, shown)'
        /\ IndexWith(Live, item_section.used, shown, item_section.used - 1, w.key)'
    BY <1>3, <1>4, <1>5, <1>6, <2>1, <2>2 DEF Index, IndexWith
  <2>5. Deleting'
    BY <1>4, <1>6, <2>1, <2>3, <2>4 DEF Deleting
  <2> QED
    BY <1>7, <2>3, <2>5 DEF PhaseInv
<1> QED
  BY <1>1, <1>8, <1>9

(* The last item is taken off the count, and with it its key. *)
LEMMA UncountRules ==
    ASSUME IndInv, InPlace, PhaseInv, UncountItem
    PROVE  InPlace' /\ PhaseInv'
<1> DEFINE n == item_section.used - 1
<1>1. Deleting /\ w.pc = "uncount" /\ w \in Calls
  BY DEF PhaseInv, UncountItem, IndInv, TypeOK
<1>2. item_section \in Sections /\ item_section.used \in Nat
  BY DEF IndInv, TypeOK, Sections
<1>3. /\ item_section' = [item_section EXCEPT !.used = @ - 1]
      /\ Goto("sync")
      /\ key_section' = key_section /\ value_section' = value_section /\ mem' = mem
      /\ shown' = shown
  BY DEF UncountItem, ctx, history
<1>4. /\ item_section'.used = n
      /\ item_section'.id = item_section.id /\ item_section'.size = item_section.size
      /\ item_section'.sec1 = item_section.sec1 /\ item_section'.sec2 = item_section.sec2
  BY <1>2, <1>3 DEF Sections
<1>5. Live' = Live
  BY <1>4 DEF Live, LiveBase
<1>6. w'.pc = "sync" /\ w'.op = w.op /\ w'.key = w.key /\ w'.val = w.val
  BY <1>1, <1>3, GotoType DEF SameCall, Pcs
<1>7. InPlace'
  <2>1. n <= ItemCapacity(KeyCount)
    BY <1>2, CapacityType DEF InPlace
  <2> QED
    BY <1>3, <1>4, <2>1 DEF InPlace
<1>8. /\ w.op = "del" /\ w.key \in Keys
      /\ n \in Nat /\ n + 1 = item_section.used
      /\ IndexWith(Live, item_section.used, shown, n, w.key)
  BY <1>1, <1>2 DEF Deleting
<1>9. PICK ks : /\ ks[n] = w.key
                /\ IndexOf(mem, key_section.used, value_section.used, Live,
                           item_section.used, shown, ks)
  BY <1>8 DEF IndexWith
<1> HIDE DEF n
<1>10. /\ shown \in [Keys -> Seq(Values)]
       /\ shown[w.key] # <<>>
  <2>1. HasVersions(mem, value_section.used, ItemAt(Live, n), shown[ks[n]])
    BY <1>8, <1>9 DEF IndexOf
  <2>2. Len(shown[w.key]) \in 1 .. MaxVer
    BY <1>9, <2>1 DEF HasVersions
  <2> QED
    BY <1>9, <2>2 DEF IndexOf
<1>11. Holds(mem, key_section.used, value_section.used, Live, n, KV!Without(shown, w.key))
  BY <1>8, <1>9, IndexDropped
<1>12. Due' = KV!Without(shown, w.key)
  BY <1>3, <1>6, <1>8 DEF Due
<1>13. Index(Live, item_section.used, Due)'
  BY <1>3, <1>4, <1>5, <1>11, <1>12 DEF Index
<1>14. Written'
  BY <1>3, <1>6, <1>8, <1>10, <1>13 DEF Written
<1> QED
  BY <1>6, <1>7, <1>14 DEF PhaseInv

(* A step that leaves the file alone leaves what readers find. *)
LEMMA ViewStays ==
    ASSUME mem' = mem, item_section' = item_section
    PROVE  View' = View
<1>1. Live' = Live
  BY DEF Live
<1>2. ASSUME NEW c
      PROVE  Bytes(c)' = Bytes(c)
  BY DEF Bytes
<1>3. \A k : Find(k)' = Find(k)
  BY <1>1, Zenon DEF Find
<1>4. Versions' = Versions
  BY <1>1, <1>2 DEF Versions
<1> QED
  BY <1>3, <1>4 DEF View

LEMMA RestsNext ==
    ASSUME IndInv, InPlace, UNCHANGED <<header, mem>>,
           w'.pc \in {"idle", "down"}, w'.op = "none", NEW s, Index(Live, item_section.used, s)
    PROVE  InPlace' /\ PhaseInv'
<1>1. /\ item_section' = item_section /\ key_section' = key_section
      /\ value_section' = value_section /\ mem' = mem
  BY DEF header
<1>2. View = s /\ View' = View /\ Live' = Live
  BY <1>1, Reads, ViewStays DEF Live
<1>3. Resting'
  BY <1>1, <1>2 DEF Resting, Index
<1> QED
  BY <1>1, <1>3 DEF InPlace, PhaseInv

(* Where a call may be broken off, readers find an index. *)
LEMMA LiveHolds ==
    ASSUME PhaseInv, w.pc \notin {"sort", "dead"}, w.pc \in Pcs,
           w.pc = "flip" => w.op # "add"
    PROVE  \E s : Index(Live, item_section.used, s)
<1>1. Adding => Index(Live, item_section.used, shown)
  BY DEF Adding
<1>2. Replacing => Index(Live, item_section.used, shown)
  BY DEF Replacing
<1>3. Deleting => Index(Live, item_section.used, shown)
  BY DEF Deleting
<1>4. Written => Index(Live, item_section.used, Due)
  BY DEF Written
<1>5. Resting => Index(Live, item_section.used, View)
  BY DEF Resting
<1>6. Added => w.op = "add"
  BY DEF Added
<1> QED
  BY <1>1, <1>2, <1>3, <1>4, <1>5, <1>6 DEF PhaseInv, Pcs

(* The end of a call, calls that only read, the end of the process and its *)
(* start leave the file alone.                                             *)
LEMMA QuietRules ==
    ASSUME RulesInv, CallersKeepToRules,
           Sync \/ Get(1) \/ TakeTurn \/ Fini \/ Kill \/ InitAgain
    PROVE  InPlace' /\ PhaseInv' /\ UNCHANGED <<header, mem>>
<1>1. IndInv /\ InPlace /\ PhaseInv /\ w.pc \in Pcs /\ w.pc # "dead"
  BY DEF RulesInv, IndInv, TypeOK, Calls, PhaseInv
<1>2. UNCHANGED <<header, mem>>
  BY DEF Sync, Get, TakeTurn, Fini, Kill, InitAgain
<1>3. w'.pc \in {"idle", "down"} /\ w'.op = "none"
  <2>1. CASE Sync
    BY <2>1, ReturnType DEF Sync, Codes
  <2>2. CASE InitAgain
    BY <2>2, ReturnType DEF InitAgain, Codes
  <2>3. CASE Fini \/ Kill
    BY <2>3, GoneType DEF Fini, Kill
  <2>4. CASE Get(1) \/ TakeTurn
    BY <1>1, <2>4 DEF Get, TakeTurn, PhaseInv, Resting
  <2> QED
    BY <2>1, <2>2, <2>3, <2>4
<1>4. w.pc # "sort" /\ (w.pc = "flip" => w.op # "add")
  <2>1. w.pc = "sort" => w.op = "add"
    BY <1>1 DEF PhaseInv, Added
  <2>2. ~ (w.op = "add" /\ w.pc \in {"sort", "flip"} /\ Kill)
    BY DEF Kill, CallersKeepToRules
  <2>3. Kill \/ w.pc \in {"sync", "idle", "down"}
    BY <1>1 DEF Sync, Get, TakeTurn, Fini, InitAgain
  <2> QED
    BY <2>1, <2>2, <2>3
<1>5. PICK s : Index(Live, item_section.used, s)
  BY <1>1, <1>4, LiveHolds
<1> QED
  BY <1>1, <1>2, <1>3, <1>5, RestsNext

(* Nothing happens. *)
LEMMA StutterRules ==
    ASSUME RulesInv, UNCHANGED vars
    PROVE  InPlace' /\ PhaseInv'
<1>1. /\ item_section' = item_section /\ key_section' = key_section
      /\ value_section' = value_section /\ mem' = mem /\ w' = w /\ shown' = shown
      /\ store_items_snapshot' = store_items_snapshot
  BY DEF vars
<1>2. View' = View /\ Live' = Live /\ Snap' = Snap /\ Due' = Due
  BY <1>1, ViewStays DEF Live, Snap, Due
<1>3. InPlace'
  BY <1>1 DEF RulesInv, InPlace
<1>4. (Resting => Resting') /\ (Written => Written')
  BY <1>1, <1>2 DEF Resting, Written, Index
<1>5. (Added => Added') /\ (Deleting => Deleting')
  BY <1>1, <1>2 DEF Added, Deleting, Index, IndexWith
<1>6. Adding => Adding'
  BY <1>1, <1>2 DEF Adding, Index, ValueRoom
<1>7. Replacing => Replacing'
  BY <1>1, <1>2 DEF Replacing, Index, IndexWith, ValueRoom
<1> QED
  BY <1>1, <1>3, <1>4, <1>5, <1>6, <1>7 DEF RulesInv, PhaseInv

(* A new file holds the empty map. *)
LEMMA InitRules ==
    Init => RulesInv /\ View = [k \in Keys |-> <<>>]
<1> SUFFICES ASSUME Init PROVE RulesInv /\ View = [k \in Keys |-> <<>>]
  OBVIOUS
<1> DEFINE s == [k \in Keys |-> <<>>]
           ks == [i \in 0 .. 0 - 1 |-> CHOOSE k \in Keys : TRUE]
<1>1. IndInv
  BY InitIndInv
<1>2. /\ item_section.used = 0 /\ key_section.used = 0 /\ value_section.used = 0
      /\ item_section.size = KeyCount
      /\ w.pc = "idle" /\ w.op = "none"
  BY DEF Init, ItemSection, KeySection, ValueSection, Section, Idle, Call
<1>3. InPlace
  <2>1. 0 <= ItemCapacity(KeyCount)
    <3>1. 0 * ItemSlots <= ItemArea(KeyCount)
      BY AreaType, StoreAssumption
    <3> QED
      BY <3>1, CapacityExact, StoreAssumption
  <2>2. /\ key_section.id = 1 /\ key_section.sec1 = KeyBase
        /\ key_section.size = KeyArea(KeyCount)
        /\ value_section.id = 1 /\ value_section.sec1 = ValueBase
        /\ value_section.size = ValueArea(KeyCount)
        /\ key_section.used <= key_section.size
    BY AreaType, StoreAssumption DEF Init, KeySection, ValueSection, Section, KeyBase, ValueBase
  <2>3. item_section = ItemSection(KeyCount)
    BY DEF Init
  <2> QED
    BY <1>2, <2>1, <2>2, <2>3 DEF InPlace
<1>4. IndexOf(mem, 0, 0, Live, 0, s, ks)
  <2>1. \A i : i \notin 0 .. 0 - 1
    OBVIOUS
  <2>2. s \in [Keys -> Seq(Values)] /\ \A k \in Keys : s[k] = <<>>
    OBVIOUS
  <2>3. ks \in [0 .. 0 - 1 -> Keys]
    BY <2>1
  <2> HIDE DEF s, ks
  <2> QED
    BY <2>1, <2>2, <2>3 DEF IndexOf
<1>5. Index(Live, item_section.used, s)
  <2>1. ks \in [0 .. 0 - 1 -> Keys]
    BY <1>4 DEF IndexOf
  <2> HIDE DEF s, ks
  <2>2. Holds(mem, 0, 0, Live, 0, s)
    BY <1>4, <2>1 DEF Holds
  <2> QED
    BY <1>2, <2>2 DEF Index
<1>6. View = s
  BY <1>1, <1>5, Reads
<1>7. Resting
  BY <1>2, <1>5, <1>6 DEF Resting
<1> QED
  BY <1>1, <1>2, <1>3, <1>6, <1>7 DEF RulesInv, PhaseInv

(* What a step leaves and what it leaves alone. *)
LEMMA StepRules ==
    ASSUME RulesInv, CallersKeepToRules, Next
    PROVE  InPlace' /\ PhaseInv' /\ CurrentStays
<1>1. IndInv /\ InPlace /\ PhaseInv
  BY DEF RulesInv
<1>2. UNCHANGED <<mem, key_section, value_section>> => CurrentStays
  <2>1. key_section.used \in Nat /\ value_section.used \in Nat
    BY <1>1, Places
  <2>2. TextsStay(mem, key_section.used, value_section.used,
                  mem, key_section.used, value_section.used)
    BY <2>1 DEF TextsStay, Copied
  <2> QED
    BY <2>2 DEF CurrentStays, Copied
<1>3. CASE \E k \in Keys : \/ DelMissing(k) \/ DelExisting(k)
                           \/ \E v \in Values : SetNew(k, v) \/ SetExisting(k, v)
  BY <1>1, <1>3, BeginRules
<1>4. CASE AppendKey
  <2>1. Adding
    BY <1>1, <1>4 DEF AppendKey, PhaseInv
  <2> QED
    BY <1>1, <1>4, <2>1, KeyRules
<1>5. CASE AppendValue
  <2>1. Adding \/ Replacing
    BY <1>1, <1>5 DEF AppendValue, PhaseInv
  <2> QED
    BY <1>1, <1>5, <2>1, AddedValueRules, ReplacedValueRules
<1>6. CASE CountItem
  BY <1>1, <1>2, <1>6, CountRules DEF CountItem
<1>7. CASE SortItem \/ SortNoMemory
  BY <1>1, <1>2, <1>7, SortRules DEF SortItem, SortNoMemory, header
<1>8. CASE FlipItems
  BY <1>1, <1>2, <1>8, FlipRules DEF FlipItems
<1>9. CASE UncountItem
  BY <1>1, <1>2, <1>9, UncountRules DEF UncountItem
<1>10. CASE Sync \/ Get(1) \/ TakeTurn \/ Fini \/ Kill \/ InitAgain
  BY <1>2, <1>10, QuietRules DEF header
<1> QED
  BY <1>1, <1>3, <1>4, <1>5, <1>6, <1>7, <1>8, <1>9, <1>10, NoFailure DEF Next, Step

LEMMA NextRules ==
    ASSUME CallersKeepToRules
    PROVE  RulesInv /\ [Next]_vars => RulesInv'
<1> SUFFICES ASSUME RulesInv, [Next]_vars PROVE RulesInv'
  OBVIOUS
<1>1. IndInv'
  BY NextIndInv DEF RulesInv
<1>2. InPlace' /\ PhaseInv'
  BY StepRules, StutterRules
<1> QED
  BY <1>1, <1>2 DEF RulesInv

LEMMA SpecRules ==
    ASSUME CallersKeepToRules
    PROVE  Spec => []RulesInv
BY InitRules, NextRules, PTL DEF Spec

-----------------------------------------------------------------------------
(* No sequence of calls of callers that keep to the rules, with processes   *)
(* killed between two steps of a call (but not inside an add's switch of    *)
(* the index), allocations and msync failing, ends in a SIGSEGV: no         *)
(* compaction is ever started, and pupa_bsearch always finds a place.       *)
THEOREM CallsNeverFault ==
    ASSUME CallersKeepToRules
    PROVE  Spec => []NoFault
<1>1. RulesInv => NoFault
  BY DEF RulesInv, PhaseInv, NoFault
<1> QED
  BY <1>1, SpecRules, PTL

(* What readers find while a call is under way. *)
LEMMA ViewInCall ==
    ASSUME RulesInv
    PROVE  /\ Replacing \/ Deleting \/ Adding => View = shown
           /\ Written => View = Due
           /\ w.op = "replace" => Replacing \/ Written
           /\ w.op = "del" => Deleting \/ Written
<1>1. /\ Replacing \/ Deleting \/ Adding => Index(Live, item_section.used, shown)
      /\ Written => Index(Live, item_section.used, Due)
  BY DEF Replacing, Deleting, Adding, Written
<1>2. w.pc \in Pcs /\ IndInv /\ PhaseInv
  BY DEF RulesInv, IndInv, TypeOK, Calls
<1>3. /\ Resting => w.op = "none"
      /\ Adding \/ Added => w.op = "add"
      /\ Replacing => w.op = "replace"
      /\ Deleting => w.op = "del"
  BY DEF Resting, Adding, Added, Replacing, Deleting
<1>4. /\ w.op = "replace" => Replacing \/ Written
      /\ w.op = "del" => Deleting \/ Written
  BY <1>2, <1>3 DEF PhaseInv, Pcs
<1> QED
  BY <1>1, <1>2, <1>4, Reads

(* For callers that keep to the rules a reader of the file finds, at every  *)
(* step of a pupa_set of a stored key and of a pupa_del, all that was       *)
(* stored before the call or all that is stored after it.                   *)
THEOREM ReplaceAndDeleteShowAtOnce ==
    ASSUME CallersKeepToRules
    PROVE  Spec => []ReplaceAndDeleteAtomic
<1>1. RulesInv => ReplaceAndDeleteAtomic
  <2> SUFFICES ASSUME RulesInv PROVE ReplaceAndDeleteAtomic
    OBVIOUS
  <2>1. w.op = "replace" => View \in {shown, KV!With(shown, w.key, w.val)}
    BY ViewInCall DEF Due
  <2>2. w.op = "del" => View \in {shown, KV!Without(shown, w.key)}
    BY ViewInCall DEF Due
  <2> QED
    BY <2>1, <2>2 DEF ReplaceAndDeleteAtomic
<1> QED
  BY <1>1, SpecRules, PTL

(* For callers that keep to the rules no step of a call writes to the items *)
(* that readers search before the index is switched.                        *)
THEOREM LiveItemsUntouched ==
    ASSUME CallersKeepToRules
    PROVE  Spec => LiveItemsStay
<1> DEFINE A == item_section'.id = item_section.id =>
                    \A a \in Live .. Live + ItemSlots * item_section.used - 1 :
                        At(mem', a) = At(mem, a)
<1>1. RulesInv /\ [Next]_vars => [A]_vars
  <2> SUFFICES ASSUME RulesInv, Next PROVE A
    OBVIOUS
  <2> DEFINE n == ItemSlots * item_section.used
  <2>1. Copied(mem, Live, mem', Live, n)
    BY StepRules DEF CurrentStays
  <2>2. Live \in Nat /\ n \in Nat
    BY Places, SnapshotLeaves DEF RulesInv, AreasApart
  <2> SUFFICES ASSUME NEW a \in Live .. Live + n - 1
               PROVE  At(mem', a) = At(mem, a)
    OBVIOUS
  <2> HIDE DEF n
  <2>3. a - Live \in 0 .. n - 1 /\ Live + (a - Live) = a
    BY <2>2
  <2> QED
    BY <2>1, <2>3 DEF Copied
<1> QED
  BY <1>1, SpecRules, PTL DEF Spec, LiveItemsStay

(* The zero-copy promise: for callers that keep to the rules no step of any *)
(* call writes to what is stored in the value area.                         *)
THEOREM StoredValuesUntouched ==
    ASSUME CallersKeepToRules
    PROVE  Spec => StoredValuesStay
<1> DEFINE A == w.pc \notin {"compact_key", "compact_value"} =>
                    \A i \in 0 .. value_section.used - 1 :
                        At(mem', LiveBase(value_section) + i)
                            = At(mem, LiveBase(value_section) + i)
<1>1. RulesInv /\ [Next]_vars => [A]_vars
  <2> SUFFICES ASSUME RulesInv, Next PROVE A
    OBVIOUS
  <2>1. Copied(mem, ValueBase, mem', ValueBase, value_section.used)
    BY StepRules DEF CurrentStays, TextsStay
  <2>2. LiveBase(value_section) = ValueBase
    BY DEF RulesInv, InPlace, LiveBase
  <2> QED
    BY <2>1, <2>2 DEF Copied
<1> QED
  BY <1>1, SpecRules, PTL DEF Spec, StoredValuesStay

-----------------------------------------------------------------------------
(* The refinement of PupaKV. *)

LEMMA InitKV == Init => KV!Init
<1> SUFFICES ASSUME Init PROVE Contents = [k \in Keys |-> <<>>]
  BY DEF KV!Init
<1>1. ~ Running
  BY DEF Init, Idle, Call, Running
<1>2. View = [k \in Keys |-> <<>>]
  BY InitRules
<1> QED
  BY <1>1, <1>2 DEF Contents

(* Where the call ends that is under way, what it was to do is done. *)
LEMMA WrittenKV ==
    ASSUME RulesInv, Written, w.pc = "sync", View' = View, ~ Running'
    PROVE  KV!Next
<1>1. Contents = shown /\ Contents' = Due
  BY ViewInCall DEF Contents, Running
<1>2. SUFFICES Due \in KV!Changed(shown)
  BY <1>1 DEF KV!Next
<1>3. CASE w.op = "del"
  <2>1. Due = KV!Without(shown, w.key) /\ w.key \in {l \in Keys : shown[l] # <<>>}
    BY <1>3 DEF Due, Written
  <2> QED
    BY <2>1 DEF KV!Changed
<1>4. CASE w.op \in {"add", "replace"}
  <2>1. Due = KV!With(shown, w.key, w.val) /\ w.key \in Keys /\ w.val \in Values
    BY <1>4 DEF Due, Written
  <2> QED
    BY <2>1 DEF KV!Changed
<1> QED
  BY <1>3, <1>4 DEF Written

LEMMA BeginKV ==
    ASSUME RulesInv, CallersKeepToRules, NEW k \in Keys,
           \/ DelMissing(k) \/ DelExisting(k)
           \/ \E v \in Values : SetNew(k, v) \/ SetExisting(k, v)
    PROVE  Contents' = Contents
<1>1. IndInv /\ InPlace /\ PhaseInv
  BY DEF RulesInv
<1>2. Begin /\ w.pc = "idle" /\ store_items = Live
  BY DEF DelMissing, DelExisting, SetNew, SetExisting, Begin, SetPermitted, DelPermitted,
         CallersKeepToRules
<1>3. PICK ks : Taken(ks)
  BY <1>1, <1>2, CallTakesSnapshot
<1>4. mem' = make_snapshot
  BY <1>1, BeginRules
<1>5. BothHold(ks, shown)' /\ shown' = View
  BY <1>2, <1>3, <1>4, BothHoldNext
<1>6. IndInv'
  BY <1>1, BeginSteps
<1>7. (IndInv /\ Index(Live, item_section.used, shown) => View = shown)'
  BY ShownNext
<1>8. View' = shown'
  BY <1>5, <1>6, <1>7 DEF BothHold
<1> QED
  BY <1>2, <1>5, <1>8 DEF Contents, Running

(* A step inside a call shows nothing to calls that start when it is through. *)
LEMMA InsideKV ==
    ASSUME RulesInv,
           \/ AppendKey \/ AppendValue \/ CountItem \/ SortItem \/ SortNoMemory
           \/ FlipItems \/ UncountItem
    PROVE  Contents' = Contents
<1>1. w \in Calls
  BY DEF RulesInv, IndInv, TypeOK
<1>2. shown' = shown /\ Running
  BY DEF AppendKey, WriteKey, AppendValue, WriteValue, CountItem, SortItem, SortNoMemory,
         FlipItems, UncountItem, history, Running
<1>3. w'.pc \in {"value", "used", "flip", "sort", "uncount", "sync"}
  BY <1>1 DEF AppendKey, WriteKey, AppendValue, WriteValue, CountItem, SortItem, SortNoMemory,
              FlipItems, UncountItem, Goto, Calls
<1> QED
  BY <1>2, <1>3 DEF Contents, Running

(* Breaking a call off undoes it or, from its switch of the index on, leaves *)
(* it done.                                                                  *)
LEMMA QuietKV ==
    ASSUME RulesInv, CallersKeepToRules,
           Sync \/ Get(1) \/ TakeTurn \/ Fini \/ Kill \/ InitAgain
    PROVE  [KV!Next]_Contents
<1>1. IndInv /\ PhaseInv /\ w.pc \in Pcs
  BY DEF RulesInv, IndInv, TypeOK, Calls
<1>2. View' = View
  BY QuietRules, ViewStays DEF header
<1>3. ~ Running'
  <2>1. CASE Sync \/ InitAgain
    BY <2>1, ReturnType DEF Sync, InitAgain, Codes, Running
  <2>2. CASE Fini \/ Kill
    BY <2>2, GoneType DEF Fini, Kill, Running
  <2>3. CASE Get(1) \/ TakeTurn
    BY <2>3 DEF Get, TakeTurn, Running
  <2> QED
    BY <2>1, <2>2, <2>3
<1>4. CASE ~ Running
  BY <1>2, <1>3, <1>4 DEF Contents
<1>5. CASE w.pc = "sync"
  <2>1. Written
    BY <1>1, <1>5 DEF PhaseInv
  <2> QED
    BY <1>2, <1>3, <1>5, <2>1, WrittenKV
<1>6. CASE Running /\ w.pc # "sync"
  <2>1. Kill
    BY <1>6 DEF Sync, Get, TakeTurn, Fini, InitAgain, Running
  <2>2. ~ (w.op = "add" /\ w.pc \in {"sort", "flip"})
    BY <2>1 DEF Kill, CallersKeepToRules
  <2>3. Added => w.op = "add"
    BY DEF Added
  <2>4. Adding \/ Replacing \/ Deleting
    BY <1>1, <1>6, <2>2, <2>3 DEF PhaseInv, Pcs, Running
  <2>5. View = shown
    BY <2>4, ViewInCall
  <2> QED
    BY <1>2, <1>3, <1>6, <2>5 DEF Contents
<1> QED
  BY <1>4, <1>5, <1>6

LEMMA NextKV ==
    ASSUME CallersKeepToRules
    PROVE  RulesInv /\ [Next]_vars => [KV!Next]_Contents
<1> SUFFICES ASSUME RulesInv, [Next]_vars PROVE [KV!Next]_Contents
  OBVIOUS
<1>1. CASE \E k \in Keys : \/ DelMissing(k) \/ DelExisting(k)
                           \/ \E v \in Values : SetNew(k, v) \/ SetExisting(k, v)
  BY <1>1, BeginKV
<1>2. CASE \/ AppendKey \/ AppendValue \/ CountItem \/ SortItem \/ SortNoMemory
           \/ FlipItems \/ UncountItem
  BY <1>2, InsideKV
<1>3. CASE Sync \/ Get(1) \/ TakeTurn \/ Fini \/ Kill \/ InitAgain
  BY <1>3, QuietKV
<1>4. CASE UNCHANGED vars
  <2>1. View' = View /\ shown' = shown /\ w' = w
    BY <1>4, ViewStays DEF vars
  <2> QED
    BY <2>1 DEF Contents, Running
<1> QED
  BY <1>1, <1>2, <1>3, <1>4, NoFailure DEF RulesInv, Next, Step

(* For callers that keep to the rules the store is the map of the README:   *)
(* every pupa_set and every pupa_del changes it as it should, in one step,  *)
(* or, killed before its switch of the index, not at all.                   *)
THEOREM StoreIsMap ==
    ASSUME CallersKeepToRules
    PROVE  Spec => KVSpec
BY InitKV, NextKV, SpecRules, PTL DEF Spec, KVSpec, KV!Spec

(* For callers that keep to the rules, a pupa_set or pupa_del that comes to *)
(* its end has done to its own key what it was asked to do, and nothing to  *)
(* another; none is refused on the way.                                     *)
THEOREM EveryCallTakesEffect ==
    ASSUME CallersKeepToRules
    PROVE  Spec => CallsTakeEffect
<1> DEFINE A == Running /\ w'.pc = "idle" =>
                    View' = (IF w.pc = "sync" THEN Due ELSE shown)
<1>1. RulesInv /\ [Next]_vars => [A]_vars
  <2> SUFFICES ASSUME RulesInv, Next, Running, w'.pc = "idle"
               PROVE  View' = (IF w.pc = "sync" THEN Due ELSE shown)
    OBVIOUS
  <2>1. w \in Calls
    BY DEF RulesInv, IndInv, TypeOK
  <2>2. ~ \E k \in Keys : \/ DelMissing(k) \/ DelExisting(k)
                          \/ \E v \in Values : SetNew(k, v) \/ SetExisting(k, v)
    BY DEF DelMissing, DelExisting, SetNew, SetExisting, Begin, Running
  <2>3. ~ (\/ AppendKey \/ AppendValue \/ CountItem \/ SortItem \/ SortNoMemory
           \/ FlipItems \/ UncountItem)
    BY <2>1 DEF AppendKey, WriteKey, AppendValue, WriteValue, CountItem, SortItem,
                SortNoMemory, FlipItems, UncountItem, Goto, Calls
  <2>4. ~ (Get(1) \/ TakeTurn \/ Fini \/ InitAgain)
    BY DEF Get, TakeTurn, Fini, InitAgain, Running
  <2>5. ~ Kill
    BY GoneType DEF Kill
  <2>6. Sync
    BY <2>2, <2>3, <2>4, <2>5, NoFailure DEF RulesInv, Next, Step
  <2>7. w.pc = "sync" /\ Written
    BY <2>6 DEF Sync, RulesInv, PhaseInv
  <2>8. View' = View
    BY <2>6, QuietRules, ViewStays DEF header
  <2> QED
    BY <2>7, <2>8, ViewInCall
<1> QED
  BY <1>1, SpecRules, PTL DEF Spec, CallsTakeEffect
=============================================================================
