--------------------------- MODULE PupaStoreProofs ---------------------------
(***************************************************************************)
(* Theorems about the file layout, for every number of keys and versions,  *)
(* and about PupaStore that hold for every store, every set of keys and    *)
(* values, every sequence of calls and whatever the callers keep to.       *)
(***************************************************************************)
EXTENDS PupaStoreProperties, TLAPS

-----------------------------------------------------------------------------
(* The layout. *)

LEMMA AreaType ==
    ASSUME NEW n \in Nat
    PROVE  /\ ItemArea(n) \in Nat
           /\ KeyArea(n) \in Nat
           /\ ValueArea(n) \in Nat
           /\ ItemSlots \in Nat \ {0}
           /\ HdrSlots \in Nat
<1>1. KeyAvg * n \in Nat /\ ValAvg * n \in Nat
  BY LayoutAssumption
<1> QED
  BY <1>1, LayoutAssumption DEF ItemArea, KeyArea, ValueArea, ItemSlots

(* pupa_store_init leaves the two areas of the three sections one after the *)
(* other behind the header, with no gap and no overlap, and the size it     *)
(* returns ends with the last one.                                          *)
THEOREM AreasFollow ==
    ASSUME NEW n \in Nat
    PROVE  /\ ItemSection(n).sec1 = HdrSlots
           /\ ItemSection(n).sec2 = ItemSection(n).sec1 + ItemArea(n)
           /\ KeySection(n).sec1 = ItemSection(n).sec2 + ItemArea(n)
           /\ KeySection(n).sec2 = KeySection(n).sec1 + KeySection(n).size
           /\ ValueSection(n).sec1 = KeySection(n).sec2 + KeySection(n).size
           /\ ValueSection(n).sec2 = ValueSection(n).sec1 + ValueSection(n).size
           /\ StoreSize(n) = ValueSection(n).sec2 + ValueSection(n).size
<1> DEFINE i == ItemArea(n)
           k == KeyArea(n)
           v == ValueArea(n)
<1>1. i \in Nat /\ k \in Nat /\ v \in Nat /\ HdrSlots \in Nat
  BY AreaType
<1>2. /\ ItemSection(n).sec1 = HdrSlots
      /\ ItemSection(n).sec2 = HdrSlots + i
      /\ KeySection(n).sec1 = HdrSlots + 2 * i
      /\ KeySection(n).sec2 = HdrSlots + 2 * i + k
      /\ KeySection(n).size = k
      /\ ValueSection(n).sec1 = HdrSlots + 2 * i + 2 * k
      /\ ValueSection(n).sec2 = HdrSlots + 2 * i + 2 * k + v
      /\ ValueSection(n).size = v
      /\ StoreSize(n) = HdrSlots + 2 * i + 2 * k + 2 * v
  BY DEF ItemSection, KeySection, ValueSection, Section, StoreSize
<1> HIDE DEF i, k, v
<1>3. /\ HdrSlots + 2 * i = HdrSlots + i + i
      /\ HdrSlots + 2 * i + 2 * k = HdrSlots + 2 * i + k + k
      /\ HdrSlots + 2 * i + 2 * k + 2 * v = HdrSlots + 2 * i + 2 * k + v + v
  BY <1>1
<1> QED
  BY <1>2, <1>3 DEF i

(* An item area holds exactly the first ItemCapacity(n) items of its index: *)
(* the item after them reaches into what follows the area.                  *)
LEMMA CapacityExact ==
    ASSUME NEW n \in Nat, NEW m \in Nat
    PROVE  m * ItemSlots <= ItemArea(n) <=> m <= ItemCapacity(n)
<1> DEFINE a == ItemArea(n)
           s == ItemSlots
           q == a \div s
<1>1. a \in Nat /\ s \in Nat /\ s > 0
  BY AreaType
<1> HIDE DEF a, s
<1>2. q \in Nat /\ q * s <= a /\ a < q * s + s
  BY <1>1
<1> HIDE DEF q
<1>3. m <= q => m * s <= q * s
  BY <1>1, <1>2
<1>4. m > q => m * s >= q * s + s
  <2>1. m > q => m >= q + 1
    BY <1>2
  <2>2. m >= q + 1 => m * s >= (q + 1) * s
    BY <1>1, <1>2
  <2>3. (q + 1) * s = q * s + s
    BY <1>1, <1>2
  <2> QED
    BY <2>1, <2>2, <2>3
<1>5. m * s \in Nat /\ q * s \in Nat
  BY <1>1, <1>2
<1>6. m * s <= a <=> m <= q
  BY <1>1, <1>2, <1>3, <1>4, <1>5
<1> QED
  BY <1>6 DEF a, s, q, ItemCapacity

(* The item areas pupa_store_init reserves (pupa_store.c:35) are too small   *)
(* for the key_count items pupa_store_item_add lets in, whatever max_ver_num *)
(* is, as soon as a store is made for more than one key.                     *)
THEOREM ItemAreaTooSmall ==
    ASSUME NEW n \in Nat, n > 1
    PROVE  /\ n * ItemSlots > ItemArea(n)
           /\ ItemCapacity(n) < ItemSection(n).size
<1>1. MaxVer \in Nat /\ MaxVer > 0
  BY LayoutAssumption
<1>2. (n - 1) * MaxVer > 0
  BY <1>1
<1>3. n * (1 + MaxVer) = n + MaxVer + (n - 1) * MaxVer
  BY <1>1
<1>4. n * ItemSlots > ItemArea(n)
  <2>1. (n - 1) * MaxVer \in Int
    BY <1>1
  <2> DEFINE d == (n - 1) * MaxVer
  <2> HIDE DEF d
  <2>2. n * (1 + MaxVer) > n + MaxVer
    BY <1>1, <1>2, <1>3, <2>1 DEF d
  <2> QED
    BY <2>2 DEF ItemSlots, ItemArea
<1>5. ItemCapacity(n) \in Nat
  BY AreaType DEF ItemCapacity
<1>6. n * ItemSlots \in Nat /\ ItemArea(n) \in Nat
  BY AreaType
<1>7. ~(n <= ItemCapacity(n))
  BY <1>4, <1>6, CapacityExact
<1> QED
  BY <1>4, <1>5, <1>7 DEF ItemSection, Section

(* pupa_store_dump reads beyond the file (pupa_store.c:540): with the sizes  *)
(* the code has, in every store for 333 keys or more that has the items its *)
(* index has room for, far before its last item.                            *)
THEOREM DumpLeavesFile ==
    ASSUME MaxVer = 3, HdrSlots = 8, KeyAvg = 4, ValAvg = 16,
           NEW n \in Nat, n >= 333
    PROVE  DumpEnd(n, ItemCapacity(n)) > StoreSize(n)
<1> DEFINE m == ItemCapacity(n)
           x == (m - 1) * m
<1>1. m = (n + 3) \div 4
  BY DEF ItemCapacity, ItemArea, ItemSlots
<1>2. m \in Nat /\ m >= 84 /\ n <= 4 * m
  BY <1>1
<1> HIDE DEF m
<1>3. DumpEnd(n, m) = n + 11 + 4 * (x \div 2) + 1
  BY <1>2 DEF DumpEnd, DumpItem, ItemSlots, ItemSection, Section, ItemArea
<1>4. x \in Nat /\ x >= 83 * m
  BY <1>2
<1> HIDE DEF x
<1>5. 2 * (x \div 2) >= x - 1 /\ x \div 2 \in Nat
  BY <1>4
<1>6. StoreSize(n) = 14 + 42 * n
  BY DEF StoreSize, ItemArea, KeyArea, ValueArea
<1> QED
  BY <1>2, <1>3, <1>4, <1>5, <1>6 DEF m

-----------------------------------------------------------------------------
(* The store. *)

Mem == [Slots -> Cells]

(* What a call under way still needs of the file: an add has found the     *)
(* index not full, a deletion has found an item.                           *)
CallOK ==
    /\ w.pc \in {"item", "compact_key"} => w.key \in Keys
    /\ w.pc \in {"item", "compact_key", "value", "compact_value"} => w.val \in Values
    /\ w.pc \in {"item", "compact_key", "used", "sort"} => w.op = "add"
    /\ w.pc \in {"value", "compact_value"} => w.op \in {"add", "replace"}
    /\ w.op = "add" /\ w.pc \in {"compact_key", "value", "compact_value", "used"} =>
           item_section.used < item_section.size
    /\ w.pc = "uncount" => w.op = "del"
    /\ w.op = "del" /\ w.pc \in {"flip", "uncount"} => item_section.used > 0

IndInv == TypeOK /\ UsedBounded /\ CallOK

-----------------------------------------------------------------------------
(* The layout's numbers are natural numbers. *)
LEMMA LayoutType ==
    /\ ItemSlots \in Nat
    /\ ItemSection(KeyCount) \in Sections
    /\ KeySection(KeyCount) \in Sections
    /\ ValueSection(KeyCount) \in Sections
<1>1. ItemSlots \in Nat
  BY LayoutAssumption DEF ItemSlots
<1>2. \A i, j \in Nat : i * j \in Nat
  OBVIOUS
<1>4. /\ ItemArea(KeyCount) \in Nat
      /\ KeyArea(KeyCount) \in Nat
      /\ ValueArea(KeyCount) \in Nat
  BY <1>2, LayoutAssumption, StoreAssumption DEF ItemArea, KeyArea, ValueArea
<1>5. /\ ItemSection(KeyCount) \in Sections
      /\ KeySection(KeyCount) \in Sections
      /\ ValueSection(KeyCount) \in Sections
  BY <1>4, LayoutAssumption, StoreAssumption
  DEF ItemSection, KeySection, ValueSection, Section, Sections
<1> QED
  BY <1>1, <1>5

(* The slot of an item. *)
LEMMA ItemAtType ==
    ASSUME NEW base \in Nat, NEW i \in Nat
    PROVE  ItemAt(base, i) \in Nat
<1>1. ItemSlots \in Nat
  BY LayoutType
<1>2. ItemSlots * i \in Nat
  BY <1>1
<1> QED
  BY <1>2 DEF ItemAt

(* Addresses within a section, and the section with its areas switched. *)
LEMMA SectionType ==
    ASSUME NEW s \in Sections
    PROVE  /\ LiveBase(s) \in Nat
           /\ SnapBase(s) \in Nat
           /\ FreeAddr(s) \in Nat
           /\ Flip(s) \in Sections
           /\ Flip(s).size = s.size
           /\ Flip(s).used = s.used
BY DEF Sections, LiveBase, SnapBase, FreeAddr, Flip, SnapshotId

(* Reading any address yields a cell. *)
LEMMA AtType ==
    ASSUME NEW m \in Mem, NEW a
    PROVE  At(m, a) \in Cells
BY DEF At, Mem, Cells, Zero

(* Copying, storing a text, pointing a struct and counting versions leave *)
(* every cell a cell.                                                     *)
LEMMA memcpyType ==
    ASSUME NEW m \in Mem, NEW dst, NEW src, NEW n
    PROVE  memcpy(m, dst, src, n) \in Mem
<1>1. DOMAIN m = Slots /\ \A a \in Slots : m[a] \in Cells
  BY DEF Mem
<1>2. \A a \in Slots : At(m, src + (a - dst)) \in Cells
  BY AtType
<1> QED
  BY <1>1, <1>2 DEF memcpy, Mem

LEMMA PutTextType ==
    ASSUME NEW m \in Mem, NEW p \in Nat, NEW t \in Texts
    PROVE  PutText(m, p, t) \in Mem
<1>1. DOMAIN m = Slots /\ \A a \in Slots : m[a] \in Cells
  BY DEF Mem
<1>2. \A a \in p .. p + TextLen[t] - 1 : TextCell(t, a - p) \in Cells
  BY StoreAssumption DEF TextCell, Cells
<1> QED
  BY <1>1, <1>2 DEF PutText, Mem

LEMMA PointType ==
    ASSUME NEW m \in Mem, NEW a, NEW off \in Nat, NEW len \in Nat
    PROVE  Point(m, a, off, len) \in Mem
BY DEF Point, Mem, Cells

LEMMA SetCntType ==
    ASSUME NEW m \in Mem, NEW a, NEW cnt \in Nat
    PROVE  SetCnt(m, a, cnt) \in Mem
BY DEF SetCnt, Mem, Cells

LEMMA PushVersionType ==
    ASSUME NEW m \in Mem, NEW off \in Nat, w.val \in Values
    PROVE  PushVersion(m, off) \in Mem
<1> DEFINE cnt  == At(m, w.item).cnt
           len  == TextLen[w.val]
           last == w.item + MaxVer
<1>1. cnt \in Nat /\ cnt + 1 \in Nat /\ len \in Nat /\ 1 \in Nat
  BY AtType, StoreAssumption DEF Cells, Texts
<1>2. \A m1 \in Mem : \A a : Point(m1, a, off, len) \in Mem
  BY <1>1, PointType
<1>3. \A m1 \in Mem : \A a : SetCnt(m1, a, 1) \in Mem /\ SetCnt(m1, a, cnt + 1) \in Mem
  BY <1>1, SetCntType
<1>4. \A dst, src, n : memcpy(m, dst, src, n) \in Mem
  BY memcpyType
<1>5. SetCnt(Point(m, last, off, len), w.item, 1) \in Mem
  BY <1>2, <1>3
<1>6. Point(m, last, off, len) \in Mem
  BY <1>2
<1>7. Point(memcpy(m, w.item + 1, w.item + 2, cnt - 1), w.item + cnt, off, len) \in Mem
  BY <1>2, <1>4
<1>8. SetCnt(Point(memcpy(m, last - cnt, last - cnt + 1, cnt), last, off, len),
             w.item, cnt + 1) \in Mem
  BY <1>2, <1>3, <1>4
<1> QED
  BY <1>5, <1>6, <1>7, <1>8 DEF PushVersion

LEMMA MoveItemType ==
    ASSUME NEW m \in Mem, NEW base, NEW pos, NEW count
    PROVE  MoveItem(m, base, pos, count) \in Mem
<1>1. DOMAIN m = Slots /\ \A a \in Slots : m[a] \in Cells
  BY DEF Mem
<1>2. \A a \in Slots : /\ At(m, a + ItemSlots * (count - pos)) \in Cells
                       /\ At(m, a - ItemSlots) \in Cells
  BY AtType
<1> QED
  BY <1>1, <1>2 DEF MoveItem, Mem

(* What readers find is a sequence of texts for every key. *)
LEMMA ViewType ==
    ASSUME mem \in Mem
    PROVE  View \in [Keys -> Seq(Texts \cup {Garbage})]
<1> DEFINE Read == Texts \cup {Garbage}
<1>1. \A c : Bytes(c) \in Read
  BY DEF Bytes
<1>2. \A a : At(mem, a).cnt \in Nat
  BY AtType DEF Cells
<1>3. \A i \in DOMAIN Versions : Versions[i] \in Seq(Read)
  <2>1. TAKE i \in DOMAIN Versions
  <2> DEFINE item == ItemAt(Live, i)
             cnt  == At(mem, item).cnt
             n    == IF cnt <= MaxVer THEN cnt ELSE MaxVer
  <2>2. n \in Nat
    BY <1>2, LayoutAssumption
  <2>3. Versions[i] = [ver \in 1 .. n |-> Bytes(At(mem, VersionSlot(item, ver)))]
    BY DEF Versions
  <2>4. Versions[i] \in [1 .. n -> Read]
    <3> HIDE DEF Read, n, item
    <3> QED BY <1>1, <2>3
  <2> HIDE DEF n, Read
  <2> QED
    BY <2>2, <2>4
<1>4. <<>> \in Seq(Read)
  OBVIOUS
<1> HIDE DEF Read
<1>5. View \in [Keys -> Seq(Read)]
  BY <1>3, <1>4 DEF View
<1> QED
  BY <1>5 DEF Read

-----------------------------------------------------------------------------
(* The record of a call that begins, is over, or has lost its process. *)
LEMMA CallType ==
    /\ \A pc \in Pcs, op \in {"none", "add", "replace", "del"}, k \in Keys \cup {NoText},
          v \in Values \cup {NoText}, item \in Nat :
          Call(pc, op, k, v, item) \in Calls
    /\ \A ret \in Codes : Idle(ret) \in Calls /\ Idle(ret).pc = "idle"
                                             /\ Idle(ret).op = "none"
    /\ \A pc \in Pcs : /\ [Idle("OK") EXCEPT !.pc = pc] \in Calls
                       /\ [Idle("OK") EXCEPT !.pc = pc].pc = pc
                       /\ [Idle("OK") EXCEPT !.pc = pc].op = "none"
<1>1. \A pc \in Pcs, op \in {"none", "add", "replace", "del"}, k \in Keys \cup {NoText},
         v \in Values \cup {NoText}, item \in Nat :
         Call(pc, op, k, v, item) \in Calls
  BY DEF Call, Calls, Codes
<1>2. /\ Call("idle", "none", NoText, NoText, 0) \in Calls
      /\ Call("idle", "none", NoText, NoText, 0).pc = "idle"
      /\ Call("idle", "none", NoText, NoText, 0).op = "none"
  BY <1>1 DEF Call, Pcs
<1>3. \A ret \in Codes : Idle(ret) \in Calls /\ Idle(ret).pc = "idle"
                                            /\ Idle(ret).op = "none"
  BY <1>2 DEF Idle, Calls
<1>4. "OK" \in Codes
  BY DEF Codes
<1>5. \A c \in Calls, pc \in Pcs : /\ [c EXCEPT !.pc = pc] \in Calls
                                 /\ [c EXCEPT !.pc = pc].pc = pc
                                 /\ [c EXCEPT !.pc = pc].op = c.op
  BY DEF Calls
<1> QED
  BY <1>1, <1>3, <1>4, <1>5

LEMMA InitIndInv ==
    Init => IndInv
<1> SUFFICES ASSUME Init PROVE IndInv
  OBVIOUS
<1> USE DEF Init
<1>1. /\ item_section \in Sections
      /\ key_section \in Sections
      /\ value_section \in Sections
  BY LayoutType
<1>2. mem \in [Slots -> Cells]
  BY DEF Cells, Zero
<1>3. store_items \in Nat /\ store_items_snapshot \in Nat /\ other \in Nat
  BY <1>1, SectionType DEF Live
<1>4. w \in Calls
  BY CallType DEF Codes
<1>5. shown \in [Keys -> Seq(Texts \cup {Garbage})]
  OBVIOUS
<1>6. calls \in 0 .. MaxCalls
  BY StoreAssumption
<1>7. UsedBounded
  BY <1>1 DEF UsedBounded, ItemSection, KeySection, ValueSection, Section, Sections
<1>8. CallOK
  BY CallType DEF CallOK, Codes
<1> QED
  BY <1>1, <1>2, <1>3, <1>4, <1>5, <1>6, <1>7, <1>8 DEF IndInv, TypeOK

(* Both writes begin with the snapshot. *)
LEMMA BeginStep ==
    ASSUME IndInv, Begin
    PROVE  /\ UNCHANGED header
           /\ store_items' \in Nat
           /\ store_items_snapshot' \in Nat
           /\ other' \in Nat
           /\ shown' \in [Keys -> Seq(Texts \cup {Garbage})]
           /\ calls' \in 0 .. MaxCalls
           /\ make_snapshot \in Mem
           /\ \A i \in 0 .. item_section.used - 1 :
                 ItemAt(SnapBase(item_section), i) \in Nat
           /\ ItemAt(SnapBase(item_section), item_section.used) \in Nat
<1> USE DEF IndInv, TypeOK, Begin
<1>1. mem \in Mem
  BY DEF Mem
<1>2. SnapBase(item_section) \in Nat
  BY SectionType
<1>3. item_section.used \in Nat
  BY DEF Sections
<1>4. shown' \in [Keys -> Seq(Texts \cup {Garbage})]
  BY <1>1, ViewType
<1>5. calls' \in 0 .. MaxCalls
  BY StoreAssumption
<1>6. make_snapshot \in Mem
  BY <1>1, memcpyType DEF make_snapshot
<1>7. UNCHANGED header /\ store_items' \in Nat /\ store_items_snapshot' \in Nat
  BY <1>2
<1>8. \A i \in Nat : ItemAt(SnapBase(item_section), i) \in Nat
  BY <1>2, ItemAtType
<1>9. 0 .. item_section.used - 1 \subseteq Nat
  OBVIOUS
<1> QED
  BY <1>3, <1>4, <1>5, <1>6, <1>7, <1>8, <1>9

(* d is the call c at pc, counters aside. *)
SameCall(d, c, pc) ==
    d \in Calls /\ d.pc = pc /\ d.op = c.op /\ d.key = c.key /\ d.val = c.val

(* The three ways a step moves the call on. *)
LEMMA GotoType ==
    ASSUME w \in Calls, NEW pc \in Pcs, Goto(pc)
    PROVE  SameCall(w', w, pc)
BY DEF Goto, Calls, SameCall

LEMMA ReturnType ==
    ASSUME NEW ret \in Codes, Return(ret)
    PROVE  w' \in Calls /\ w'.pc = "idle" /\ w'.op = "none"
BY CallType DEF Return

LEMMA GoneType ==
    ASSUME NEW pc \in {"dead", "down"}, Gone(pc)
    PROVE  w' \in Calls /\ w'.pc = pc /\ w'.op = "none"
BY CallType DEF Gone, Pcs

(* The counters of a compaction are counted up or put back. *)
LEMMA CounterType ==
    ASSUME NEW c \in Calls, NEW n \in Nat
    PROVE  /\ SameCall([c EXCEPT !.i = n], c, c.pc)
           /\ SameCall([c EXCEPT !.j = n], c, c.pc)
           /\ SameCall([c EXCEPT !.size = n], c, c.pc)
BY DEF Calls, SameCall

LEMMA NextItemType ==
    ASSUME NEW c \in Calls
    PROVE  SameCall([c EXCEPT !.i = @ + 1, !.j = 0], c, c.pc)
<1> DEFINE d == [c EXCEPT !.i = @ + 1]
<1>1. c.i + 1 \in Nat
  BY DEF Calls
<1>2. SameCall(d, c, c.pc)
  BY <1>1, CounterType
<1> HIDE DEF d
<1>3. SameCall([d EXCEPT !.j = 0], c, c.pc)
  BY <1>2, CounterType DEF SameCall
<1> QED
  BY <1>3 DEF d

LEMMA KeyCopiedType ==
    ASSUME NEW c \in Calls, NEW len \in Nat
    PROVE  SameCall([c EXCEPT !.i = @ + 1, !.size = @ + len], c, c.pc)
<1> DEFINE d == [c EXCEPT !.i = @ + 1]
<1>1. c.i + 1 \in Nat /\ c.size + len \in Nat
  BY DEF Calls
<1>2. SameCall(d, c, c.pc) /\ d.size = c.size
  BY <1>1, CounterType DEF Calls
<1> HIDE DEF d
<1>3. SameCall([d EXCEPT !.size = @ + len], c, c.pc)
  <2>1. d \in Calls /\ d.size + len \in Nat
    BY <1>1, <1>2 DEF SameCall
  <2>2. SameCall([d EXCEPT !.size = @ + len], d, d.pc)
    BY <2>1, CounterType
  <2> QED
    BY <1>2, <2>2 DEF SameCall
<1> QED
  BY <1>3 DEF d

LEMMA ValueCopiedType ==
    ASSUME NEW c \in Calls, NEW len \in Nat
    PROVE  SameCall([c EXCEPT !.j = @ + 1, !.size = @ + len], c, c.pc)
<1> DEFINE d == [c EXCEPT !.j = @ + 1]
<1>1. c.j + 1 \in Nat /\ c.size + len \in Nat
  BY DEF Calls
<1>2. SameCall(d, c, c.pc) /\ d.size = c.size
  BY <1>1, CounterType DEF Calls
<1> HIDE DEF d
<1>3. SameCall([d EXCEPT !.size = @ + len], c, c.pc)
  <2>1. d \in Calls /\ d.size + len \in Nat
    BY <1>1, <1>2 DEF SameCall
  <2>2. SameCall([d EXCEPT !.size = @ + len], d, d.pc)
    BY <2>1, CounterType
  <2> QED
    BY <1>2, <2>2 DEF SameCall
<1> QED
  BY <1>3 DEF d

LEMMA KeyWrittenType ==
    ASSUME NEW c \in Calls
    PROVE  SameCall([c EXCEPT !.pc = "value", !.i = 0, !.size = 0], c, "value")
<1> DEFINE d == [c EXCEPT !.pc = "value"]
           e == [d EXCEPT !.i = 0]
<1>1. SameCall(d, c, "value")
  BY DEF SameCall, Calls, Pcs
<1>2. SameCall(e, c, "value")
  <2> HIDE DEF d
  <2> QED BY <1>1, CounterType DEF SameCall
<1>3. SameCall([e EXCEPT !.size = 0], c, "value")
  <2> HIDE DEF e
  <2> QED BY <1>2, CounterType DEF SameCall
<1> QED
  BY <1>3

(* A step that moves nothing but the call. *)
LEMMA CallStep ==
    ASSUME IndInv, UNCHANGED <<header, mem, ctx, history>>, w' \in Calls, CallOK'
    PROVE  IndInv'
BY DEF IndInv, TypeOK, UsedBounded, header, ctx, history

(* A call that is over needs nothing of the file. *)
LEMMA OverOK ==
    ASSUME w'.pc \in {"idle", "dead", "down"}, w'.op = "none"
    PROVE  CallOK'
BY DEF CallOK

(* The steps on which a call ends, the file as it is. *)
LEMMA EndSteps ==
    ASSUME IndInv,
           \/ ItemsFull \/ CompactKeyFault \/ CompactKeyFull
           \/ CompactValueFault \/ CompactValueFull \/ SortFault \/ Sync
           \/ Fini \/ Kill
    PROVE  IndInv'
<1>1. UNCHANGED <<header, mem, ctx, history>>
  BY DEF ItemsFull, CompactKeyFault, CompactKeyFull, CompactValueFault,
         CompactValueFull, SortFault, Sync, Fini, Kill
<1>2. \/ \E ret \in Codes : Return(ret)
      \/ \E pc \in {"dead", "down"} : Gone(pc)
  BY DEF ItemsFull, CompactKeyFault, CompactKeyFull, CompactValueFault,
         CompactValueFull, SortFault, Sync, Fini, Kill, Fault, Codes
<1>3. w' \in Calls /\ w'.pc \in {"idle", "dead", "down"} /\ w'.op = "none"
  BY <1>2, ReturnType, GoneType
<1> QED
  BY <1>1, <1>3, OverOK, CallStep

(* The steps that only move on within a call. *)
LEMMA MoveSteps ==
    ASSUME IndInv,
           StartKeyCompaction \/ StartValueCompaction \/ CompactValueNext
    PROVE  IndInv'
<1>1. UNCHANGED <<header, mem, ctx, history>>
  BY DEF StartKeyCompaction, StartValueCompaction, CompactValueNext
<1>2. w \in Calls
  BY DEF IndInv, TypeOK
<1>3. item_section.used \in Nat /\ item_section.size \in Nat /\ item_section' = item_section
  BY <1>1 DEF IndInv, TypeOK, Sections, header
<1>4. CASE StartKeyCompaction
  <2>1. w.pc = "item" /\ Goto("compact_key") /\ item_section.used # item_section.size
    BY <1>4 DEF StartKeyCompaction
  <2>2. SameCall(w', w, "compact_key")
    BY <1>2, <2>1, GotoType DEF Pcs
  <2>3. item_section.used < item_section.size
    BY <1>3, <2>1 DEF IndInv, UsedBounded
  <2>4. CallOK'
    BY <1>3, <2>1, <2>2, <2>3 DEF IndInv, CallOK, SameCall
  <2> QED
    BY <1>1, <2>2, <2>4, CallStep DEF SameCall
<1>5. CASE StartValueCompaction
  <2>1. w.pc = "value" /\ Goto("compact_value")
    BY <1>5 DEF StartValueCompaction
  <2>2. SameCall(w', w, "compact_value")
    BY <1>2, <2>1, GotoType DEF Pcs
  <2>3. CallOK'
    BY <1>3, <2>1, <2>2 DEF IndInv, CallOK, SameCall
  <2> QED
    BY <1>1, <2>2, <2>3, CallStep DEF SameCall
<1>6. CASE CompactValueNext
  <2>1. w.pc = "compact_value" /\ w' = [w EXCEPT !.i = @ + 1, !.j = 0]
    BY <1>6 DEF CompactValueNext
  <2>2. SameCall(w', w, "compact_value")
    BY <1>2, <2>1, NextItemType
  <2>3. CallOK'
    BY <1>3, <2>1, <2>2 DEF IndInv, CallOK, SameCall
  <2> QED
    BY <1>1, <2>2, <2>3, CallStep DEF SameCall
<1> QED
  BY <1>4, <1>5, <1>6

(* The steps of a compaction that copy: the memory stays of its type. *)
LEMMA CopySteps ==
    ASSUME IndInv, CompactKey \/ CompactValue
    PROVE  IndInv'
<1>1. w \in Calls /\ mem \in Mem
  BY DEF IndInv, TypeOK, Mem
<1>2. UNCHANGED <<item_section, key_section, value_section>> /\ UNCHANGED <<ctx, history>>
  BY DEF CompactKey, CompactValue, header
<1>3. SnapBase(key_section) + w.size \in Nat /\ SnapBase(value_section) + w.size \in Nat
  BY <1>1, SectionType DEF IndInv, TypeOK, Calls
<1>4. \A m \in Mem : \A a : /\ At(m, a).len \in Nat
                            /\ \A to \in Nat : Moved(m, a, to) \in Mem
  BY AtType, PointType DEF Cells, Moved
<1>5. mem' \in Mem /\ SameCall(w', w, w.pc)
  <2>1. CASE CompactKey
    <3> DEFINE c  == At(mem, KeySlot)
               to == SnapBase(key_section) + w.size
    <3>1. memcpy(mem, to, c.off, c.len) \in Mem
      BY <1>1, memcpyType
    <3>2. mem' = Moved(memcpy(mem, to, c.off, c.len), KeySlot, to)
      BY <2>1 DEF CompactKey
    <3>3. mem' \in Mem
      BY <1>3, <1>4, <3>1, <3>2
    <3>4. w' = [w EXCEPT !.i = @ + 1, !.size = @ + At(mem', KeySlot).len]
      BY <2>1 DEF CompactKey
    <3> QED
      BY <1>1, <1>4, <3>3, <3>4, KeyCopiedType
  <2>2. CASE CompactValue
    <3> DEFINE c  == At(mem, ValSlot)
               to == SnapBase(value_section) + w.size
    <3>1. memcpy(mem, to, c.off, c.len) \in Mem
      BY <1>1, memcpyType
    <3>2. mem' = Moved(memcpy(mem, to, c.off, c.len), ValSlot, to)
      BY <2>2 DEF CompactValue
    <3>3. mem' \in Mem
      BY <1>3, <1>4, <3>1, <3>2
    <3>4. w' = [w EXCEPT !.j = @ + 1, !.size = @ + At(mem', ValSlot).len]
      BY <2>2 DEF CompactValue
    <3> QED
      BY <1>1, <1>4, <3>3, <3>4, ValueCopiedType
  <2> QED
    BY <2>1, <2>2
<1> QED
  BY <1>2, <1>5 DEF IndInv, TypeOK, UsedBounded, CallOK, SameCall, Mem, ctx, history

(* The key is written where there is room for it: behind the keys there    *)
(* are, or behind those a compaction has copied.                           *)
LEMMA KeyWrite ==
    ASSUME IndInv, AppendKey \/ CompactKeyDone
    PROVE  \E s \in Sections, p \in Nat :
             /\ WriteKey(s, p)
             /\ s.size = key_section.size
             /\ s.used + TextLen[w.key] <= key_section.size
             /\ p >= LiveBase(key_section) \/ p = SnapBase(key_section)
<1>1. w \in Calls /\ key_section \in Sections
  BY DEF IndInv, TypeOK
<1>2. CASE AppendKey
  <2>1. FreeAddr(key_section) \in Nat /\ FreeAddr(key_section) >= LiveBase(key_section)
    BY <1>1, SectionType DEF FreeAddr, Sections
  <2>2. /\ WriteKey(key_section, FreeAddr(key_section))
        /\ key_section.used + TextLen[w.key] <= key_section.size
    BY <1>2 DEF AppendKey, KeyFits
  <2> QED
    BY <1>1, <2>1, <2>2
<1>3. CASE CompactKeyDone
  <2> DEFINE s == [Flip(key_section) EXCEPT !.used = w.size]
  <2>1. Flip(key_section) \in Sections /\ Flip(key_section).size = key_section.size
    BY <1>1, SectionType
  <2>2. w.size \in Nat
    BY <1>1 DEF Calls
  <2>3. s \in Sections /\ s.size = key_section.size /\ s.used = w.size
    BY <2>1, <2>2 DEF Sections
  <2>4. SnapBase(key_section) \in Nat
    BY <1>1, SectionType
  <2>5. WriteKey(s, SnapBase(key_section)) /\ w.size + TextLen[w.key] <= key_section.size
    BY <1>3 DEF CompactKeyDone, KeyFits
  <2> HIDE DEF s
  <2> QED
    BY <2>3, <2>4, <2>5
<1> QED
  BY <1>2, <1>3

LEMMA KeySteps ==
    ASSUME IndInv, AppendKey \/ CompactKeyDone
    PROVE  IndInv'
<1>1. w \in Calls /\ mem \in Mem /\ w.key \in Keys /\ w.op = "add" /\ w.val \in Values
  BY DEF IndInv, TypeOK, CallOK, Mem, AppendKey, CompactKeyDone
<1>2. TextLen[w.key] \in Nat /\ w.key \in Texts
  BY <1>1, StoreAssumption DEF Texts
<1>3. PICK s \in Sections, p \in Nat : WriteKey(s, p)
  BY KeyWrite
<1>5. mem' \in Mem
  <2>1. FreeAddr(s) \in Nat
    BY <1>3, SectionType
  <2>2. Point(mem, w.item, FreeAddr(s), TextLen[w.key]) \in Mem
    BY <1>1, <1>2, <2>1, PointType
  <2> QED
    BY <1>2, <1>3, <2>2, PutTextType DEF WriteKey
<1>4. key_section' \in Sections
  <2>1. At(mem', w.item).len \in Nat
    BY <1>5, AtType DEF Cells
  <2>2. key_section' = [s EXCEPT !.used = @ + At(mem', w.item).len]
    BY <1>3 DEF WriteKey
  <2> QED
    BY <2>1, <2>2 DEF Sections
<1>6. SameCall(w', w, "value")
  BY <1>1, <1>3, KeyWrittenType DEF WriteKey
<1>7. item_section.used < item_section.size
  <2>1. /\ item_section.used \in Nat
        /\ item_section.size \in Nat
        /\ item_section.used <= item_section.size
    BY DEF IndInv, TypeOK, UsedBounded, Sections
  <2>2. CASE AppendKey
    <3>1. item_section.used # item_section.size
      BY <2>2 DEF AppendKey
    <3> QED
      BY <2>1, <3>1
  <2>3. CASE CompactKeyDone
    <3>1. w.pc = "compact_key"
      BY <2>3 DEF CompactKeyDone
    <3>2. CallOK
      BY DEF IndInv
    <3> QED
      BY <1>1, <3>1, <3>2 DEF CallOK
  <2> QED
    BY <2>2, <2>3
<1>8. UNCHANGED <<item_section, value_section>> /\ UNCHANGED <<ctx, history>>
  BY <1>3 DEF WriteKey
<1>9. CallOK'
  BY <1>1, <1>6, <1>7, <1>8 DEF CallOK, SameCall
<1> QED
  BY <1>4, <1>5, <1>6, <1>8, <1>9
  DEF IndInv, TypeOK, UsedBounded, SameCall, Mem, ctx, history

(* The value is written where there is room for it. *)
LEMMA ValueSteps ==
    ASSUME IndInv, AppendValue \/ CompactValueDone
    PROVE  IndInv'
<1>1. w \in Calls /\ mem \in Mem /\ w.val \in Values /\ w.op \in {"add", "replace"}
  BY DEF IndInv, TypeOK, CallOK, Mem, AppendValue, CompactValueDone
<1>2. TextLen[w.val] \in Nat /\ w.val \in Texts
  BY <1>1, StoreAssumption DEF Texts
<1>3. PICK s \in Sections, p \in Nat :
         /\ WriteValue(s, p)
         /\ s.size = value_section.size
         /\ s.used + TextLen[w.val] <= value_section.size
  <2>1. CASE AppendValue
    BY <2>1, SectionType DEF AppendValue, ValueFits, IndInv, TypeOK
  <2>2. CASE CompactValueDone
    <3> DEFINE s == [Flip(value_section) EXCEPT !.used = w.size]
               p == SnapBase(value_section) + w.size
    <3>1. Flip(value_section) \in Sections /\ Flip(value_section).size = value_section.size
      BY SectionType DEF IndInv, TypeOK
    <3>2. w.size \in Nat
      BY <1>1 DEF Calls
    <3>3. s \in Sections /\ s.size = value_section.size /\ s.used = w.size
      BY <3>1, <3>2 DEF Sections
    <3>4. p \in Nat
      BY <3>2, SectionType DEF IndInv, TypeOK
    <3>5. WriteValue(s, p) /\ w.size + TextLen[w.val] <= value_section.size
      BY <2>2 DEF CompactValueDone, ValueFits
    <3> HIDE DEF s, p
    <3> QED
      BY <3>3, <3>4, <3>5
  <2> QED
    BY <2>1, <2>2
<1>4. value_section' \in Sections /\ value_section'.used <= value_section'.size
  BY <1>2, <1>3 DEF WriteValue, Sections
<1>5. mem' \in Mem
  <2>1. FreeAddr(s) \in Nat
    BY <1>3, SectionType
  <2>2. PutText(mem, p, w.val) \in Mem
    BY <1>1, <1>2, <1>3, PutTextType
  <2> QED
    BY <1>1, <1>3, <2>1, <2>2, PushVersionType DEF WriteValue
<1>6. SameCall(w', w, IF w.op = "add" THEN "used" ELSE "flip")
  BY <1>1, <1>3, GotoType DEF WriteValue, Pcs
<1>7. w.op = "add" => item_section.used < item_section.size
  BY DEF IndInv, CallOK, AppendValue, CompactValueDone
<1>8. UNCHANGED <<item_section, key_section>> /\ UNCHANGED <<ctx, history>>
  BY <1>3 DEF WriteValue
<1>9. CallOK'
  BY <1>1, <1>6, <1>7, <1>8 DEF CallOK, SameCall
<1> QED
  BY <1>4, <1>5, <1>6, <1>8, <1>9
  DEF IndInv, TypeOK, UsedBounded, SameCall, Mem, ctx, history

(* The end of a call: the new item is counted and sorted in, the index is *)
(* switched, the deleted item is taken off the count.                     *)
LEMMA IndexSteps ==
    ASSUME IndInv, CountItem \/ SortItem \/ SortNoMemory \/ FlipItems \/ UncountItem
    PROVE  IndInv'
<1>1. w \in Calls /\ mem \in Mem /\ item_section \in Sections
  BY DEF IndInv, TypeOK, Mem
<1>2. UNCHANGED <<key_section, value_section>> /\ UNCHANGED <<store_items_snapshot, other, history>>
  BY DEF CountItem, SortItem, SortNoMemory, FlipItems, UncountItem, header, ctx
<1>3. CASE CountItem
  <2>1. SameCall(w', w, "sort") /\ w.op = "add" /\ item_section.used < item_section.size
    BY <1>1, <1>3, GotoType DEF CountItem, IndInv, CallOK, Pcs
  <2>2. item_section' \in Sections /\ item_section'.used <= item_section'.size
    BY <1>1, <1>3, <2>1 DEF CountItem, Sections
  <2>3. CallOK'
    BY <2>1 DEF CallOK, SameCall
  <2> QED
    BY <1>2, <1>3, <2>1, <2>2, <2>3
    DEF IndInv, TypeOK, UsedBounded, SameCall, CountItem, ctx, history
<1>4. CASE SortItem \/ SortNoMemory
  <2>1. SameCall(w', w, "flip") /\ w.op = "add"
    BY <1>1, <1>4, GotoType DEF SortItem, SortNoMemory, IndInv, CallOK, Pcs
  <2>2. mem' \in Mem
    BY <1>1, <1>4, MoveItemType DEF SortItem, SortNoMemory
  <2>3. store_items' \in Nat /\ UNCHANGED item_section
    BY <1>4 DEF SortItem, SortNoMemory, header, IndInv, TypeOK
  <2>4. CallOK'
    BY <2>1 DEF CallOK, SameCall
  <2> QED
    BY <1>2, <2>1, <2>2, <2>3, <2>4 DEF IndInv, TypeOK, UsedBounded, SameCall, Mem, history
<1>5. CASE FlipItems
  <2>1. SameCall(w', w, IF w.op = "del" THEN "uncount" ELSE "sync")
    BY <1>1, <1>5, GotoType DEF FlipItems, Pcs
  <2>2. /\ item_section' \in Sections
        /\ item_section'.used = item_section.used
        /\ item_section'.size = item_section.size
    BY <1>1, <1>5, SectionType DEF FlipItems
  <2>3. w.op = "del" => item_section.used > 0
    BY <1>5 DEF IndInv, CallOK, FlipItems
  <2>4. CallOK'
    BY <2>1, <2>2, <2>3 DEF CallOK, SameCall
  <2> QED
    BY <1>2, <1>5, <2>1, <2>2, <2>4
    DEF IndInv, TypeOK, UsedBounded, SameCall, FlipItems, ctx, history
<1>6. CASE UncountItem
  <2>1. SameCall(w', w, "sync") /\ w.op = "del" /\ item_section.used > 0
    BY <1>1, <1>6, GotoType DEF UncountItem, IndInv, CallOK, Pcs
  <2>2. item_section' \in Sections /\ item_section'.used <= item_section'.size
    BY <1>1, <1>6, <2>1 DEF UncountItem, Sections, IndInv, UsedBounded
  <2>3. CallOK'
    BY <2>1 DEF CallOK, SameCall
  <2> QED
    BY <1>2, <1>6, <2>1, <2>2, <2>3
    DEF IndInv, TypeOK, UsedBounded, SameCall, UncountItem, ctx, history
<1> QED
  BY <1>3, <1>4, <1>5, <1>6

(* The steps that begin a call. *)
LEMMA BeginSteps ==
    ASSUME IndInv, NEW k \in Keys,
           \/ DelMissing(k) \/ DelExisting(k)
           \/ \E v \in Values : SetNew(k, v) \/ SetExisting(k, v)
    PROVE  IndInv'
<1>1. Begin
  BY DEF DelMissing, DelExisting, SetNew, SetExisting
<1>2. /\ UNCHANGED <<item_section, key_section, value_section>>
      /\ store_items' \in Nat
      /\ store_items_snapshot' \in Nat
      /\ other' \in Nat
      /\ shown' \in [Keys -> Seq(Texts \cup {Garbage})]
      /\ calls' \in 0 .. MaxCalls
  BY <1>1, BeginStep DEF header
<1>3. item_section.used \in Nat
  BY DEF IndInv, TypeOK, Sections
<1>4. mem' \in Mem /\ w' \in Calls /\ CallOK'
  <2>1. CASE DelMissing(k)
    <3>1. Return("NOT_FOUND") /\ mem' = make_snapshot /\ "NOT_FOUND" \in Codes
      BY <2>1 DEF DelMissing, Codes
    <3> QED
      BY <1>1, <3>1, BeginStep, ReturnType, OverOK
  <2>2. CASE DelExisting(k)
    <3>1. PICK i \in 0 .. item_section.used - 1 :
             LET p == ItemAt(SnapBase(item_section), i)
             IN  /\ mem' = RemoveItem(make_snapshot, p, i)
                 /\ w' = Call("flip", "del", k, NoText, p)
      BY <2>2 DEF DelExisting
    <3>2. ItemAt(SnapBase(item_section), i) \in Nat /\ make_snapshot \in Mem
      BY <1>1, BeginStep
    <3>3. mem' \in Mem
      BY <3>1, <3>2, memcpyType DEF RemoveItem
    <3>4. w' \in Calls
      BY <3>1, <3>2, CallType DEF Pcs
    <3>5. w'.pc = "flip" /\ w'.op = "del"
      BY <3>1 DEF Call
    <3>6. item_section'.used > 0
      BY <1>2, <1>3
    <3>7. CallOK'
      BY <3>5, <3>6 DEF CallOK
    <3> QED
      BY <3>3, <3>4, <3>7
  <2>3. ASSUME NEW v \in Values, SetNew(k, v)
        PROVE  mem' \in Mem /\ w' \in Calls /\ CallOK'
    <3> DEFINE item == ItemAt(SnapBase(item_section), item_section.used)
    <3>1. mem' = make_snapshot /\ w' = Call("item", "add", k, v, item)
      BY <2>3 DEF SetNew
    <3>2. item \in Nat /\ make_snapshot \in Mem
      BY <1>1, BeginStep
    <3>3. w' \in Calls
      BY <3>1, <3>2, CallType DEF Pcs
    <3>4. w'.pc = "item" /\ w'.op = "add" /\ w'.key = k /\ w'.val = v
      BY <3>1 DEF Call
    <3>5. CallOK'
      BY <3>4 DEF CallOK
    <3> QED
      BY <3>1, <3>2, <3>3, <3>5
  <2>4. ASSUME NEW v \in Values, SetExisting(k, v)
        PROVE  mem' \in Mem /\ w' \in Calls /\ CallOK'
    <3>1. PICK i \in 0 .. item_section.used - 1 :
             w' = Call("value", "replace", k, v, ItemAt(SnapBase(item_section), i))
      BY <2>4 DEF SetExisting
    <3>2. mem' \in Mem
      BY <1>1, <2>4, BeginStep DEF SetExisting
    <3>3. w' \in Calls
      BY <1>1, <3>1, BeginStep, CallType DEF Pcs
    <3>4. w'.pc = "value" /\ w'.op = "replace" /\ w'.val = v
      BY <3>1 DEF Call
    <3>5. CallOK'
      BY <3>4 DEF CallOK
    <3> QED
      BY <3>2, <3>3, <3>5
  <2> QED
    BY <2>1, <2>2, <2>3, <2>4
<1> QED
  BY <1>2, <1>4 DEF IndInv, TypeOK, UsedBounded, Mem

(* Reads, a turn and a restart move the process's pointers. *)
LEMMA PointerSteps ==
    ASSUME IndInv, Get(1) \/ TakeTurn \/ InitAgain
    PROVE  IndInv'
<1>1. UNCHANGED <<item_section, key_section, value_section>> /\ UNCHANGED <<mem, history>>
  BY DEF Get, TakeTurn, InitAgain, header
<1>2. store_items' \in Nat /\ store_items_snapshot' \in Nat /\ other' \in Nat
  BY SectionType DEF Get, TakeTurn, InitAgain, Live, IndInv, TypeOK
<1>3. w' \in Calls /\ CallOK'
  <2>1. CASE Get(1) \/ TakeTurn
    BY <1>1, <2>1 DEF Get, TakeTurn, IndInv, TypeOK, CallOK
  <2>2. CASE InitAgain
    <3>1. Return("OK") /\ "OK" \in Codes
      BY <2>2 DEF InitAgain, Codes
    <3> QED
      BY <3>1, ReturnType, OverOK
  <2> QED
    BY <2>1, <2>2
<1> QED
  BY <1>1, <1>2, <1>3 DEF IndInv, TypeOK, UsedBounded, history

LEMMA NextIndInv ==
    IndInv /\ [Next]_vars => IndInv'
<1> SUFFICES ASSUME IndInv, [Next]_vars PROVE IndInv'
  OBVIOUS
<1>1. CASE \E k \in Keys : \/ DelMissing(k) \/ DelExisting(k)
                         \/ \E v \in Values : SetNew(k, v) \/ SetExisting(k, v)
  <2>1. PICK k \in Keys : \/ DelMissing(k) \/ DelExisting(k)
                         \/ \E v \in Values : SetNew(k, v) \/ SetExisting(k, v)
    BY <1>1
  <2> QED
    BY <2>1, BeginSteps
<1>2. CASE Step
  <2>1. CASE \/ ItemsFull \/ CompactKeyFault \/ CompactKeyFull \/ CompactValueFault
             \/ CompactValueFull \/ SortFault \/ Sync
    BY <2>1, EndSteps
  <2>2. CASE StartKeyCompaction \/ StartValueCompaction \/ CompactValueNext
    BY <2>2, MoveSteps
  <2>3. CASE CompactKey \/ CompactValue
    BY <2>3, CopySteps
  <2>4. CASE AppendKey \/ CompactKeyDone
    BY <2>4, KeySteps
  <2>5. CASE AppendValue \/ CompactValueDone
    BY <2>5, ValueSteps
  <2>6. CASE CountItem \/ SortItem \/ SortNoMemory \/ FlipItems \/ UncountItem
    BY <2>6, IndexSteps
  <2> QED
    BY <1>2, <2>1, <2>2, <2>3, <2>4, <2>5, <2>6 DEF Step
<1>3. CASE Get(1) \/ TakeTurn \/ InitAgain
  BY <1>3, PointerSteps
<1>4. CASE Fini \/ Kill
  BY <1>4, EndSteps
<1>5. CASE UNCHANGED vars
  BY <1>5 DEF vars, IndInv, TypeOK, UsedBounded, CallOK
<1> QED
  BY <1>1, <1>2, <1>3, <1>4, <1>5 DEF Next

LEMMA SpecIndInv ==
    Spec => []IndInv
BY InitIndInv, NextIndInv, PTL DEF Spec

-----------------------------------------------------------------------------
(* Whatever callers do and whatever fails, the header, the areas and the   *)
(* pointers keep their types: no count of a section goes below zero.       *)
THEOREM TypeCorrect ==
    Spec => []TypeOK
<1>1. IndInv => TypeOK
  BY DEF IndInv
<1> QED
  BY <1>1, SpecIndInv, PTL

(* Whatever callers do, wherever the items have come to lie and whatever   *)
(* fails, the item and the value section count no more than their sizes:   *)
(* the checks of pupa_store_item_add, pupa_store_item_replace and           *)
(* pupa_store_value_compaction hold until the step that counts.            *)
THEOREM UsedNeverExceedsSize ==
    Spec => []UsedBounded
<1>1. IndInv => UsedBounded
  BY DEF IndInv
<1> QED
  BY <1>1, SpecIndInv, PTL

-----------------------------------------------------------------------------
(* The key section counts what is read back from the new item.  That is the *)
(* length just written there, unless the key's text has gone over it.       *)

KeysFrom == HdrSlots + 2 * ItemArea(KeyCount)

(* The areas stay where pupa_store_init laid them. *)
AreasStay ==
    /\ item_section.sec1 = HdrSlots
    /\ item_section.sec2 = HdrSlots + ItemArea(KeyCount)
    /\ key_section.sec1 = KeysFrom
    /\ key_section.sec2 >= KeysFrom

(* An add whose key is still to be written works on the item after the last *)
(* one of the snapshot.                                                     *)
NewItem ==
    w.pc \in {"item", "compact_key"} =>
        w.item = ItemAt(SnapBase(item_section), item_section.used)

KeyInv == AreasStay /\ NewItem

LEMMA InitKeyInv ==
    Init => KeyInv
<1> SUFFICES ASSUME Init PROVE KeyInv
  OBVIOUS
<1>1. KeyArea(KeyCount) \in Nat /\ KeysFrom \in Nat
  BY AreaType, StoreAssumption DEF KeysFrom
<1>2. w.pc = "idle"
  BY CallType DEF Init, Codes
<1> QED
  BY <1>1, <1>2 DEF Init, KeyInv, AreasStay, NewItem, ItemSection, KeySection, Section, KeysFrom

(* No step moves an area: sections are switched and counted, no more. *)
LEMMA AreasStep ==
    ASSUME IndInv, AreasStay, [Next]_vars
    PROVE  AreasStay'
<1> DEFINE Same(s, t) == t.sec1 = s.sec1 /\ t.sec2 = s.sec2
<1>1. item_section \in Sections /\ key_section \in Sections
  BY DEF IndInv, TypeOK
<1>2. \A s \in Sections : \A u : /\ Same(s, Flip(s))
                                 /\ Same(s, [s EXCEPT !.used = u])
                                 /\ Same(s, [Flip(s) EXCEPT !.used = u])
  BY DEF Sections, Flip, SnapshotId
<1>4. \A s : Same(s, s)
  OBVIOUS
<1>3. Same(item_section, item_section') /\ Same(key_section, key_section')
  <2>1. CASE UNCHANGED header
    BY <2>1 DEF header
  <2>2. CASE AppendKey \/ CompactKeyDone
    <3>1. PICK u : /\ UNCHANGED item_section
                   /\ \/ key_section' = [key_section EXCEPT !.used = u]
                      \/ key_section' = [Flip(key_section) EXCEPT !.used = u]
      <4>1. CASE AppendKey
        BY <4>1 DEF AppendKey, WriteKey
      <4>2. CASE CompactKeyDone
        <5> DEFINE u == w.size + At(mem', w.item).len
        <5>1. [[Flip(key_section) EXCEPT !.used = w.size] EXCEPT !.used = @ + At(mem', w.item).len]
                  = [Flip(key_section) EXCEPT !.used = u]
          BY <1>1 DEF Sections, Flip
        <5>2. key_section' = [Flip(key_section) EXCEPT !.used = u] /\ UNCHANGED item_section
          BY <4>2, <5>1 DEF CompactKeyDone, WriteKey
        <5> HIDE DEF u
        <5> QED
          BY <5>2
      <4> QED
        BY <2>2, <4>1, <4>2
    <3> HIDE DEF Same
    <3>2. Same(item_section, item_section') /\ Same(key_section, key_section')
      BY <1>1, <1>2, <3>1, <1>4
    <3> QED
      BY <3>2
  <2>3. CASE AppendValue \/ CompactValueDone
    BY <2>3 DEF AppendValue, CompactValueDone, WriteValue
  <2>4. CASE CountItem \/ FlipItems \/ UncountItem
    <3>1. PICK u : /\ UNCHANGED key_section
                   /\ \/ item_section' = [item_section EXCEPT !.used = u]
                      \/ item_section' = Flip(item_section)
      BY <2>4 DEF CountItem, FlipItems, UncountItem
    <3> HIDE DEF Same
    <3>2. Same(item_section, item_section') /\ Same(key_section, key_section')
      BY <1>1, <1>2, <3>1, <1>4
    <3> QED
      BY <3>2
  <2> QED
    BY <2>1, <2>2, <2>3, <2>4
    DEF Next, Step, vars, header, Begin, SetNew, SetExisting, DelMissing, DelExisting,
        ItemsFull, StartKeyCompaction, CompactKey, CompactKeyFault, CompactKeyFull,
        StartValueCompaction, CompactValue, CompactValueNext, CompactValueFault,
        CompactValueFull, SortItem, SortNoMemory, SortFault, Sync, Get, TakeTurn,
        Fini, Kill, InitAgain
<1> QED
  BY <1>3 DEF AreasStay

(* The item of an add is chosen at its beginning and stays. *)
LEMMA NewItemStep ==
    ASSUME IndInv, NewItem, [Next]_vars
    PROVE  NewItem'
<1> SUFFICES ASSUME w'.pc \in {"item", "compact_key"} PROVE NewItem'
  BY DEF NewItem
<1>1. w \in Calls
  BY DEF IndInv, TypeOK
<1>2. CASE w.pc \in {"item", "compact_key"} /\ w'.item = w.item /\ UNCHANGED item_section
  BY <1>2 DEF NewItem
<1>3. CASE StartKeyCompaction \/ CompactKey
  <2>1. w.pc \in {"item", "compact_key"} /\ UNCHANGED item_section
    BY <1>3 DEF StartKeyCompaction, CompactKey, header
  <2>2. w'.item = w.item
    BY <1>1, <1>3 DEF StartKeyCompaction, CompactKey, Goto, Calls
  <2> QED
    BY <1>2, <2>1, <2>2
<1>4. CASE UNCHANGED <<item_section, w>>
  BY <1>4 DEF NewItem
<1>5. ASSUME NEW k \in Keys, NEW v \in Values, SetNew(k, v)
      PROVE  NewItem'
  <2>1. w' = Call("item", "add", k, v, ItemAt(SnapBase(item_section), item_section.used))
    BY <1>5 DEF SetNew
  <2>2. UNCHANGED item_section
    BY <1>5 DEF SetNew, Begin, header
  <2> QED
    BY <2>1, <2>2 DEF NewItem, Call
<1>6. ASSUME \/ \E k \in Keys : \/ DelMissing(k) \/ DelExisting(k)
                               \/ \E v \in Values : SetExisting(k, v)
             \/ ItemsFull \/ AppendKey \/ CompactKeyFault \/ CompactKeyFull \/ CompactKeyDone
             \/ AppendValue \/ StartValueCompaction
             \/ CompactValue \/ CompactValueNext \/ CompactValueFault
             \/ CompactValueFull \/ CompactValueDone
             \/ CountItem \/ SortItem \/ SortNoMemory \/ SortFault
             \/ FlipItems \/ UncountItem \/ Sync
             \/ Fini \/ Kill \/ InitAgain
      PROVE  FALSE
  <2>1. CASE \E k \in Keys : \/ DelMissing(k) \/ DelExisting(k)
                             \/ \E v \in Values : SetExisting(k, v)
    <3>1. \/ Return("NOT_FOUND")
          \/ \E pc \in {"flip", "value"} : \E op, k, v, item : w' = Call(pc, op, k, v, item)
      BY <2>1 DEF DelMissing, DelExisting, SetExisting
    <3> QED
      BY <3>1, ReturnType DEF Call, Codes
  <2>2. CASE \/ ItemsFull \/ CompactKeyFault \/ CompactKeyFull \/ CompactValueFault
             \/ CompactValueFull \/ SortFault \/ Sync \/ Fini \/ Kill \/ InitAgain
    <3>1. \/ \E ret \in Codes : Return(ret)
          \/ \E pc \in {"dead", "down"} : Gone(pc)
      BY <2>2 DEF ItemsFull, CompactKeyFault, CompactKeyFull, CompactValueFault,
             CompactValueFull, SortFault, Sync, Fini, Kill, InitAgain, Fault, Codes
    <3> QED
      BY <3>1, ReturnType, GoneType
  <2>3. CASE AppendKey \/ CompactKeyDone
    BY <1>1, <2>3 DEF AppendKey, CompactKeyDone, WriteKey, Calls
  <2>4. CASE CompactValue \/ CompactValueNext
    BY <1>1, <2>4 DEF CompactValue, CompactValueNext, Calls
  <2>5. CASE \/ AppendValue \/ StartValueCompaction \/ CompactValueDone
             \/ CountItem \/ SortItem \/ SortNoMemory \/ FlipItems \/ UncountItem
    BY <1>1, <2>5 DEF AppendValue, StartValueCompaction, CompactValueDone, WriteValue,
       CountItem, SortItem, SortNoMemory, FlipItems, UncountItem, Goto, Calls
  <2> QED
    BY <1>6, <2>1, <2>2, <2>3, <2>4, <2>5
<1>7. CASE Get(1) \/ TakeTurn \/ UNCHANGED vars
  BY <1>4, <1>7 DEF Get, TakeTurn, vars, header
<1> QED
  BY <1>3, <1>5, <1>6, <1>7 DEF Next, Step

(* An item that the item area has room for lies below the keys. *)
LEMMA RoomyItem ==
    ASSUME AreasStay, item_section \in Sections,
           item_section.used < ItemCapacity(KeyCount)
    PROVE  LET item == ItemAt(SnapBase(item_section), item_section.used)
           IN  item \in Slots /\ item < KeysFrom
<1> DEFINE item == ItemAt(SnapBase(item_section), item_section.used)
           area == ItemArea(KeyCount)
           u    == item_section.used
           x    == ItemSlots * u
<1>1. area \in Nat /\ ItemSlots \in Nat \ {0} /\ HdrSlots \in Nat /\ KeyCount \in Nat
  BY AreaType, StoreAssumption
<1>2. u \in Nat /\ SnapBase(item_section) \in {HdrSlots, HdrSlots + area}
  BY DEF Sections, SnapBase, AreasStay
<1>3. (u + 1) * ItemSlots <= area
  <2>1. ItemCapacity(KeyCount) \in Nat /\ u + 1 \in Nat
    BY <1>1, <1>2 DEF ItemCapacity
  <2>2. u + 1 <= ItemCapacity(KeyCount)
    BY <1>2, <2>1
  <2> QED
    BY <1>1, <2>1, <2>2, CapacityExact
<1>4. x \in Nat /\ x < area
  <2>1. (u + 1) * ItemSlots = x + ItemSlots /\ x \in Nat
    BY <1>1, <1>2
  <2> QED
    BY <1>1, <1>3, <2>1
<1>5. item = SnapBase(item_section) + x
  BY DEF ItemAt
<1> HIDE DEF area, x
<1>6. item >= HdrSlots /\ item < HdrSlots + 2 * area /\ item \in Nat
  BY <1>1, <1>2, <1>4, <1>5
<1>7. StoreSize(KeyCount) - 1 >= HdrSlots + 2 * area - 1
  <2>1. KeyArea(KeyCount) \in Nat /\ ValueArea(KeyCount) \in Nat
    BY <1>1, AreaType
  <2> HIDE DEF area
  <2>2. StoreSize(KeyCount) = HdrSlots + 2 * area + 2 * KeyArea(KeyCount) + 2 * ValueArea(KeyCount)
    BY DEF StoreSize, KeyArea, ValueArea, area
  <2> QED
    BY <1>1, <2>1, <2>2
<1>8. StoreSize(KeyCount) \in Int
  BY <1>1, AreaType DEF StoreSize, KeyArea, ValueArea
<1>9. item \in Slots
  BY <1>1, <1>6, <1>7, <1>8 DEF Slots
<1> QED
  BY <1>6, <1>9 DEF area, KeysFrom

(* What pupa_store_item_add reads back is what it wrote, unless the text lies *)
(* over the item.                                                             *)
LEMMA LengthReadBack ==
    ASSUME NEW m \in Mem, NEW a \in Slots, NEW p \in Nat, a < p,
           NEW off, NEW len, NEW t
    PROVE  At(PutText(Point(m, a, off, len), p, t), a).len = len
<1>1. a \notin p .. p + TextLen[t] - 1
  BY DEF Slots
<1>2. DOMAIN m = Slots /\ m[a] \in Cells
  BY DEF Mem
<1> QED
  BY <1>1, <1>2 DEF At, PutText, Point, Cells

(* For every store and whatever the callers do: the key section comes to   *)
(* count more than its size only by the addition of an item beyond those   *)
(* that pupa_store_init has reserved room for.                             *)
THEOREM KeyOverrunOnlyBeyondItems ==
    Spec => KeyOverrunNeedsItemOverrun
<1>1. ASSUME IndInv, KeyInv, Next,
             key_section' # key_section, key_section'.used > key_section'.size
      PROVE  item_section.used >= ItemCapacity(KeyCount)
  <2>1. item_section \in Sections /\ key_section \in Sections /\ mem \in Mem /\ w \in Calls
    BY <1>1 DEF IndInv, TypeOK, Mem
  <2>2. AppendKey \/ CompactKeyDone
    BY <1>1
    DEF Next, Step, header, Begin, SetNew, SetExisting, DelMissing, DelExisting,
        ItemsFull, StartKeyCompaction, CompactKey, CompactKeyFault, CompactKeyFull,
        AppendValue, CompactValueDone, WriteValue, CountItem, FlipItems, UncountItem,
        StartValueCompaction, CompactValue, CompactValueNext, CompactValueFault,
        CompactValueFull, SortItem, SortNoMemory, SortFault, Sync, Get, TakeTurn,
        Fini, Kill, InitAgain
  <2>3. PICK s \in Sections, p \in Nat :
           /\ WriteKey(s, p)
           /\ s.size = key_section.size
           /\ s.used + TextLen[w.key] <= key_section.size
           /\ p >= LiveBase(key_section) \/ p = SnapBase(key_section)
    BY <1>1, <2>2, KeyWrite
  <2>4. p >= KeysFrom
    <3>1. KeysFrom \in Nat /\ key_section.sec1 \in Nat /\ key_section.sec2 \in Nat
      BY <2>1, AreaType, StoreAssumption DEF KeysFrom, Sections
    <3>2. LiveBase(key_section) >= KeysFrom /\ SnapBase(key_section) >= KeysFrom
      BY <1>1, <3>1 DEF KeyInv, AreasStay, LiveBase, SnapBase
    <3>3. LiveBase(key_section) \in Nat /\ SnapBase(key_section) \in Nat
      BY <2>1, SectionType
    <3> QED
      BY <2>3, <3>1, <3>2, <3>3
  <2>5. w.item = ItemAt(SnapBase(item_section), item_section.used)
    BY <1>1, <2>2 DEF KeyInv, NewItem, AppendKey, CompactKeyDone
  <2>6. SUFFICES ASSUME item_section.used < ItemCapacity(KeyCount) PROVE FALSE
    <3>1. item_section.used \in Nat /\ ItemCapacity(KeyCount) \in Nat
      BY <2>1, AreaType, StoreAssumption DEF Sections, ItemCapacity
    <3> QED
      BY <3>1
  <2>7. w.item \in Slots /\ w.item < KeysFrom
    BY <1>1, <2>1, <2>5, <2>6, RoomyItem DEF KeyInv
  <2>8. w.item < p
    BY <2>4, <2>7, AreaType, StoreAssumption DEF KeysFrom, Slots
  <2>9. At(mem', w.item).len = TextLen[w.key]
    BY <2>1, <2>3, <2>7, <2>8, LengthReadBack DEF WriteKey
  <2>10. key_section'.used = s.used + TextLen[w.key] /\ key_section'.size = s.size
    BY <2>3, <2>9 DEF WriteKey, Sections
  <2>11. w.key \in Keys
    BY <1>1, <2>2 DEF IndInv, CallOK, AppendKey, CompactKeyDone
  <2>12. TextLen[w.key] \in Nat /\ s.used \in Nat /\ key_section.size \in Nat
    BY <2>1, <2>11, StoreAssumption DEF Texts, Sections
  <2> QED
    BY <1>1, <2>3, <2>10, <2>12
<1>2. IndInv /\ KeyInv /\ [Next]_vars =>
          [ /\ key_section' # key_section
            /\ key_section'.used > key_section'.size
            => item_section.used >= ItemCapacity(KeyCount) ]_vars
  BY <1>1 DEF vars
<1>3. Init => KeyInv
  BY InitKeyInv
<1>4. IndInv /\ KeyInv /\ [Next]_vars => KeyInv'
  BY AreasStep, NewItemStep DEF KeyInv
<1> QED
  BY <1>2, <1>3, <1>4, SpecIndInv, PTL DEF Spec, KeyOverrunNeedsItemOverrun
=============================================================================
