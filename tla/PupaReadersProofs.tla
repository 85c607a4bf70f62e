-------------------------- MODULE PupaReadersProofs --------------------------
(***************************************************************************)
(* Theorems about lock-free reads while callers that keep to the rules     *)
(* write: what a read returns, and that what it holds stays.               *)
(***************************************************************************)
EXTENDS PupaReaders, PupaRulesProofs

ReaderPcs == {"idle", "used", "probe", "check", "value", "done"}

Rets == {"OK", "ERROR", "NOT_FOUND", "NOT_FOUND_VALUE"}

ReadCalls ==
    [pc : ReaderPcs, key : Keys \cup {NoText}, ver : All .. MaxVer, base : Nat, n : Nat,
     low : Nat, high : Nat, item : Nat, got : Seq(Cells), ret : Rets, writes : 0 .. Two,
     items : Int]

-----------------------------------------------------------------------------
(* The invariant of what a reader holds: every version of every item that  *)
(* fits, current or not, counted or not, is empty or points to a value.    *)

VersionOK(m, vu, c) == c.len = 0 \/ \E v \in Values : PointsTo(m, c, ValueBase, vu, v)

ItemOK(m, vu, item) ==
    /\ At(m, item).cnt <= MaxVer
    /\ \A ver \in 1 .. MaxVer : VersionOK(m, vu, At(m, VersionSlot(item, ver)))

Areas == {ItemSection(KeyCount).sec1, ItemSection(KeyCount).sec2}

ItemsOK ==
    \A base \in Areas, i \in 0 .. ItemCapacity(KeyCount) - 1 :
        ItemOK(mem, value_section.used, ItemAt(base, i))

(* A read is in one of the two item areas, within the items that fit. *)
ReadOK(m, vu, q) ==
    /\ q \in ReadCalls
    /\ q.pc # "idle" => q.key \in Keys /\ q.base \in Areas
    /\ q.pc = "used" => q.low = 0
    /\ q.pc \in {"used", "probe", "check"} => q.got = <<>>
    /\ q.n <= ItemCapacity(KeyCount)
    /\ q.pc = "probe" => q.high <= q.n
    /\ q.pc \in {"check", "value"} => \E i \in 0 .. q.n - 1 : q.item = ItemAt(q.base, i)
    /\ \A i \in 1 .. Len(q.got) : VersionOK(m, vu, q.got[i])

HoldInv ==
    /\ ItemsOK
    /\ reader \in [Readers -> ReadCalls]
    /\ \A r \in Readers : ReadOK(mem, value_section.used, reader[r])

-----------------------------------------------------------------------------
(* The invariant of what a reader finds. *)

(* The writes of the index that is not yet current. *)
BeforeFlip == w.pc \in {"item", "value", "used", "sort", "flip"}

(* What is in the store as long as the call under way has not switched the *)
(* index, and what is in it since.                                         *)
Stored ==
    CASE ~ Running                -> View
      [] Running /\ w.pc = "sync" -> Due
      [] Running /\ w.pc # "sync" -> shown

(* What a read may answer from. *)
Maps(q) == IF q.writes = 0 THEN {Stored} ELSE {shown, Stored}

(* How many items it has counted, or would now. *)
Counted(q) == IF q.pc = "used" THEN item_section.used ELSE q.n

(* The values it has got are the first of vs. *)
HasGot(m, vu, got, vs) ==
    /\ Len(got) <= Len(vs)
    /\ \A j \in 1 .. Len(got) : PointsTo(m, got[j], ValueBase, vu, vs[j])

(* The read is on its way through n items that hold t. *)
Seeks(m, ku, vu, q, n, t, ks) ==
    /\ IndexOf(m, ku, vu, q.base, n, t, ks)
    /\ q.pc = "probe" =>
          /\ q.low <= q.high /\ q.high <= n
          /\ \A i \in 0 .. n - 1 : /\ i < q.low => Before(ks[i], q.key)
                                   /\ i >= q.high => Before(q.key, ks[i])
    /\ q.pc \in {"check", "value"} =>
          \E i \in 0 .. n - 1 : ks[i] = q.key /\ q.item = ItemAt(q.base, i)
    /\ q.pc = "value" => IF q.ver = All THEN HasGot(m, vu, q.got, t[q.key])
                                        ELSE q.ver <= Len(t[q.key])

(* It has the answer of a key with the versions vs. *)
Answered(m, vu, q, vs) ==
    /\ vs \in Seq(Values)
    /\ vs = <<>> => q.ret = "NOT_FOUND"
    /\ vs # <<>> /\ q.ver = All => /\ q.ret = "OK" /\ Len(q.got) = Len(vs)
                                   /\ HasGot(m, vu, q.got, vs)
    /\ q.ver \in 1 .. Len(vs) => /\ q.ret = "OK" /\ Len(q.got) = 1
                                 /\ PointsTo(m, q.got[1], ValueBase, vu, vs[q.ver])
    /\ vs # <<>> /\ q.ver > Len(vs) => q.ret = "NOT_FOUND_VALUE"

(* One or the other. *)
Sees(m, ku, vu, q, n, t) ==
    IF q.pc = "done" THEN Answered(m, vu, q, t[q.key])
                     ELSE \E ks \in [0 .. n - 1 -> Keys] : Seeks(m, ku, vu, q, n, t, ks)

(* Where it reads, by what is written meanwhile. *)
Placed(q) ==
    /\ q.writes = 0 => ~ Running /\ q.base = Live /\ q.items = item_section.used
    /\ q.writes = 1 /\ BeforeFlip => q.base = Live
    /\ q.writes = 1 /\ (BeforeFlip \/ w.pc = "uncount") => q.items = Indexed

Finds(q) ==
    Counted(q) <= q.items =>
        \E t \in Maps(q) :
            Sees(mem, key_section.used, value_section.used, q, Counted(q), t)

Current(q) == q.pc # "idle" /\ q.writes <= 1 => Placed(q) /\ Finds(q)

FindInv == \A r \in Readers : Current(reader[r])

-----------------------------------------------------------------------------
(* What carries over to a memory with the same values. *)

LEMMA VersionOKCarry ==
    ASSUME NEW m, NEW m2, NEW c \in Cells, NEW vu \in Nat, NEW vu2 \in Nat, vu <= vu2,
           Copied(m, ValueBase, m2, ValueBase, vu), VersionOK(m, vu, c)
    PROVE  VersionOK(m2, vu2, c)
<1>1. CASE c.len = 0
  BY <1>1 DEF VersionOK
<1>2. CASE c.len # 0
  <2>1. PICK v \in Values : PointsTo(m, c, ValueBase, vu, v)
    BY <1>2 DEF VersionOK
  <2>2. PointsTo(m2, c, ValueBase, vu2, v)
    BY <2>1, PointsToCarry, BaseType DEF Texts
  <2> QED
    BY <2>2 DEF VersionOK
<1> QED
  BY <1>1, <1>2

LEMMA ItemOKCarry ==
    ASSUME NEW m \in Mem, NEW m2, NEW a \in Int, NEW a2 \in Int,
           NEW vu \in Nat, NEW vu2 \in Nat, vu <= vu2,
           Copied(m, ValueBase, m2, ValueBase, vu), Copied(m, a, m2, a2, ItemSlots),
           ItemOK(m, vu, a)
    PROVE  ItemOK(m2, vu2, a2)
<1>1. At(m2, a2) = At(m, a)
  <2>1. 0 \in 0 .. ItemSlots - 1
    BY LayoutAssumption DEF ItemSlots
  <2>2. At(m2, a2 + 0) = At(m, a + 0)
    BY <2>1, Zenon DEF Copied
  <2> QED
    BY <2>2
<1>2. ASSUME NEW ver \in 1 .. MaxVer
      PROVE  VersionOK(m2, vu2, At(m2, VersionSlot(a2, ver)))
  <2>1. At(m2, VersionSlot(a2, ver)) = At(m, VersionSlot(a, ver))
    BY VersionSlotIs DEF Copied
  <2>2. VersionOK(m, vu, At(m, VersionSlot(a, ver)))
    BY DEF ItemOK
  <2> QED
    BY <2>1, <2>2, AtType, VersionOKCarry
<1> QED
  BY <1>1, <1>2 DEF ItemOK

(* The item areas are the current one and the snapshot's. *)
LEMMA AreasAre ==
    ASSUME IndInv, InPlace
    PROVE  Areas = {Live, Snap} /\ Live \in Nat /\ Snap \in Nat
<1>1. item_section.id \in {1, 2}
  BY DEF IndInv, TypeOK, Sections
<1> QED
  BY <1>1, Places DEF InPlace, Areas, Live, Snap, LiveBase, SnapBase, AreasApart

(* The slots of an item of either area. *)
LEMMA ItemWhere ==
    ASSUME IndInv, InPlace, NEW base \in Areas, NEW i \in 0 .. ItemCapacity(KeyCount) - 1
    PROVE  /\ ItemAt(base, i) = base + ItemSlots * i
           /\ i \in Nat /\ ItemSlots * i \in Nat
           /\ ItemSlots * i + MaxVer < ItemArea(KeyCount)
           /\ MaxVer \in Nat /\ ItemSlots = 1 + MaxVer
           /\ ItemAt(base, i) \in Nat
<1>1. ItemCapacity(KeyCount) \in Int /\ ItemSlots = 1 + MaxVer /\ MaxVer \in Nat
  BY CapacityType, LayoutAssumption DEF ItemSlots
<1>2. i \in Nat /\ i + 1 \in Nat /\ i + 1 <= ItemCapacity(KeyCount)
  BY <1>1
<1>3. ItemSlots * (i + 1) <= ItemArea(KeyCount)
  BY <1>2, ItemsFit
<1>4. ItemSlots * (i + 1) = ItemSlots * i + ItemSlots /\ ItemSlots * i \in Nat
  BY <1>1, <1>2
<1>5. base \in Nat
  BY AreasAre
<1>6. ItemArea(KeyCount) \in Nat
  BY AreaType, StoreAssumption
<1> QED
  BY <1>1, <1>2, <1>3, <1>4, <1>5, <1>6 DEF ItemAt

(* A snapshot leaves the current area alone, with the items not counted,    *)
(* and in its own those not counted.                                        *)
LEMMA SnapshotItems ==
    ASSUME IndInv, InPlace, store_items = Live, NEW i \in 0 .. ItemCapacity(KeyCount) - 1
    PROVE  /\ Copied(mem, ItemAt(Live, i), make_snapshot, ItemAt(Live, i), ItemSlots)
           /\ \E base \in Areas :
                 Copied(mem, ItemAt(base, i), make_snapshot, ItemAt(Snap, i), ItemSlots)
<1> DEFINE used == item_section.used
           n == ItemSlots * used
           area == ItemArea(KeyCount)
           at == ItemSlots * i
           m2 == make_snapshot
<1>1. /\ AreasApart(area, Live, Snap)
      /\ HdrSlots \in Nat /\ KeyBase \in Nat /\ KeyBase <= StoreSize(KeyCount)
      /\ StoreSize(KeyCount) \in Nat
  BY Places
<1>2. used \in Nat /\ mem \in Mem /\ n \in Nat /\ n <= area
  BY SnapshotLeaves DEF IndInv, TypeOK, Sections, Mem
<1>3. Areas = {Live, Snap}
  BY AreasAre
<1>4. /\ ItemAt(Live, i) = Live + at /\ ItemAt(Snap, i) = Snap + at
      /\ i \in Nat /\ at \in Nat /\ at + MaxVer < area
      /\ MaxVer \in Nat /\ ItemSlots = 1 + MaxVer
  BY <1>3, ItemWhere
<1>5. m2 = memcpy(mem, Snap, Live, n)
  BY Zenon DEF make_snapshot, Snap
<1>6. i < used => at + MaxVer < n
  BY <1>2, <1>4, ItemsApart
<1>7. i >= used => n <= at
  <2> SUFFICES ASSUME i >= used PROVE n <= at
    OBVIOUS
  <2>1. i = used \/ used < i
    BY <1>2, <1>4
  <2>2. used < i => n + MaxVer < at
    BY <1>2, <1>4, ItemsApart
  <2> HIDE DEF used
  <2> QED
    BY <1>2, <1>4, <2>1, <2>2
<1> HIDE DEF n, area, at, m2
<1>8. \A a : a \notin Snap .. Snap + n - 1 => At(m2, a) = At(mem, a)
  BY <1>2, <1>5, Elsewhere
<1>9. Copied(mem, Live + at, m2, Live + at, ItemSlots)
  <2>1. \A x \in 0 .. ItemSlots - 1 : (Live + at) + x \notin Snap .. Snap + n - 1
    BY <1>1, <1>2, <1>4 DEF AreasApart
  <2> QED
    BY <1>8, <2>1 DEF Copied
<1>10. CASE i >= used
  <2>1. \A x \in 0 .. ItemSlots - 1 : (Snap + at) + x \notin Snap .. Snap + n - 1
    BY <1>1, <1>2, <1>4, <1>7, <1>10 DEF AreasApart
  <2>2. Copied(mem, Snap + at, m2, Snap + at, ItemSlots)
    BY <1>8, <2>1 DEF Copied
  <2> QED
    BY <1>3, <1>4, <1>9, <2>2 DEF m2
<1>11. CASE i < used
  <2>1. ASSUME NEW x \in 0 .. ItemSlots - 1
        PROVE  At(m2, (Snap + at) + x) = At(mem, (Live + at) + x)
    <3> DEFINE a == (Snap + at) + x
    <3>1. /\ a \in Slots /\ a \in Snap .. Snap + n - 1
          /\ Live + (a - Snap) = (Live + at) + x
      BY <1>1, <1>2, <1>4, <1>6, <1>11 DEF AreasApart, Slots
    <3> HIDE DEF a
    <3>2. At(m2, a) = IF a \in Snap .. Snap + n - 1 THEN At(mem, Live + (a - Snap)) ELSE At(mem, a)
      BY <1>2, <1>5, <3>1, AtMemcpy
    <3> QED
      BY <3>1, <3>2 DEF a
  <2>2. Copied(mem, Live + at, m2, Snap + at, ItemSlots)
    BY <2>1 DEF Copied
  <2> QED
    BY <1>3, <1>4, <1>9, <2>2 DEF m2
<1> QED
  BY <1>2, <1>4, <1>10, <1>11

(* A write to one item of the snapshot leaves all others of both areas. *)
LEMMA WriteItems ==
    ASSUME IndInv, InPlace, NEW m, NEW m2, NEW j, NEW p, NEW len, WritesItem(m, m2, j, p, len),
           NEW base \in Areas, NEW i \in 0 .. ItemCapacity(KeyCount) - 1,
           base = Live \/ i # j
    PROVE  Copied(m, ItemAt(base, i), m2, ItemAt(base, i), ItemSlots)
<1>1. Areas = {Live, Snap}
  BY AreasAre
<1>2. CASE base = Snap /\ i # j
  BY <1>2, WriteLeaves
<1>3. CASE base = Live
  <2> DEFINE area == ItemArea(KeyCount)
             item == ItemAt(Snap, j)
             at == ItemSlots * i
             to == ItemSlots * j
  <2>1. /\ AreasApart(area, Live, Snap)
        /\ KeyBase \in Nat /\ ValueBase \in Nat /\ key_section.size \in Nat
        /\ KeyBase + key_section.size <= ValueBase
        /\ key_section.used \in Nat /\ value_section.used \in Nat
    BY Places
  <2>2. /\ ItemAt(Live, i) = Live + at /\ at \in Nat /\ at + MaxVer < area
        /\ MaxVer \in Nat /\ ItemSlots = 1 + MaxVer
    BY <1>1, ItemWhere
  <2>3. j \in 0 .. ItemCapacity(KeyCount) - 1 /\ Snap \in Areas
    BY <1>1, CapacityType DEF WritesItem
  <2>4. item = Snap + to /\ to \in Nat /\ to + MaxVer < area
    BY <2>3, ItemWhere
  <2>5. /\ len \in Nat
        /\ \/ p = KeyBase + key_section.used
           \/ p = ValueBase + value_section.used
        /\ \A a : a \notin item .. item + MaxVer /\ a \notin p .. p + len - 1
                      => At(m2, a) = At(m, a)
    BY Zenon DEF WritesItem
  <2> HIDE DEF area, item, at, to
  <2>6. KeyBase <= p /\ p \in Nat
    BY <2>1, <2>5
  <2>7. ASSUME NEW x \in 0 .. ItemSlots - 1
        PROVE  /\ (Live + at) + x \notin item .. item + MaxVer
               /\ (Live + at) + x \notin p .. p + len - 1
    BY <2>1, <2>2, <2>4, <2>5, <2>6 DEF AreasApart
  <2>8. Copied(m, Live + at, m2, Live + at, ItemSlots)
    BY <2>5, <2>7 DEF Copied
  <2> QED
    BY <1>3, <2>2, <2>8
<1> QED
  BY <1>1, <1>2, <1>3

(* The item that gets a version has as many as it should, all of them values. *)
LEMMA PushedOK ==
    ASSUME IndInv, InPlace, NEW j, ValueWritten(j), NEW c \in 1 .. MaxVer, NEW m2,
           Pushes(PutText(mem, ValueBase + value_section.used, w.val), m2, w.item,
                  ValueBase + value_section.used, TextLen[w.val], c),
           ItemOK(mem, value_section.used, w.item),
           Copied(mem, ValueBase, m2, ValueBase, value_section.used)
    PROVE  ItemOK(m2, value_section.used + TextLen[w.val], w.item)
<1> DEFINE vu == value_section.used
           p == ValueBase + vu
           len == TextLen[w.val]
           m1 == PutText(mem, p, w.val)
           item == w.item
<1>1. /\ m1 \in Mem /\ TextAt(m1, p, w.val)
      /\ \A a \in Int : a < ValueBase => At(m1, a) = At(mem, a)
  BY ValueText
<1>2. /\ w.val \in Values /\ len \in Nat /\ vu \in Nat /\ ValueBase \in Nat /\ p \in Nat
      /\ mem \in Mem /\ MaxVer \in Nat
      /\ KeyBase <= ValueBase /\ KeyBase \in Nat
  <2>1. w.val \in Values /\ len \in Nat
    BY TextType DEF ValueWritten, Texts
  <2>2. mem \in Mem
    BY Zenon DEF IndInv, TypeOK, Mem
  <2>3. /\ vu \in Nat /\ ValueBase \in Nat /\ KeyBase \in Nat
        /\ KeyBase + key_section.size <= ValueBase /\ key_section.size \in Nat
    BY Zenon, Places
  <2>4. MaxVer \in Nat
    BY LayoutAssumption
  <2> QED
    BY <2>1, <2>2, <2>3, <2>4
<1>3. item \in Nat /\ item + MaxVer < KeyBase
  <2>1. item = ItemAt(Snap, j) /\ j \in Nat /\ j < ItemCapacity(KeyCount)
    BY DEF ValueWritten
  <2> QED
    BY <2>1, ItemPlace
<1>4. /\ At(m2, item).cnt = c
      /\ At(m2, VersionSlot(item, 1)).off = p
      /\ At(m2, VersionSlot(item, 1)).len = len
      /\ \A ver \in 2 .. c : At(m2, VersionSlot(item, ver)) = At(m1, VersionSlot(item, ver - 1))
      /\ \A ver \in c + 1 .. MaxVer :
            At(m2, VersionSlot(item, ver)) = At(m1, VersionSlot(item, ver))
      /\ \A a : a \notin item .. item + MaxVer => At(m2, a) = At(m1, a)
  BY Zenon DEF Pushes
<1> HIDE DEF m1
<1>5. TextAt(m2, p, w.val)
  <2>1. ASSUME NEW i \in 0 .. len - 1
        PROVE  At(m2, p + i) = TextCell(w.val, i)
    <3>1. p + i \notin item .. item + MaxVer
      <4> HIDE DEF len
      <4> QED
        BY <1>2, <1>3
    <3>2. At(m1, p + i) = TextCell(w.val, i)
      BY <1>1 DEF TextAt
    <3> HIDE DEF p
    <3> QED
      BY <1>4, <3>1, <3>2
  <2> QED
    BY <2>1 DEF TextAt
<1>6. VersionOK(m2, vu + len, At(m2, VersionSlot(item, 1)))
  <2>1. ValueBase <= p /\ p + len <= ValueBase + (vu + len)
    <3> HIDE DEF len, vu
    <3> QED
      BY <1>2
  <2>2. PointsTo(m2, At(m2, VersionSlot(item, 1)), ValueBase, vu + len, w.val)
    BY <1>4, <1>5, <2>1 DEF PointsTo
  <2> QED
    BY <1>2, <2>2 DEF VersionOK
<1>7. ASSUME NEW ver \in 1 .. MaxVer
      PROVE  VersionOK(m2, vu + len, At(m1, VersionSlot(item, ver)))
  <2>1. VersionSlot(item, ver) \in Int /\ VersionSlot(item, ver) < ValueBase
    BY <1>2, <1>3 DEF VersionSlot
  <2>2. At(m1, VersionSlot(item, ver)) = At(mem, VersionSlot(item, ver))
    BY <1>1, <2>1
  <2>3. VersionOK(mem, vu, At(mem, VersionSlot(item, ver)))
    BY DEF ItemOK
  <2>4. vu + len \in Nat /\ vu <= vu + len
    <3> HIDE DEF vu, len
    <3> QED
      BY <1>2
  <2> HIDE DEF vu, len, item
  <2>5. VersionOK(m2, vu + len, At(mem, VersionSlot(item, ver)))
    BY <1>2, <2>3, <2>4, AtType, VersionOKCarry DEF vu
  <2> QED
    BY <2>2, <2>5
<1>8. ASSUME NEW ver \in 1 .. MaxVer
      PROVE  VersionOK(m2, vu + len, At(m2, VersionSlot(item, ver)))
  <2> HIDE DEF vu, len, item
  <2>1. CASE ver = 1
    BY <1>6, <2>1
  <2>2. CASE ver \in 2 .. c
    <3>1. ver - 1 \in 1 .. MaxVer
      BY <1>2, <2>2
    <3> QED
      BY <1>4, <1>7, <2>2, <3>1
  <2>3. CASE ver \in c + 1 .. MaxVer
    BY <1>4, <1>7, <2>3
  <2> QED
    BY <1>2, <2>1, <2>2, <2>3
<1>9. At(m2, item).cnt <= MaxVer
  BY <1>2, <1>4
<1> QED
  BY <1>8, <1>9 DEF ItemOK

(* The steps that begin a call. *)
Begins ==
    \E k \in Keys : \/ DelMissing(k) \/ DelExisting(k)
                    \/ \E v \in Values : SetNew(k, v) \/ SetExisting(k, v)

(* But for the snapshot, the key and the value no step writes to the areas. *)
LEMMA OtherSteps ==
    ASSUME RulesInv, CallersKeepToRules, Next, ~ (Begins \/ AppendKey \/ AppendValue)
    PROVE  /\ UNCHANGED <<mem, key_section, value_section>>
           /\ calls' = calls
<1>1. IndInv /\ InPlace /\ PhaseInv
  BY DEF RulesInv
<1>2. CASE CountItem \/ FlipItems \/ UncountItem
  BY <1>2 DEF CountItem, FlipItems, UncountItem, ctx, history
<1>3. CASE SortItem \/ SortNoMemory
  BY <1>1, <1>3, SortRules DEF SortItem, SortNoMemory, header, history
<1>4. CASE Sync \/ Get(1) \/ TakeTurn \/ Fini \/ Kill \/ InitAgain
  BY <1>4 DEF Sync, Get, TakeTurn, Fini, Kill, InitAgain, header, history
<1> QED
  BY <1>1, <1>2, <1>3, <1>4, NoFailure DEF Next, Step, Begins

(* Only they count a call. *)
LEMMA BeginsWhen ==
    ASSUME RulesInv, CallersKeepToRules, Next
    PROVE  Begins <=> calls' # calls
<1>1. calls \in Nat
  BY DEF RulesInv, IndInv, TypeOK
<1>2. Begins => calls' = calls + 1
  BY DEF Begins, DelMissing, DelExisting, SetNew, SetExisting, Begin
<1>3. AppendKey => calls' = calls
  BY DEF AppendKey, WriteKey, history
<1>4. AppendValue => calls' = calls
  BY DEF AppendValue, WriteValue, history
<1>5. calls + 1 # calls
  BY <1>1
<1> QED
  BY <1>2, <1>3, <1>4, <1>5, OtherSteps

LEMMA ItemsNext ==
    ASSUME RulesInv, CallersKeepToRules, ItemsOK, Next
    PROVE  ItemsOK'
<1> DEFINE vu == value_section.used
           vu2 == value_section'.used
<1>1. IndInv /\ InPlace /\ PhaseInv /\ mem \in Mem
  BY DEF RulesInv, IndInv, TypeOK, Mem
<1>2. /\ Copied(mem, ValueBase, mem', ValueBase, vu)
      /\ vu \in Nat /\ vu2 \in Nat /\ vu <= vu2
  BY StepRules DEF CurrentStays, TextsStay
<1>3. Areas = {Live, Snap} /\ Snap \in Areas
  BY <1>1, AreasAre
<1>4. SUFFICES ASSUME NEW base \in Areas, NEW i \in 0 .. ItemCapacity(KeyCount) - 1
               PROVE  ItemOK(mem', vu2, ItemAt(base, i))
  BY DEF ItemsOK
<1> HIDE DEF vu, vu2
<1>5. ASSUME NEW from \in Areas, Copied(mem, ItemAt(from, i), mem', ItemAt(base, i), ItemSlots)
      PROVE  ItemOK(mem', vu2, ItemAt(base, i))
  <2>1. ItemOK(mem, vu, ItemAt(from, i))
    BY DEF ItemsOK, vu
  <2>2. ItemAt(from, i) \in Int /\ ItemAt(base, i) \in Int
    BY <1>1, ItemWhere
  <2> QED
    BY <1>1, <1>2, <1>5, <2>1, <2>2, ItemOKCarry
<1>6. CASE Begins
  <2>1. mem' = make_snapshot
    BY <1>1, <1>6, BeginRules DEF Begins
  <2>2. store_items = Live
    BY <1>6 DEF Begins, DelMissing, DelExisting, SetNew, SetExisting, SetPermitted, DelPermitted,
                CallersKeepToRules
  <2>3. /\ Copied(mem, ItemAt(Live, i), mem', ItemAt(Live, i), ItemSlots)
        /\ \E b \in Areas : Copied(mem, ItemAt(b, i), mem', ItemAt(Snap, i), ItemSlots)
    BY <1>1, <2>1, <2>2, SnapshotItems
  <2> QED
    BY <1>3, <1>5, <2>3
<1>7. CASE AppendKey
  <2> DEFINE j == item_section.used
             item == ItemAt(Snap, j)
  <2>1. Adding
    BY <1>1, <1>7 DEF AppendKey, PhaseInv
  <2>2. KeyPut
    BY <1>1, <1>7, <2>1, KeyRules
  <2>3. /\ WritesItem(mem, mem', j, KeyBase + key_section.used, TextLen[w.key])
        /\ At(mem', item).cnt = At(mem, item).cnt
        /\ \A x \in 1 .. MaxVer : At(mem', item + x) = At(mem, item + x)
    BY <2>2, Zenon DEF KeyPut
  <2>4. CASE base = Live \/ i # j
    BY <1>1, <1>5, <2>3, <2>4, WriteItems
  <2>5. CASE base = Snap /\ i = j
    <3>1. ItemOK(mem, vu, item) /\ item \in Nat
      BY <1>1, <1>3, <2>5, ItemWhere DEF ItemsOK, vu
    <3>2. ASSUME NEW ver \in 1 .. MaxVer
          PROVE  VersionOK(mem', vu2, At(mem', VersionSlot(item, ver)))
      <4> HIDE DEF item
      <4>1. At(mem', VersionSlot(item, ver)) = At(mem, VersionSlot(item, ver))
        BY <2>3, <3>1, VersionSlotIs
      <4>2. VersionOK(mem, vu, At(mem, VersionSlot(item, ver)))
        BY <3>1 DEF ItemOK
      <4> QED
        BY <1>1, <1>2, <4>1, <4>2, AtType, VersionOKCarry
    <3> QED
      BY <2>3, <2>5, <3>1, <3>2 DEF ItemOK
  <2> QED
    BY <1>3, <2>4, <2>5
<1>8. CASE AppendValue
  <2> DEFINE p == ValueBase + value_section.used
             m1 == PutText(mem, p, w.val)
             len == TextLen[w.val]
  <2>1. ValuePushed
    <3>1. Adding \/ Replacing
      BY <1>1, <1>8 DEF AppendValue, PhaseInv
    <3> QED
      BY <1>1, <1>8, <3>1, AddedValueRules, ReplacedValueRules
  <2>2. PICK j, c : /\ ValueWritten(j)
                    /\ c \in 1 .. MaxVer
                    /\ Pushes(m1, mem', w.item, p, len, c)
    BY <2>1, Zenon DEF ValuePushed
  <2>3. WritesItem(mem, mem', j, p, len)
    BY <1>1, <2>2, ValueWrites
  <2>4. CASE base = Live \/ i # j
    BY <1>1, <1>5, <2>3, <2>4, WriteItems
  <2>5. CASE base = Snap /\ i = j
    <3>1. w.item = ItemAt(Snap, j) /\ w.val \in Values
      BY <2>2 DEF ValueWritten
    <3>2. ItemOK(mem, vu, w.item)
      BY <1>3, <2>5, <3>1 DEF ItemsOK, vu
    <3>3. vu2 = value_section.used + TextLen[w.val]
      <4>1. value_section \in Sections
        BY <1>1 DEF IndInv, TypeOK
      <4>2. value_section' = [value_section EXCEPT !.used = @ + TextLen[w.val]]
        BY <1>8 DEF AppendValue, WriteValue
      <4> QED
        BY <4>1, <4>2 DEF Sections, vu2
    <3>4. ItemOK(mem', value_section.used + TextLen[w.val], w.item)
      BY <1>1, <1>2, <2>2, <3>2, PushedOK DEF vu
    <3> QED
      BY <2>5, <3>1, <3>3, <3>4
  <2> QED
    BY <1>3, <2>4, <2>5
<1>9. CASE mem' = mem
  BY <1>5, <1>9 DEF Copied
<1> QED
  BY <1>6, <1>7, <1>8, <1>9, OtherSteps

-----------------------------------------------------------------------------
(* A step of a reader: its next call is one of those allowed. *)

Becomes(r) == \E q2 : Be(r, q2) /\ ReadOK(mem, value_section.used, q2)

LEMMA UsedType ==
    ASSUME RulesInv
    PROVE  /\ item_section.used \in Nat /\ item_section.used <= ItemCapacity(KeyCount)
           /\ ItemCapacity(KeyCount) \in Nat
           /\ key_section.used \in Nat /\ value_section.used \in Nat
           /\ mem \in Mem
<1>1. /\ item_section.used \in Nat /\ key_section.used \in Nat /\ value_section.used \in Nat
      /\ mem \in Mem
  BY DEF RulesInv, IndInv, TypeOK, Sections, Mem
<1>2. item_section.used <= ItemCapacity(KeyCount) /\ ItemCapacity(KeyCount) \in Int
  BY CapacityType DEF RulesInv, InPlace
<1> QED
  BY <1>1, <1>2

LEMMA NoReadOK ==
    ASSUME RulesInv
    PROVE  ReadOK(mem, value_section.used, NoRead)
<1>1. MaxVer \in Nat /\ All \in All .. MaxVer
  BY LayoutAssumption DEF All
<1>2. NoRead \in ReadCalls /\ NoRead.n = 0 /\ NoRead.pc = "idle" /\ NoRead.got = <<>>
  BY <1>1 DEF NoRead, ReadCalls, ReaderPcs, Rets, Two
<1>3. 0 <= ItemCapacity(KeyCount)
  BY UsedType
<1> QED
  BY <1>2, <1>3 DEF ReadOK

LEMMA TakeBaseOK ==
    ASSUME RulesInv, NEW r \in Readers, NEW k \in Keys, NEW ver \in Asked, TakeBase(r, k, ver)
    PROVE  Becomes(r)
<1> DEFINE q2 == [NoRead EXCEPT !.pc = "used", !.key = k, !.ver = ver, !.base = Live,
                                !.writes = IF Running THEN 1 ELSE 0, !.items = Indexed]
<1>1. Be(r, q2)
  BY DEF TakeBase
<1>2. NoRead \in ReadCalls /\ NoRead.n <= ItemCapacity(KeyCount)
  BY NoReadOK DEF ReadOK
<1>3. Live \in Areas /\ Live \in Nat
  BY AreasAre DEF RulesInv
<1>4. ver \in All .. MaxVer
  BY ReadersAssumption
<1>5. Indexed \in Int
  BY UsedType DEF Indexed
<1>6. (IF Running THEN 1 ELSE 0) \in 0 .. Two
  BY DEF Two
<1>7. q2 \in ReadCalls
  BY <1>2, <1>3, <1>4, <1>5, <1>6 DEF ReadCalls, ReaderPcs
<1>8. /\ q2.pc = "used" /\ q2.key = k /\ q2.base = Live /\ q2.low = 0
      /\ q2.n = NoRead.n /\ q2.got = <<>>
  BY DEF NoRead
<1> HIDE DEF q2
<1>9. ReadOK(mem, value_section.used, q2)
  BY <1>2, <1>3, <1>7, <1>8 DEF ReadOK
<1> QED
  BY <1>1, <1>9 DEF Becomes

LEMMA TakeUsedOK ==
    ASSUME RulesInv, HoldInv, NEW r \in Readers, TakeUsed(r)
    PROVE  Becomes(r)
<1> DEFINE q == reader[r]
           used == item_section.used
           q2 == [q EXCEPT !.pc = "probe", !.n = used, !.high = used]
<1>1. Be(r, q2) /\ q.pc = "used"
  BY DEF TakeUsed
<1>2. ReadOK(mem, value_section.used, q)
  BY DEF HoldInv
<1>3. used \in Nat /\ used <= ItemCapacity(KeyCount)
  BY UsedType
<1> HIDE DEF q, used
<1>4. q \in ReadCalls /\ q.key \in Keys /\ q.base \in Areas /\ q.got = <<>>
  BY <1>1, <1>2 DEF ReadOK
<1>5. /\ q2 \in ReadCalls
      /\ q2.pc = "probe" /\ q2.key = q.key /\ q2.base = q.base /\ q2.got = q.got
      /\ q2.n = used /\ q2.high = used
  BY <1>3, <1>4 DEF ReadCalls, ReaderPcs
<1> HIDE DEF q2
<1>6. ReadOK(mem, value_section.used, q2)
  BY <1>3, <1>4, <1>5 DEF ReadOK
<1> QED
  BY <1>1, <1>6 DEF Becomes

(* The middle of what is left to search. *)
Mid(q) == (q.low + q.high) \div 2

Compared(q) == Compare(mem, TextLen[q.key], KeyBytes(q.key), At(mem, ItemAt(q.base, Mid(q))))

LEMMA MidIs ==
    ASSUME NEW q \in ReadCalls, q.low < q.high
    PROVE  /\ Mid(q) \in Nat /\ q.low <= Mid(q) /\ Mid(q) < q.high
           /\ q.low \in Nat /\ q.high \in Nat
BY DEF Mid, ReadCalls

(* What a probe makes of a read. *)
LEMMA ProbeIs ==
    ASSUME RulesInv, NEW r \in Readers, NEW q, q = reader[r], q \in ReadCalls, q.key \in Keys,
           Probe(r)
    PROVE  /\ q.pc = "probe"
           /\ \/ q.low >= q.high /\ Be(r, Done(q, "NOT_FOUND"))
              \/ /\ q.low < q.high
                 /\ Compared(q) \in Int
                 /\ \/ /\ Compared(q) = 0
                       /\ Be(r, [q EXCEPT !.pc = "check", !.item = ItemAt(q.base, Mid(q))])
                    \/ Compared(q) < 0 /\ Be(r, [q EXCEPT !.high = Mid(q)])
                    \/ Compared(q) > 0 /\ Be(r, [q EXCEPT !.low = Mid(q) + 1])
<1> DEFINE c == Compared(q)
<1>1. mem \in Mem
  BY DEF RulesInv, IndInv, TypeOK, Mem
<1>2. c \in Int
  BY <1>1, AtType, CompareType DEF Compared
<1>3. /\ q.pc = "probe"
      /\ \/ q.low >= q.high /\ Be(r, Done(q, "NOT_FOUND"))
         \/ /\ q.low < q.high
            /\ Be(r, CASE c = 0 -> [q EXCEPT !.pc = "check", !.item = ItemAt(q.base, Mid(q))]
                       [] c < 0 -> [q EXCEPT !.high = Mid(q)]
                       [] c > 0 -> [q EXCEPT !.low = Mid(q) + 1])
  BY Zenon DEF Probe, Compared, KeyBytes, Mid
<1> HIDE DEF c
<1>4. c = 0 \/ c < 0 \/ c > 0
  BY <1>2
<1>5. ~ (c = 0 /\ c < 0) /\ ~ (c = 0 /\ c > 0) /\ ~ (c < 0 /\ c > 0)
  BY <1>2
<1> QED
  BY <1>2, <1>3, <1>4, <1>5 DEF c

LEMMA ProbeOK ==
    ASSUME RulesInv, HoldInv, NEW r \in Readers, Probe(r)
    PROVE  Becomes(r)
<1> DEFINE q == reader[r]
<1>1. ReadOK(mem, value_section.used, q) /\ q.pc = "probe"
  BY DEF HoldInv, Probe
<1> HIDE DEF q
<1>2. /\ q \in ReadCalls /\ q.key \in Keys /\ q.base \in Areas /\ q.got = <<>>
      /\ q.n <= ItemCapacity(KeyCount) /\ q.high <= q.n
  BY <1>1 DEF ReadOK
<1>3. CASE q.low >= q.high /\ Be(r, Done(q, "NOT_FOUND"))
  <2> DEFINE q2 == Done(q, "NOT_FOUND")
  <2>1. /\ q2 \in ReadCalls
        /\ q2.pc = "done" /\ q2.key = q.key /\ q2.base = q.base /\ q2.got = q.got /\ q2.n = q.n
    BY <1>2 DEF Done, ReadCalls, ReaderPcs, Rets
  <2> HIDE DEF q2
  <2>2. ReadOK(mem, value_section.used, q2)
    BY <1>2, <2>1 DEF ReadOK
  <2> QED
    BY <1>3, <2>2 DEF Becomes, q2
<1>4. CASE /\ q.low < q.high
           /\ Be(r, [q EXCEPT !.pc = "check", !.item = ItemAt(q.base, Mid(q))])
  <2> DEFINE mid == Mid(q)
             item == ItemAt(q.base, mid)
             q2 == [q EXCEPT !.pc = "check", !.item = item]
  <2>1. mid \in 0 .. q.n - 1 /\ q.n \in Nat
    BY <1>2, <1>4, MidIs DEF ReadCalls
  <2>2. item \in Nat
    <3> HIDE DEF mid
    <3>1. mid \in 0 .. ItemCapacity(KeyCount) - 1
      BY <1>2, <2>1, CapacityType
    <3> QED
      BY <1>2, <3>1, ItemWhere DEF RulesInv
  <2> HIDE DEF mid
  <2>3. /\ q2 \in ReadCalls
        /\ q2.pc = "check" /\ q2.key = q.key /\ q2.base = q.base /\ q2.got = q.got /\ q2.n = q.n
        /\ q2.item = ItemAt(q2.base, mid)
    <3> HIDE DEF item
    <3>1. /\ q2 \in ReadCalls
          /\ q2.pc = "check" /\ q2.key = q.key /\ q2.base = q.base /\ q2.got = q.got /\ q2.n = q.n
          /\ q2.item = item
      BY <1>2, <2>2 DEF ReadCalls, ReaderPcs
    <3> QED
      BY <3>1 DEF item
  <2> HIDE DEF q2
  <2>4. ReadOK(mem, value_section.used, q2)
    BY <1>2, <2>1, <2>3 DEF ReadOK
  <2> QED
    BY <1>4, <2>4 DEF Becomes, q2, item, mid
<1>5. CASE q.low < q.high /\ Be(r, [q EXCEPT !.high = Mid(q)])
  <2> DEFINE mid == Mid(q)
             q2 == [q EXCEPT !.high = mid]
  <2>1. mid \in Nat /\ mid <= q.n /\ q.n \in Nat
    BY <1>2, <1>5, MidIs DEF ReadCalls
  <2> HIDE DEF mid
  <2>2. /\ q2 \in ReadCalls
        /\ q2.pc = q.pc /\ q2.key = q.key /\ q2.base = q.base /\ q2.got = q.got /\ q2.n = q.n
        /\ q2.high = mid
    BY <1>2, <2>1 DEF ReadCalls
  <2> HIDE DEF q2
  <2>3. ReadOK(mem, value_section.used, q2)
    BY <1>1, <1>2, <2>1, <2>2 DEF ReadOK
  <2> QED
    BY <1>5, <2>3 DEF Becomes, q2, mid
<1>6. CASE q.low < q.high /\ Be(r, [q EXCEPT !.low = Mid(q) + 1])
  <2> DEFINE low == Mid(q) + 1
             q2 == [q EXCEPT !.low = low]
  <2>1. low \in Nat
    BY <1>2, <1>6, MidIs
  <2> HIDE DEF low
  <2>2. /\ q2 \in ReadCalls
        /\ q2.pc = q.pc /\ q2.key = q.key /\ q2.base = q.base /\ q2.got = q.got /\ q2.n = q.n
        /\ q2.high = q.high
    BY <1>2, <2>1 DEF ReadCalls
  <2> HIDE DEF q2
  <2>3. ReadOK(mem, value_section.used, q2)
    BY <1>1, <1>2, <2>2 DEF ReadOK
  <2> QED
    BY <1>6, <2>3 DEF Becomes, q2, low
<1> QED
  BY <1>2, <1>3, <1>4, <1>5, <1>6, ProbeIs DEF q

LEMMA CheckItemOK ==
    ASSUME RulesInv, HoldInv, NEW r \in Readers, CheckItem(r)
    PROVE  Becomes(r)
<1> DEFINE q == reader[r]
<1>1. ReadOK(mem, value_section.used, q) /\ q.pc = "check"
  BY DEF HoldInv, CheckItem
<1>2. \/ Be(r, Done(q, "ERROR")) \/ Be(r, Done(q, "NOT_FOUND_VALUE"))
      \/ Be(r, [q EXCEPT !.pc = "value"])
  BY DEF CheckItem
<1> HIDE DEF q
<1>3. /\ q \in ReadCalls /\ q.key \in Keys /\ q.base \in Areas /\ q.got = <<>>
      /\ q.n <= ItemCapacity(KeyCount)
      /\ \E i \in 0 .. q.n - 1 : q.item = ItemAt(q.base, i)
  BY <1>1 DEF ReadOK
<1>4. ASSUME NEW ret \in Rets
      PROVE  ReadOK(mem, value_section.used, Done(q, ret))
  <2> DEFINE q2 == Done(q, ret)
  <2>1. /\ q2 \in ReadCalls
        /\ q2.pc = "done" /\ q2.key = q.key /\ q2.base = q.base /\ q2.got = q.got /\ q2.n = q.n
    BY <1>3 DEF Done, ReadCalls, ReaderPcs
  <2> HIDE DEF q2
  <2>2. ReadOK(mem, value_section.used, q2)
    BY <1>3, <2>1 DEF ReadOK
  <2> QED
    BY <2>2 DEF q2
<1>5. ReadOK(mem, value_section.used, [q EXCEPT !.pc = "value"])
  <2> DEFINE q2 == [q EXCEPT !.pc = "value"]
  <2>1. /\ q2 \in ReadCalls
        /\ q2.pc = "value" /\ q2.key = q.key /\ q2.base = q.base /\ q2.got = q.got
        /\ q2.n = q.n /\ q2.item = q.item
    BY <1>3 DEF ReadCalls, ReaderPcs
  <2> HIDE DEF q2
  <2>2. ReadOK(mem, value_section.used, q2)
    BY <1>3, <2>1 DEF ReadOK
  <2> QED
    BY <2>2 DEF q2
<1> QED
  BY <1>2, <1>4, <1>5 DEF Becomes, Rets

(* The item a reader is at is one of those that are in order. *)
LEMMA ReadsItem ==
    ASSUME RulesInv, ItemsOK, NEW q, ReadOK(mem, value_section.used, q), q.pc \in {"check", "value"}
    PROVE  ItemOK(mem, value_section.used, q.item)
<1>1. /\ q.base \in Areas /\ q.n \in Nat /\ q.n <= ItemCapacity(KeyCount)
      /\ \E i \in 0 .. q.n - 1 : q.item = ItemAt(q.base, i)
  BY DEF ReadOK, ReadCalls
<1>2. PICK i \in 0 .. q.n - 1 : q.item = ItemAt(q.base, i)
  BY <1>1
<1>3. i \in 0 .. ItemCapacity(KeyCount) - 1
  BY <1>1, <1>2, CapacityType
<1> QED
  BY <1>1, <1>2, <1>3 DEF ItemsOK

LEMMA GetValueOK ==
    ASSUME RulesInv, HoldInv, NEW r \in Readers, GetValue(r)
    PROVE  Becomes(r)
<1> DEFINE q == reader[r]
           c == At(mem, VersionSlot(q.item, q.ver))
           got == <<c>>
           q2 == Done([q EXCEPT !.got = got], "OK")
<1>1. ReadOK(mem, value_section.used, q) /\ q.pc = "value" /\ q.ver # All /\ Be(r, q2)
  BY DEF HoldInv, GetValue
<1> HIDE DEF q
<1>2. /\ q \in ReadCalls /\ q.key \in Keys /\ q.base \in Areas /\ q.n <= ItemCapacity(KeyCount)
      /\ q.ver \in 1 .. MaxVer
  BY <1>1, LayoutAssumption DEF ReadOK, ReadCalls, All
<1>3. VersionOK(mem, value_section.used, c)
  BY <1>1, <1>2, ReadsItem DEF ItemOK, HoldInv
<1>4. c \in Cells
  BY UsedType, AtType
<1> HIDE DEF c
<1>5. got \in Seq(Cells) /\ \A i \in 1 .. Len(got) : VersionOK(mem, value_section.used, got[i])
  BY <1>3, <1>4
<1> HIDE DEF got
<1>6. /\ q2 \in ReadCalls
      /\ q2.pc = "done" /\ q2.key = q.key /\ q2.base = q.base /\ q2.n = q.n /\ q2.got = got
  BY <1>2, <1>5 DEF Done, ReadCalls, ReaderPcs, Rets
<1> HIDE DEF q2
<1>7. ReadOK(mem, value_section.used, q2)
  BY <1>2, <1>5, <1>6 DEF ReadOK
<1> QED
  BY <1>1, <1>7 DEF Becomes

LEMMA GetNextValueOK ==
    ASSUME RulesInv, HoldInv, NEW r \in Readers, GetNextValue(r)
    PROVE  Becomes(r)
<1> DEFINE q == reader[r]
           next == Len(q.got) + 1
           c == At(mem, VersionSlot(q.item, next))
<1>1. ReadOK(mem, value_section.used, q) /\ q.pc = "value"
  BY DEF HoldInv, GetNextValue
<1>2. \/ next <= At(mem, q.item).cnt /\ Be(r, [q EXCEPT !.got = Append(q.got, c)])
      \/ Be(r, Done(q, "OK"))
  BY DEF GetNextValue
<1> HIDE DEF q
<1>3. /\ q \in ReadCalls /\ q.key \in Keys /\ q.base \in Areas /\ q.n <= ItemCapacity(KeyCount)
      /\ \E i \in 0 .. q.n - 1 : q.item = ItemAt(q.base, i)
      /\ \A i \in 1 .. Len(q.got) : VersionOK(mem, value_section.used, q.got[i])
      /\ q.got \in Seq(Cells)
  BY <1>1 DEF ReadOK, ReadCalls
<1>4. CASE next <= At(mem, q.item).cnt /\ Be(r, [q EXCEPT !.got = Append(q.got, c)])
  <2> DEFINE got == Append(q.got, c)
             q2 == [q EXCEPT !.got = got]
  <2>1. ItemOK(mem, value_section.used, q.item)
    BY <1>1, ReadsItem DEF HoldInv
  <2>2. next \in 1 .. MaxVer
    <3>1. At(mem, q.item) \in Cells
      BY UsedType, AtType
    <3>2. At(mem, q.item).cnt <= MaxVer /\ At(mem, q.item).cnt \in Nat
      BY <2>1, <3>1 DEF ItemOK, Cells
    <3>3. Len(q.got) \in Nat
      BY <1>3
    <3> QED
      BY <1>4, <3>2, <3>3, LayoutAssumption
  <2>3. VersionOK(mem, value_section.used, c)
    BY <2>1, <2>2 DEF ItemOK
  <2>4. c \in Cells
    BY UsedType, AtType
  <2> HIDE DEF c, next
  <2>5. /\ got \in Seq(Cells)
        /\ \A i \in 1 .. Len(got) : VersionOK(mem, value_section.used, got[i])
    BY <1>3, <2>3, <2>4
  <2> HIDE DEF got
  <2>6. /\ q2 \in ReadCalls
        /\ q2.pc = "value" /\ q2.key = q.key /\ q2.base = q.base /\ q2.n = q.n
        /\ q2.item = q.item /\ q2.got = got
    BY <1>1, <1>3, <2>5 DEF ReadCalls
  <2> HIDE DEF q2
  <2>7. ReadOK(mem, value_section.used, q2)
    BY <1>3, <2>5, <2>6 DEF ReadOK
  <2> QED
    BY <1>4, <2>7 DEF Becomes, q2, got
<1>5. CASE Be(r, Done(q, "OK"))
  <2> DEFINE q2 == Done(q, "OK")
  <2>1. /\ q2 \in ReadCalls
        /\ q2.pc = "done" /\ q2.key = q.key /\ q2.base = q.base /\ q2.got = q.got /\ q2.n = q.n
    BY <1>3 DEF Done, ReadCalls, ReaderPcs, Rets
  <2> HIDE DEF q2
  <2>2. ReadOK(mem, value_section.used, q2)
    BY <1>3, <2>1 DEF ReadOK
  <2> QED
    BY <1>5, <2>2 DEF Becomes, q2
<1> QED
  BY <1>2, <1>4, <1>5

(* Whatever a reader does. *)
LEMMA ReaderOK ==
    ASSUME RulesInv, HoldInv, NEW r \in Readers,
           (\E k \in Keys, ver \in Asked : TakeBase(r, k, ver)) \/ ReadStep(r) \/ Drop(r)
    PROVE  HoldInv' /\ UNCHANGED vars
<1>1. Becomes(r)
  <2>1. CASE \E k \in Keys, ver \in Asked : TakeBase(r, k, ver)
    BY <2>1, TakeBaseOK
  <2>2. CASE ReadStep(r)
    BY <2>2, TakeUsedOK, ProbeOK, CheckItemOK, GetValueOK, GetNextValueOK DEF ReadStep
  <2>3. CASE Drop(r)
    BY <2>3, NoReadOK DEF Drop, Becomes
  <2> QED
    BY <2>1, <2>2, <2>3
<1>2. UNCHANGED vars
  BY DEF ReadStep, TakeBase, TakeUsed, Probe, CheckItem, GetValue, GetNextValue, Drop
<1>3. PICK q2 : reader' = [reader EXCEPT ![r] = q2] /\ ReadOK(mem, value_section.used, q2)
  BY <1>1 DEF Becomes, Be
<1>4. mem' = mem /\ value_section' = value_section
  BY <1>2 DEF vars
<1>5. reader' \in [Readers -> ReadCalls]
  BY <1>3 DEF HoldInv, ReadOK
<1>6. ASSUME NEW x \in Readers
      PROVE  ReadOK(mem, value_section.used, reader'[x])
  <2>1. reader'[x] = q2 \/ reader'[x] = reader[x]
    BY <1>3 DEF HoldInv
  <2> QED
    BY <1>3, <2>1 DEF HoldInv
<1>7. ItemsOK'
  BY <1>4 DEF HoldInv, ItemsOK
<1> QED
  BY <1>2, <1>4, <1>5, <1>6, <1>7 DEF HoldInv

(* A write leaves what readers hold, wherever they are. *)
LEMMA ReadOKCarry ==
    ASSUME NEW m, NEW vu \in Nat, NEW m2, NEW vu2 \in Nat, vu <= vu2,
           Copied(m, ValueBase, m2, ValueBase, vu), NEW q, ReadOK(m, vu, q)
    PROVE  /\ ReadOK(m2, vu2, q)
           /\ q.writes # Two => ReadOK(m2, vu2, [q EXCEPT !.writes = @ + 1])
<1>1. q \in ReadCalls /\ q.got \in Seq(Cells)
  BY DEF ReadOK, ReadCalls
<1>2. ASSUME NEW i \in 1 .. Len(q.got)
      PROVE  VersionOK(m2, vu2, q.got[i])
  <2>1. q.got[i] \in Cells /\ VersionOK(m, vu, q.got[i])
    BY <1>1 DEF ReadOK
  <2> QED
    BY <2>1, VersionOKCarry
<1>3. ReadOK(m2, vu2, q)
  BY <1>2 DEF ReadOK
<1>4. ASSUME q.writes # Two
      PROVE  ReadOK(m2, vu2, [q EXCEPT !.writes = @ + 1])
  <2> DEFINE q2 == [q EXCEPT !.writes = @ + 1]
  <2>1. q.writes + 1 \in 0 .. Two
    BY <1>1, <1>4 DEF ReadCalls, Two
  <2>2. /\ q2 \in ReadCalls
        /\ q2.pc = q.pc /\ q2.key = q.key /\ q2.base = q.base /\ q2.n = q.n /\ q2.low = q.low
        /\ q2.high = q.high /\ q2.item = q.item /\ q2.got = q.got
    BY <1>1, <2>1 DEF ReadCalls
  <2> HIDE DEF q2
  <2>3. ReadOK(m2, vu2, q2)
    BY <1>3, <2>2, Zenon DEF ReadOK
  <2> QED
    BY <2>3 DEF q2
<1> QED
  BY <1>3, <1>4

LEMMA WriteOK ==
    ASSUME RulesInv, CallersKeepToRules, HoldInv, Write
    PROVE  HoldInv'
<1> DEFINE vu == value_section.used
           vu2 == value_section'.used
<1>1. Next
  BY DEF Write
<1>2. /\ Copied(mem, ValueBase, mem', ValueBase, vu)
      /\ vu \in Nat /\ vu2 \in Nat /\ vu <= vu2
  BY <1>1, StepRules DEF CurrentStays, TextsStay
<1>3. ItemsOK'
  BY <1>1, ItemsNext DEF HoldInv
<1>4. ASSUME NEW r \in Readers
      PROVE  ReadOK(mem', vu2, reader'[r])
  <2>1. \/ reader'[r] = reader[r]
        \/ reader[r].writes # Two /\ reader'[r] = [reader[r] EXCEPT !.writes = @ + 1]
    BY DEF Write
  <2>2. ReadOK(mem, vu, reader[r])
    BY DEF HoldInv
  <2> HIDE DEF vu, vu2
  <2> QED
    BY <1>2, <2>1, <2>2, ReadOKCarry
<1>5. reader' \in [Readers -> ReadCalls]
  <2>1. reader' = [r \in Readers |-> reader'[r]]
    BY DEF Write
  <2>2. \A r \in Readers : reader'[r] \in ReadCalls
    BY <1>4 DEF ReadOK
  <2> QED
    BY <2>1, <2>2
<1> QED
  BY <1>3, <1>4, <1>5 DEF HoldInv

LEMMA InitHold ==
    ReadersInit => RulesInv /\ HoldInv
<1> SUFFICES ASSUME ReadersInit PROVE RulesInv /\ HoldInv
  OBVIOUS
<1>1. RulesInv
  BY InitRules DEF ReadersInit
<1>2. ASSUME NEW r \in Readers
      PROVE  ReadOK(mem, value_section.used, reader[r])
  BY <1>1, NoReadOK DEF ReadersInit
<1>3. reader \in [Readers -> ReadCalls]
  BY <1>1, NoReadOK DEF ReadersInit, ReadOK
<1>4. ASSUME NEW base \in Areas, NEW i \in 0 .. ItemCapacity(KeyCount) - 1
      PROVE  ItemOK(mem, value_section.used, ItemAt(base, i))
  <2>1. \A a : At(mem, a) = Zero
    BY DEF ReadersInit, Init, At
  <2>2. Zero.len = 0 /\ Zero.cnt <= MaxVer
    BY LayoutAssumption DEF Zero
  <2> QED
    BY <2>1, <2>2 DEF ItemOK, VersionOK
<1> QED
  BY <1>1, <1>2, <1>3, <1>4 DEF HoldInv, ItemsOK

LEMMA NextHold ==
    ASSUME CallersKeepToRules
    PROVE  RulesInv /\ HoldInv /\ [ReadersNext]_allVars => RulesInv' /\ HoldInv'
<1> SUFFICES ASSUME RulesInv, HoldInv, [ReadersNext]_allVars PROVE RulesInv' /\ HoldInv'
  OBVIOUS
<1>1. CASE Write
  BY <1>1, NextRules, WriteOK DEF Write
<1>2. CASE \E r \in Readers : \/ \E k \in Keys, ver \in Asked : TakeBase(r, k, ver)
                              \/ ReadStep(r)
                              \/ Drop(r)
  BY <1>2, NextRules, ReaderOK
<1>3. CASE UNCHANGED allVars
  <2>1. UNCHANGED vars /\ reader' = reader /\ mem' = mem /\ value_section' = value_section
    BY <1>3 DEF allVars, vars
  <2>2. HoldInv'
    BY <2>1 DEF HoldInv, ItemsOK
  <2> QED
    BY <2>1, <2>2, NextRules
<1> QED
  BY <1>1, <1>2, <1>3 DEF ReadersNext

LEMMA SpecHold ==
    ASSUME CallersKeepToRules
    PROVE  ReadersSpec => [](RulesInv /\ HoldInv)
BY InitHold, NextHold, PTL DEF ReadersSpec

-----------------------------------------------------------------------------
(* What a struct with no length points to is no text, and what one with a *)
(* text points to is that text.                                           *)
LEMMA EmptyBytes ==
    ASSUME NEW c, c.len = 0
    PROVE  Bytes(c) = Garbage
<1>1. \A t \in Texts : TextLen[t] # 0
  BY TextType
<1>2. {t \in Texts : /\ TextLen[t] = c.len
                     /\ \A i \in 0 .. c.len - 1 : At(mem, c.off + i) = TextCell(t, i)} = {}
  BY <1>1
<1> QED
  BY <1>2, Zenon DEF Bytes

(* Both, of a struct that is held across a step. *)
BytesOf == \A c, vu : /\ c.len = 0 => Bytes(c) = Garbage
                      /\ \A t \in Texts : PointsTo(mem, c, ValueBase, vu, t) => Bytes(c) = t

LEMMA BytesOfHolds == BytesOf
BY EmptyBytes, BytesIs DEF BytesOf

LEMMA HeldSame ==
    ASSUME NEW c \in Cells, NEW vu \in Nat, NEW vu2 \in Nat, vu <= vu2,
           Copied(mem, ValueBase, mem', ValueBase, vu), VersionOK(mem, vu, c)
    PROVE  Bytes(c)' = Bytes(c)
<1>1. BytesOf /\ BytesOf'
  BY BytesOfHolds, PTL
<1>2. CASE c.len = 0
  BY <1>1, <1>2 DEF BytesOf
<1>3. CASE c.len # 0
  <2>1. PICK v \in Values : PointsTo(mem, c, ValueBase, vu, v)
    BY <1>3 DEF VersionOK
  <2>2. v \in Texts
    BY DEF Texts
  <2>3. PointsTo(mem', c, ValueBase, vu2, v)
    BY <2>1, <2>2, PointsToCarry, BaseType
  <2> QED
    BY <1>1, <2>1, <2>2, <2>3 DEF BytesOf
<1> QED
  BY <1>2, <1>3

(* The zero-copy promise to readers: whatever a reader has pointers to, be  *)
(* it of a read that other writes overlapped, keeps its bytes, whatever     *)
(* callers that keep to the rules write and however long it is held.        *)
THEOREM HeldValuesUntouched ==
    ASSUME CallersKeepToRules
    PROVE  ReadersSpec => HeldValuesStay
<1> DEFINE A == \A r \in Readers :
                    reader[r].pc = "done" =>
                        \A c \in ToSet(reader[r].got) : Bytes(c)' = Bytes(c)
<1>1. (RulesInv /\ HoldInv) /\ [ReadersNext]_allVars => [A]_allVars
  <2> SUFFICES ASSUME RulesInv, HoldInv, ReadersNext,
                      NEW r \in Readers, NEW c \in ToSet(reader[r].got)
               PROVE  Bytes(c)' = Bytes(c)
    BY DEF ToSet
  <2> DEFINE vu == value_section.used
  <2>1. PICK i \in 1 .. Len(reader[r].got) : c = reader[r].got[i]
    <3>1. reader[r].got \in Seq(Cells)
      BY DEF HoldInv, ReadCalls
    <3> QED
      BY <3>1 DEF ToSet
  <2>2. c \in Cells /\ VersionOK(mem, vu, c)
    BY <2>1 DEF HoldInv, ReadOK, ReadCalls
  <2>3. Next \/ UNCHANGED vars
    BY ReaderOK DEF ReadersNext, Write
  <2>4. CASE UNCHANGED vars
    <3>1. mem' = mem
      BY <2>4 DEF vars
    <3> QED
      BY <3>1 DEF Bytes
  <2>5. CASE Next
    <3>1. /\ Copied(mem, ValueBase, mem', ValueBase, vu)
          /\ vu \in Nat /\ value_section'.used \in Nat /\ vu <= value_section'.used
      BY <2>5, StepRules DEF CurrentStays, TextsStay
    <3> QED
      BY <2>2, <3>1, HeldSame
  <2> QED
    BY <2>3, <2>4, <2>5
<1> QED
  BY <1>1, SpecHold, PTL DEF ReadersSpec, HeldValuesStay

-----------------------------------------------------------------------------
(* A step of a reader in an index that holds t, by the step. *)

LEMMA BeforeOrders ==
    /\ \A k \in Keys : ~ Before(k, k)
    /\ \A k, l, j \in Keys : Before(k, l) /\ Before(l, j) => Before(k, j)
<1>1. \A k \in Keys : TextLen[k] \in Nat /\ Rank[k] \in Nat
  BY TextType DEF Texts
<1> QED
  BY <1>1 DEF Before

(* What a read on its way knows of the index. *)
LEMMA SeeksIs ==
    ASSUME NEW m, NEW ku, NEW vu, NEW q, NEW n, NEW t, NEW ks,
           Seeks(m, ku, vu, q, n, t, ks), q.key \in Keys
    PROVE  /\ t \in [Keys -> Seq(Values)] /\ ks \in [0 .. n - 1 -> Keys]
           /\ t[q.key] \in Seq(Values)
           /\ \A i, j \in 0 .. n - 1 : i < j => Before(ks[i], ks[j])
           /\ t[q.key] # <<>> => \E i \in 0 .. n - 1 : ks[i] = q.key
           /\ \A i \in 0 .. n - 1 : /\ HasKey(m, ku, ItemAt(q.base, i), ks[i])
                                    /\ HasVersions(m, vu, ItemAt(q.base, i), t[ks[i]])
BY DEF Seeks, IndexOf

(* The key is not there. *)
LEMMA NotThere ==
    ASSUME NEW m, NEW ku, NEW vu, NEW q \in ReadCalls, NEW n \in Nat, NEW t, NEW ks,
           Seeks(m, ku, vu, q, n, t, ks), q.key \in Keys, q.pc = "probe", q.low >= q.high
    PROVE  Answered(m, vu, Done(q, "NOT_FOUND"), t[q.key])
<1> DEFINE q2 == Done(q, "NOT_FOUND")
<1>1. /\ t[q.key] \in Seq(Values)
      /\ t[q.key] # <<>> => \E i \in 0 .. n - 1 : ks[i] = q.key
  BY SeeksIs
<1>2. /\ q.low <= q.high
      /\ \A i \in 0 .. n - 1 : /\ i < q.low => Before(ks[i], q.key)
                               /\ i >= q.high => Before(q.key, ks[i])
      /\ q.low \in Nat /\ q.high \in Nat
  BY DEF Seeks, ReadCalls
<1>3. t[q.key] = <<>>
  <2> SUFFICES ASSUME NEW i \in 0 .. n - 1, ks[i] = q.key PROVE FALSE
    BY <1>1
  <2>1. i < q.low \/ i >= q.high
    BY <1>2
  <2> QED
    BY <1>2, <2>1, BeforeOrders
<1>4. q2.ret = "NOT_FOUND"
  BY DEF Done, ReadCalls
<1> HIDE DEF q2
<1>5. q2.ver \notin 1 .. Len(t[q.key])
  BY <1>3
<1>6. Answered(m, vu, q2, t[q.key])
  BY <1>1, <1>3, <1>4, <1>5 DEF Answered
<1> QED
  BY <1>6 DEF q2

(* What the middle item says of the key. *)
LEMMA MidSays ==
    ASSUME NEW ku, NEW vu, NEW q \in ReadCalls, NEW n \in Nat, NEW t, NEW ks,
           Seeks(mem, ku, vu, q, n, t, ks), q.key \in Keys, q.pc = "probe", q.low < q.high
    PROVE  /\ Mid(q) \in 0 .. n - 1
           /\ Compared(q) = 0 => ks[Mid(q)] = q.key
           /\ Compared(q) < 0 => Before(q.key, ks[Mid(q)])
           /\ Compared(q) > 0 => Before(ks[Mid(q)], q.key)
<1>1. Mid(q) \in 0 .. n - 1
  BY MidIs DEF Seeks
<1>2. ks[Mid(q)] \in Keys /\ HasKey(mem, ku, ItemAt(q.base, Mid(q)), ks[Mid(q)])
  BY <1>1, SeeksIs
<1>3. Compared(q) = Difference(q.key, ks[Mid(q)])
  BY <1>2, CompareKeys DEF Compared, HasKey
<1> QED
  BY <1>1, <1>2, <1>3, DifferenceOrders

LEMMA ProbeFound ==
    ASSUME NEW ku, NEW vu, NEW q \in ReadCalls, NEW n \in Nat, NEW t, NEW ks,
           Seeks(mem, ku, vu, q, n, t, ks), q.key \in Keys, q.pc = "probe", q.low < q.high,
           Compared(q) = 0
    PROVE  Seeks(mem, ku, vu, [q EXCEPT !.pc = "check", !.item = ItemAt(q.base, Mid(q))], n, t, ks)
<1> DEFINE mid == Mid(q)
           item == ItemAt(q.base, mid)
           q2 == [q EXCEPT !.pc = "check", !.item = item]
<1>1. mid \in 0 .. n - 1 /\ ks[mid] = q.key
  BY MidSays
<1> HIDE DEF mid
<1>2. /\ q2.pc = "check" /\ q2.key = q.key /\ q2.base = q.base
      /\ q2.item = ItemAt(q.base, mid)
  <2> HIDE DEF item
  <2>1. /\ q2.pc = "check" /\ q2.key = q.key /\ q2.base = q.base
        /\ q2.item = item
    BY DEF ReadCalls
  <2> QED
    BY <2>1 DEF item
<1> HIDE DEF q2
<1>3. Seeks(mem, ku, vu, q2, n, t, ks)
  BY <1>1, <1>2 DEF Seeks
<1> QED
  BY <1>3 DEF q2, item, mid

LEMMA ProbeLower ==
    ASSUME NEW ku, NEW vu, NEW q \in ReadCalls, NEW n \in Nat, NEW t, NEW ks,
           Seeks(mem, ku, vu, q, n, t, ks), q.key \in Keys, q.pc = "probe", q.low < q.high,
           Compared(q) < 0
    PROVE  Seeks(mem, ku, vu, [q EXCEPT !.high = Mid(q)], n, t, ks)
<1> DEFINE mid == Mid(q)
           q2 == [q EXCEPT !.high = mid]
<1>1. mid \in 0 .. n - 1 /\ Before(q.key, ks[mid]) /\ q.low <= mid /\ mid < q.high
  BY MidSays, MidIs
<1>2. /\ ks \in [0 .. n - 1 -> Keys]
      /\ \A i, j \in 0 .. n - 1 : i < j => Before(ks[i], ks[j])
  BY SeeksIs
<1>3. /\ IndexOf(mem, ku, vu, q.base, n, t, ks)
      /\ \A i \in 0 .. n - 1 : i < q.low => Before(ks[i], q.key)
  BY DEF Seeks
<1> HIDE DEF mid
<1>4. \A i \in 0 .. n - 1 : i >= mid => Before(q.key, ks[i])
  <2> SUFFICES ASSUME NEW i \in 0 .. n - 1, i >= mid PROVE Before(q.key, ks[i])
    OBVIOUS
  <2>1. i = mid \/ Before(ks[mid], ks[i])
    BY <1>1, <1>2
  <2>2. ks[mid] \in Keys /\ ks[i] \in Keys
    BY <1>1, <1>2
  <2> QED
    BY <1>1, <2>1, <2>2, BeforeOrders
<1>5. /\ q2.pc = "probe" /\ q2.key = q.key /\ q2.base = q.base /\ q2.low = q.low
      /\ q2.high = mid
  BY DEF ReadCalls
<1> HIDE DEF q2
<1>6. Seeks(mem, ku, vu, q2, n, t, ks)
  BY <1>1, <1>3, <1>4, <1>5 DEF Seeks
<1> QED
  BY <1>6 DEF q2, mid

LEMMA ProbeUpper ==
    ASSUME NEW ku, NEW vu, NEW q \in ReadCalls, NEW n \in Nat, NEW t, NEW ks,
           Seeks(mem, ku, vu, q, n, t, ks), q.key \in Keys, q.pc = "probe", q.low < q.high,
           Compared(q) > 0
    PROVE  Seeks(mem, ku, vu, [q EXCEPT !.low = Mid(q) + 1], n, t, ks)
<1> DEFINE mid == Mid(q)
           low == mid + 1
           q2 == [q EXCEPT !.low = low]
<1>1. mid \in 0 .. n - 1 /\ Before(ks[mid], q.key) /\ q.low <= mid /\ mid < q.high
  BY MidSays, MidIs
<1>2. /\ ks \in [0 .. n - 1 -> Keys]
      /\ \A i, j \in 0 .. n - 1 : i < j => Before(ks[i], ks[j])
  BY SeeksIs
<1>3. /\ IndexOf(mem, ku, vu, q.base, n, t, ks)
      /\ q.high <= n /\ q.high \in Nat
      /\ \A i \in 0 .. n - 1 : i >= q.high => Before(q.key, ks[i])
  BY DEF Seeks, ReadCalls
<1> HIDE DEF mid
<1>4. \A i \in 0 .. n - 1 : i < low => Before(ks[i], q.key)
  <2> SUFFICES ASSUME NEW i \in 0 .. n - 1, i < low PROVE Before(ks[i], q.key)
    OBVIOUS
  <2>1. i = mid \/ Before(ks[i], ks[mid])
    BY <1>1, <1>2
  <2>2. ks[mid] \in Keys /\ ks[i] \in Keys
    BY <1>1, <1>2
  <2> QED
    BY <1>1, <2>1, <2>2, BeforeOrders
<1>5. low <= q.high
  BY <1>1, <1>3
<1> HIDE DEF low
<1>6. /\ q2.pc = "probe" /\ q2.key = q.key /\ q2.base = q.base /\ q2.low = low
      /\ q2.high = q.high
  BY DEF ReadCalls
<1> HIDE DEF q2
<1>7. Seeks(mem, ku, vu, q2, n, t, ks)
  BY <1>3, <1>4, <1>5, <1>6 DEF Seeks
<1> QED
  BY <1>7 DEF q2, low, mid

(* The item a read is at is the key's. *)
LEMMA ItemSays ==
    ASSUME NEW m, NEW ku, NEW vu, NEW q \in ReadCalls, NEW n \in Nat, NEW t, NEW ks,
           Seeks(m, ku, vu, q, n, t, ks), q.key \in Keys, q.pc \in {"check", "value"}
    PROVE  /\ HasVersions(m, vu, q.item, t[q.key])
           /\ At(m, q.item).len # 0
           /\ At(m, q.item).cnt = Len(t[q.key])
           /\ Len(t[q.key]) \in 1 .. MaxVer
           /\ t[q.key] \in Seq(Values) /\ t[q.key] # <<>>
<1>1. PICK i \in 0 .. n - 1 : ks[i] = q.key /\ q.item = ItemAt(q.base, i)
  BY DEF Seeks
<1>2. HasKey(m, ku, q.item, q.key) /\ HasVersions(m, vu, q.item, t[q.key])
  BY <1>1, SeeksIs
<1>3. At(m, q.item).len # 0
  BY <1>2, TextType DEF HasKey, PointsTo, Texts
<1> QED
  BY <1>2, <1>3 DEF HasVersions

(* An item with enough versions is gone on with; the others are answered. *)
LEMMA Checked ==
    ASSUME NEW ku, NEW vu, NEW q \in ReadCalls, NEW n \in Nat, NEW t, NEW ks,
           Seeks(mem, ku, vu, q, n, t, ks), q.key \in Keys, q.pc = "check", q.got = <<>>
    PROVE  /\ At(mem, q.item).len # 0
           /\ q.ver # All /\ At(mem, q.item).cnt < q.ver =>
                 Answered(mem, vu, Done(q, "NOT_FOUND_VALUE"), t[q.key])
           /\ ~ (q.ver # All /\ At(mem, q.item).cnt < q.ver) =>
                 Seeks(mem, ku, vu, [q EXCEPT !.pc = "value"], n, t, ks)
<1> DEFINE vs == t[q.key]
<1>1. /\ At(mem, q.item).len # 0 /\ At(mem, q.item).cnt = Len(vs)
      /\ Len(vs) \in 1 .. MaxVer /\ vs \in Seq(Values) /\ vs # <<>>
  BY ItemSays
<1> HIDE DEF vs
<1>2. q.ver \in Nat /\ Len(vs) \in Nat
  BY <1>1, LayoutAssumption DEF ReadCalls, All
<1>3. ASSUME q.ver # All, Len(vs) < q.ver
      PROVE  Answered(mem, vu, Done(q, "NOT_FOUND_VALUE"), vs)
  <2> DEFINE q2 == Done(q, "NOT_FOUND_VALUE")
  <2>1. q2.ret = "NOT_FOUND_VALUE" /\ q2.ver = q.ver
    BY DEF Done, ReadCalls
  <2> HIDE DEF q2
  <2>2. q2.ver \notin 1 .. Len(vs)
    BY <1>2, <1>3, <2>1
  <2>3. Answered(mem, vu, q2, vs)
    BY <1>1, <1>3, <2>1, <2>2 DEF Answered
  <2> QED
    BY <2>3 DEF q2
<1>4. ASSUME ~ (q.ver # All /\ Len(vs) < q.ver)
      PROVE  Seeks(mem, ku, vu, [q EXCEPT !.pc = "value"], n, t, ks)
  <2> DEFINE q2 == [q EXCEPT !.pc = "value"]
  <2>1. /\ q2.pc = "value" /\ q2.key = q.key /\ q2.base = q.base /\ q2.ver = q.ver
        /\ q2.item = q.item /\ q2.got = <<>>
    BY DEF ReadCalls
  <2> HIDE DEF q2
  <2>2. HasGot(mem, vu, <<>>, vs)
    BY <1>2 DEF HasGot
  <2>3. q2.ver # All => q2.ver <= Len(vs)
    BY <1>2, <1>4, <2>1
  <2>4. IF q2.ver = All THEN HasGot(mem, vu, q2.got, t[q2.key]) ELSE q2.ver <= Len(t[q2.key])
    BY <2>1, <2>2, <2>3 DEF vs
  <2>5. /\ IndexOf(mem, ku, vu, q2.base, n, t, ks)
        /\ \E i \in 0 .. n - 1 : ks[i] = q2.key /\ q2.item = ItemAt(q2.base, i)
    BY <2>1 DEF Seeks
  <2>6. Seeks(mem, ku, vu, q2, n, t, ks)
    BY <2>1, <2>4, <2>5 DEF Seeks
  <2> QED
    BY <2>6 DEF q2
<1> QED
  BY <1>1, <1>3, <1>4 DEF vs

LEMMA GotValue ==
    ASSUME NEW ku, NEW vu, NEW q \in ReadCalls, NEW n \in Nat, NEW t, NEW ks,
           Seeks(mem, ku, vu, q, n, t, ks), q.key \in Keys, q.pc = "value", q.ver # All
    PROVE  Answered(mem, vu,
                    Done([q EXCEPT !.got = <<At(mem, VersionSlot(q.item, q.ver))>>], "OK"),
                    t[q.key])
<1> DEFINE vs == t[q.key]
           c == At(mem, VersionSlot(q.item, q.ver))
           q2 == Done([q EXCEPT !.got = <<c>>], "OK")
<1>1. /\ HasVersions(mem, vu, q.item, vs)
      /\ Len(vs) \in 1 .. MaxVer /\ vs \in Seq(Values) /\ vs # <<>>
  BY ItemSays
<1>2. q.ver \in 1 .. Len(vs)
  BY LayoutAssumption DEF Seeks, ReadCalls, All
<1> HIDE DEF vs
<1>3. PointsTo(mem, c, ValueBase, vu, vs[q.ver])
  BY <1>1, <1>2 DEF HasVersions
<1> HIDE DEF c
<1>4. q2.ret = "OK" /\ q2.ver = q.ver /\ q2.got = <<c>>
  BY DEF Done, ReadCalls
<1> HIDE DEF q2
<1>5. Len(q2.got) = 1 /\ q2.got[1] = c
  BY <1>4
<1>6. q2.ver # All /\ ~ q2.ver > Len(vs) /\ vs # <<>>
  BY <1>1, <1>2, <1>4 DEF All
<1>7. Answered(mem, vu, q2, vs)
  BY <1>1, <1>3, <1>4, <1>5, <1>6 DEF Answered
<1> QED
  BY <1>7 DEF q2, c, vs

LEMMA GotNextValue ==
    ASSUME NEW ku, NEW vu, NEW q \in ReadCalls, NEW n \in Nat, NEW t, NEW ks,
           Seeks(mem, ku, vu, q, n, t, ks), q.key \in Keys, q.pc = "value", q.ver = All
    PROVE  /\ Len(q.got) + 1 <= At(mem, q.item).cnt =>
                 Seeks(mem, ku, vu,
                       [q EXCEPT !.got = Append(q.got, At(mem, VersionSlot(q.item, Len(q.got) + 1)))],
                       n, t, ks)
           /\ ~ Len(q.got) + 1 <= At(mem, q.item).cnt =>
                 Answered(mem, vu, Done(q, "OK"), t[q.key])
<1> DEFINE vs == t[q.key]
           next == Len(q.got) + 1
           c == At(mem, VersionSlot(q.item, next))
<1>1. /\ HasVersions(mem, vu, q.item, vs)
      /\ Len(vs) \in 1 .. MaxVer /\ vs \in Seq(Values) /\ vs # <<>>
      /\ At(mem, q.item).cnt = Len(vs)
  BY ItemSays
<1>2. HasGot(mem, vu, q.got, vs)
  BY DEF Seeks
<1> HIDE DEF vs
<1>3. q.got \in Seq(Cells) /\ Len(q.got) \in Nat /\ Len(q.got) <= Len(vs) /\ Len(vs) \in Nat
  BY <1>1, <1>2 DEF HasGot, ReadCalls
<1>4. ASSUME next <= Len(vs)
      PROVE  Seeks(mem, ku, vu, [q EXCEPT !.got = Append(q.got, c)], n, t, ks)
  <2> DEFINE got == Append(q.got, c)
             q2 == [q EXCEPT !.got = got]
  <2>1. next \in 1 .. Len(vs)
    BY <1>3, <1>4
  <2>2. PointsTo(mem, c, ValueBase, vu, vs[next])
    BY <1>1, <2>1 DEF HasVersions
  <2> HIDE DEF c
  <2>3. /\ Len(got) = next
        /\ \A j \in 1 .. Len(got) : got[j] = IF j = next THEN c ELSE q.got[j]
        /\ \A j \in 1 .. Len(got) : j # next => j \in 1 .. Len(q.got)
    BY <1>3
  <2> HIDE DEF got
  <2>4. HasGot(mem, vu, got, vs)
    <3>1. Len(got) <= Len(vs)
      BY <1>4, <2>3
    <3>2. ASSUME NEW j \in 1 .. Len(got)
          PROVE  PointsTo(mem, got[j], ValueBase, vu, vs[j])
      <4> HIDE DEF next
      <4>1. CASE j = next
        BY <2>2, <2>3, <4>1
      <4>2. CASE j # next
        BY <1>2, <2>3, <4>2 DEF HasGot
      <4> QED
        BY <4>1, <4>2
    <3> QED
      BY <3>1, <3>2 DEF HasGot
  <2>5. /\ q2.pc = "value" /\ q2.key = q.key /\ q2.base = q.base /\ q2.ver = q.ver
        /\ q2.item = q.item /\ q2.got = got
    BY DEF ReadCalls
  <2> HIDE DEF q2
  <2>6. IF q2.ver = All THEN HasGot(mem, vu, q2.got, t[q2.key]) ELSE q2.ver <= Len(t[q2.key])
    BY <2>4, <2>5 DEF vs
  <2>7. /\ IndexOf(mem, ku, vu, q2.base, n, t, ks)
        /\ \E i \in 0 .. n - 1 : ks[i] = q2.key /\ q2.item = ItemAt(q2.base, i)
    BY <2>5 DEF Seeks
  <2>8. Seeks(mem, ku, vu, q2, n, t, ks)
    BY <2>5, <2>6, <2>7 DEF Seeks
  <2> QED
    BY <2>8 DEF q2, got
<1>5. ASSUME ~ next <= Len(vs)
      PROVE  Answered(mem, vu, Done(q, "OK"), vs)
  <2> DEFINE q2 == Done(q, "OK")
  <2>1. q2.ret = "OK" /\ q2.ver = All /\ q2.got = q.got
    BY DEF Done, ReadCalls
  <2> HIDE DEF q2
  <2>2. Len(q2.got) = Len(vs)
    BY <1>3, <1>5, <2>1
  <2>3. q2.ver \notin 1 .. Len(vs) /\ ~ q2.ver > Len(vs)
    BY <1>3, <2>1 DEF All
  <2>4. Answered(mem, vu, q2, vs)
    BY <1>1, <1>2, <2>1, <2>2, <2>3 DEF Answered
  <2> QED
    BY <2>4 DEF q2
<1> QED
  BY <1>1, <1>4, <1>5 DEF vs, c, next

-----------------------------------------------------------------------------
(* The steps of a reader keep FindInv. *)

Continues(r) == \E q2 : Be(r, q2) /\ Current(q2)

(* What a step leaves of a read, and what it may show. *)
GoesOn(q, q2) ==
    /\ q2.writes = q.writes /\ q2.base = q.base /\ q2.items = q.items
    /\ Counted(q2) = Counted(q)
    /\ \A t : Sees(mem, key_section.used, value_section.used, q, Counted(q), t) =>
                  Sees(mem, key_section.used, value_section.used, q2, Counted(q), t)

LEMMA StillCurrent ==
    ASSUME NEW q, NEW q2, q.pc # "idle", GoesOn(q, q2), Current(q)
    PROVE  Current(q2)
<1> SUFFICES ASSUME q2.writes <= 1 PROVE Placed(q2) /\ Finds(q2)
  BY DEF Current
<1>1. Placed(q) /\ Finds(q)
  BY DEF Current, GoesOn
<1>2. Placed(q2)
  BY <1>1 DEF Placed, GoesOn
<1>3. Maps(q2) = Maps(q)
  BY DEF Maps, GoesOn
<1>4. Finds(q2)
  BY <1>1, <1>3, Zenon DEF Finds, GoesOn
<1> QED
  BY <1>2, <1>4

(* With no item counted that the index is without, readers find an index, *)
(* and in it what was stored or what is.                                  *)
LEMMA LiveShows ==
    ASSUME RulesInv, ~ (w.op = "add" /\ w.pc \in {"sort", "flip"})
    PROVE  /\ Index(Live, item_section.used, View)
           /\ View \in {shown, Stored}
           /\ ~ Running => View = Stored
<1>1. IndInv /\ PhaseInv /\ w.pc \in Pcs /\ w.pc # "dead"
  BY DEF RulesInv, IndInv, TypeOK, Calls, PhaseInv
<1>2. w.pc # "sort"
  BY <1>1 DEF PhaseInv, Added
<1>3. PICK s : Index(Live, item_section.used, s)
  BY <1>1, <1>2, LiveHolds
<1>4. View = s
  BY <1>1, <1>3, Reads
<1>5. ~ Running => View = Stored
  BY DEF Stored
<1>6. CASE w.pc \in {"item", "used", "value", "flip", "uncount"}
  <2>1. Adding \/ Replacing \/ Deleting
    BY <1>1, <1>6 DEF PhaseInv, Added
  <2> QED
    BY <2>1, <1>3, <1>4, <1>5, ViewInCall
<1>7. CASE w.pc = "sync"
  <2>1. Written
    BY <1>1, <1>7 DEF PhaseInv
  <2>2. View = Due
    BY <2>1, ViewInCall
  <2>3. Stored = Due
    BY <1>7 DEF Stored, Running
  <2> QED
    BY <2>2, <2>3, <1>3, <1>4, <1>5
<1>8. CASE ~ Running
  BY <1>3, <1>4, <1>5, <1>8
<1> QED
  BY <1>1, <1>2, <1>6, <1>7, <1>8 DEF Pcs, PhaseInv, Running

LEMMA TakeBaseFinds ==
    ASSUME RulesInv, NEW r \in Readers, NEW k \in Keys, NEW ver \in Asked, TakeBase(r, k, ver)
    PROVE  Continues(r)
<1> DEFINE ku == key_section.used
           vu == value_section.used
           used == item_section.used
           q2 == [NoRead EXCEPT !.pc = "used", !.key = k, !.ver = ver, !.base = Live,
                                !.writes = IF Running THEN 1 ELSE 0, !.items = Indexed]
<1>1. Be(r, q2)
  BY DEF TakeBase
<1>2. /\ q2.pc = "used" /\ q2.base = Live /\ q2.items = Indexed
      /\ q2.writes = IF Running THEN 1 ELSE 0
  BY DEF NoRead
<1> HIDE DEF q2
<1>3. used \in Nat
  BY UsedType
<1>4. ~ Running => Indexed = used
  BY <1>3 DEF Running, Indexed
<1>5. Placed(q2)
  BY <1>2, <1>4 DEF Placed
<1>6. ASSUME used <= Indexed
      PROVE  \E t \in Maps(q2) : Sees(mem, ku, vu, q2, used, t)
  <2>1. ~ (w.op = "add" /\ w.pc \in {"sort", "flip"})
    BY <1>3, <1>6 DEF Indexed
  <2>2. /\ Index(Live, used, View)
        /\ View \in {shown, Stored}
        /\ ~ Running => View = Stored
    BY <2>1, LiveShows
  <2>3. PICK ks \in [0 .. used - 1 -> Keys] : IndexOf(mem, ku, vu, Live, used, View, ks)
    BY <2>2 DEF Index, Holds
  <2>4. Seeks(mem, ku, vu, q2, used, View, ks)
    BY <1>2, <2>3 DEF Seeks
  <2>5. Sees(mem, ku, vu, q2, used, View)
    BY <1>2, <2>3, <2>4 DEF Sees
  <2>6. View \in Maps(q2)
    BY <1>2, <2>2 DEF Maps
  <2> QED
    BY <2>5, <2>6
<1>7. Counted(q2) = used
  BY <1>2 DEF Counted
<1>8. Finds(q2)
  BY <1>2, <1>6, <1>7 DEF Finds
<1> QED
  BY <1>1, <1>5, <1>8 DEF Continues, Current

LEMMA TakeUsedFinds ==
    ASSUME RulesInv, HoldInv, NEW r \in Readers, Current(reader[r]), TakeUsed(r)
    PROVE  Continues(r)
<1> DEFINE q == reader[r]
           ku == key_section.used
           vu == value_section.used
           used == item_section.used
           q2 == [q EXCEPT !.pc = "probe", !.n = used, !.high = used]
<1>1. /\ Be(r, q2) /\ q.pc = "used" /\ Current(q) /\ q \in ReadCalls /\ q.low = 0
      /\ used \in Nat
  BY UsedType DEF TakeUsed, HoldInv, ReadOK
<1> HIDE DEF q, used
<1>2. /\ q2.pc = "probe" /\ q2.writes = q.writes /\ q2.base = q.base /\ q2.items = q.items
      /\ q2.key = q.key /\ q2.n = used /\ q2.low = 0 /\ q2.high = used
  BY <1>1 DEF ReadCalls
<1> HIDE DEF q2
<1>3. Counted(q) = used /\ Counted(q2) = used
  BY <1>1, <1>2 DEF Counted, used
<1>4. ASSUME NEW t, Sees(mem, ku, vu, q, used, t)
      PROVE  Sees(mem, ku, vu, q2, used, t)
  <2>1. PICK ks \in [0 .. used - 1 -> Keys] : Seeks(mem, ku, vu, q, used, t, ks)
    BY <1>1, <1>4 DEF Sees
  <2>2. Seeks(mem, ku, vu, q2, used, t, ks)
    BY <1>1, <1>2, <2>1 DEF Seeks
  <2> QED
    BY <1>2, <2>2, <2>1 DEF Sees
<1>5. GoesOn(q, q2)
  BY <1>2, <1>3, <1>4 DEF GoesOn
<1> QED
  BY <1>1, <1>5, StillCurrent DEF Continues

(* The reads between the count and the end. *)
LEMMA Midway ==
    ASSUME HoldInv, NEW r \in Readers, NEW q, q = reader[r], q.pc \in {"probe", "check", "value"}
    PROVE  /\ q \in ReadCalls /\ q.key \in Keys /\ q.n \in Nat /\ Counted(q) = q.n
           /\ q.pc = "check" => q.got = <<>>
           /\ \A m, ku, vu, t : Sees(m, ku, vu, q, q.n, t) =>
                  \E ks \in [0 .. q.n - 1 -> Keys] : Seeks(m, ku, vu, q, q.n, t, ks)
<1>1. ReadOK(mem, value_section.used, q)
  BY DEF HoldInv
<1> QED
  BY <1>1 DEF ReadOK, ReadCalls, Counted, Sees

(* What is left of a read that ends, and of one that goes on. *)
LEMMA EndsOn ==
    ASSUME NEW q \in ReadCalls, q.pc \in {"probe", "check", "value"}, NEW q2,
           q2.writes = q.writes, q2.base = q.base, q2.items = q.items, q2.key = q.key,
           q2.n = q.n, q2.pc = "done",
           \A t, ks : Seeks(mem, key_section.used, value_section.used, q, q.n, t, ks) =>
                          Answered(mem, value_section.used, q2, t[q.key])
    PROVE  GoesOn(q, q2)
BY DEF GoesOn, Counted, Sees

LEMMA SeeksOn ==
    ASSUME NEW q \in ReadCalls, q.pc \in {"probe", "check", "value"}, NEW q2,
           q2.writes = q.writes, q2.base = q.base, q2.items = q.items, q2.key = q.key,
           q2.n = q.n, q2.pc \in {"probe", "check", "value"},
           \A t, ks : Seeks(mem, key_section.used, value_section.used, q, q.n, t, ks) =>
                          Seeks(mem, key_section.used, value_section.used, q2, q.n, t, ks)
    PROVE  GoesOn(q, q2)
BY DEF GoesOn, Counted, Sees

LEMMA ProbeFinds ==
    ASSUME RulesInv, HoldInv, NEW r \in Readers, Current(reader[r]), Probe(r)
    PROVE  Continues(r)
<1> DEFINE ku == key_section.used
           vu == value_section.used
<1>1. PICK q : q = reader[r]
  OBVIOUS
<1>2. q.pc = "probe" /\ Current(q)
  BY <1>1 DEF Probe
<1>3. q \in ReadCalls /\ q.key \in Keys /\ q.n \in Nat
  BY <1>1, <1>2, Midway
<1>4. CASE q.low >= q.high /\ Be(r, Done(q, "NOT_FOUND"))
  <2> DEFINE q2 == Done(q, "NOT_FOUND")
  <2>1. /\ q2.writes = q.writes /\ q2.base = q.base /\ q2.items = q.items /\ q2.key = q.key
        /\ q2.n = q.n /\ q2.pc = "done"
    BY <1>3 DEF Done, ReadCalls
  <2>2. ASSUME NEW t, NEW ks, Seeks(mem, ku, vu, q, q.n, t, ks)
        PROVE  Answered(mem, vu, q2, t[q.key])
    BY <1>2, <1>3, <1>4, <2>2, NotThere
  <2> HIDE DEF q2
  <2>3. GoesOn(q, q2)
    BY <1>2, <1>3, <2>1, <2>2, EndsOn
  <2> QED
    BY <1>2, <1>4, <2>3, StillCurrent DEF Continues, q2
<1>5. CASE /\ q.low < q.high /\ Compared(q) = 0
           /\ Be(r, [q EXCEPT !.pc = "check", !.item = ItemAt(q.base, Mid(q))])
  <2> DEFINE q2 == [q EXCEPT !.pc = "check", !.item = ItemAt(q.base, Mid(q))]
  <2>1. /\ q2.writes = q.writes /\ q2.base = q.base /\ q2.items = q.items /\ q2.key = q.key
        /\ q2.n = q.n /\ q2.pc = "check"
    BY <1>3 DEF ReadCalls
  <2>2. ASSUME NEW t, NEW ks, Seeks(mem, ku, vu, q, q.n, t, ks)
        PROVE  Seeks(mem, ku, vu, q2, q.n, t, ks)
    BY <1>2, <1>3, <1>5, <2>2, ProbeFound
  <2> HIDE DEF q2
  <2>3. GoesOn(q, q2)
    BY <1>2, <1>3, <2>1, <2>2, SeeksOn
  <2> QED
    BY <1>2, <1>5, <2>3, StillCurrent DEF Continues, q2
<1>6. CASE q.low < q.high /\ Compared(q) < 0 /\ Be(r, [q EXCEPT !.high = Mid(q)])
  <2> DEFINE q2 == [q EXCEPT !.high = Mid(q)]
  <2>1. /\ q2.writes = q.writes /\ q2.base = q.base /\ q2.items = q.items /\ q2.key = q.key
        /\ q2.n = q.n /\ q2.pc = "probe"
    BY <1>2, <1>3 DEF ReadCalls
  <2>2. ASSUME NEW t, NEW ks, Seeks(mem, ku, vu, q, q.n, t, ks)
        PROVE  Seeks(mem, ku, vu, q2, q.n, t, ks)
    BY <1>2, <1>3, <1>6, <2>2, ProbeLower
  <2> HIDE DEF q2
  <2>3. GoesOn(q, q2)
    BY <1>2, <1>3, <2>1, <2>2, SeeksOn
  <2> QED
    BY <1>2, <1>6, <2>3, StillCurrent DEF Continues, q2
<1>7. CASE q.low < q.high /\ Compared(q) > 0 /\ Be(r, [q EXCEPT !.low = Mid(q) + 1])
  <2> DEFINE q2 == [q EXCEPT !.low = Mid(q) + 1]
  <2>1. /\ q2.writes = q.writes /\ q2.base = q.base /\ q2.items = q.items /\ q2.key = q.key
        /\ q2.n = q.n /\ q2.pc = "probe"
    BY <1>2, <1>3 DEF ReadCalls
  <2>2. ASSUME NEW t, NEW ks, Seeks(mem, ku, vu, q, q.n, t, ks)
        PROVE  Seeks(mem, ku, vu, q2, q.n, t, ks)
    BY <1>2, <1>3, <1>7, <2>2, ProbeUpper
  <2> HIDE DEF q2
  <2>3. GoesOn(q, q2)
    BY <1>2, <1>3, <2>1, <2>2, SeeksOn
  <2> QED
    BY <1>2, <1>7, <2>3, StillCurrent DEF Continues, q2
<1> QED
  BY <1>1, <1>3, <1>4, <1>5, <1>6, <1>7, ProbeIs

LEMMA CheckItemFinds ==
    ASSUME RulesInv, HoldInv, NEW r \in Readers, Current(reader[r]), CheckItem(r)
    PROVE  Continues(r)
<1> DEFINE ku == key_section.used
           vu == value_section.used
<1>1. PICK q : q = reader[r]
  OBVIOUS
<1> DEFINE c == At(mem, q.item)
<1>2. q.pc = "check" /\ Current(q)
  BY <1>1 DEF CheckItem
<1>3. q \in ReadCalls /\ q.key \in Keys /\ q.n \in Nat /\ q.got = <<>>
  BY <1>1, <1>2, Midway
<1>4. \/ c.len = 0 /\ Be(r, Done(q, "ERROR"))
      \/ q.ver # All /\ c.cnt < q.ver /\ Be(r, Done(q, "NOT_FOUND_VALUE"))
      \/ ~ (q.ver # All /\ c.cnt < q.ver) /\ Be(r, [q EXCEPT !.pc = "value"])
  BY <1>1 DEF CheckItem
<1>5. CASE c.len = 0 /\ Be(r, Done(q, "ERROR"))
  <2> DEFINE q2 == Done(q, "ERROR")
  <2>1. /\ q2.writes = q.writes /\ q2.base = q.base /\ q2.items = q.items /\ q2.key = q.key
        /\ q2.n = q.n /\ q2.pc = "done"
    BY <1>3 DEF Done, ReadCalls
  <2>2. ASSUME NEW t, NEW ks, Seeks(mem, ku, vu, q, q.n, t, ks)
        PROVE  Answered(mem, vu, q2, t[q.key])
    BY <1>2, <1>3, <1>5, <2>2, Checked
  <2> HIDE DEF q2
  <2>3. GoesOn(q, q2)
    BY <1>2, <1>3, <2>1, <2>2, EndsOn
  <2> QED
    BY <1>2, <1>5, <2>3, StillCurrent DEF Continues, q2
<1>6. CASE q.ver # All /\ c.cnt < q.ver /\ Be(r, Done(q, "NOT_FOUND_VALUE"))
  <2> DEFINE q2 == Done(q, "NOT_FOUND_VALUE")
  <2>1. /\ q2.writes = q.writes /\ q2.base = q.base /\ q2.items = q.items /\ q2.key = q.key
        /\ q2.n = q.n /\ q2.pc = "done"
    BY <1>3 DEF Done, ReadCalls
  <2>2. ASSUME NEW t, NEW ks, Seeks(mem, ku, vu, q, q.n, t, ks)
        PROVE  Answered(mem, vu, q2, t[q.key])
    BY <1>2, <1>3, <1>6, <2>2, Checked
  <2> HIDE DEF q2
  <2>3. GoesOn(q, q2)
    BY <1>2, <1>3, <2>1, <2>2, EndsOn
  <2> QED
    BY <1>2, <1>6, <2>3, StillCurrent DEF Continues, q2
<1>7. CASE ~ (q.ver # All /\ c.cnt < q.ver) /\ Be(r, [q EXCEPT !.pc = "value"])
  <2> DEFINE q2 == [q EXCEPT !.pc = "value"]
  <2>1. /\ q2.writes = q.writes /\ q2.base = q.base /\ q2.items = q.items /\ q2.key = q.key
        /\ q2.n = q.n /\ q2.pc = "value"
    BY <1>3 DEF ReadCalls
  <2>2. ASSUME NEW t, NEW ks, Seeks(mem, ku, vu, q, q.n, t, ks)
        PROVE  Seeks(mem, ku, vu, q2, q.n, t, ks)
    BY <1>2, <1>3, <1>7, <2>2, Checked
  <2> HIDE DEF q2
  <2>3. GoesOn(q, q2)
    BY <1>2, <1>3, <2>1, <2>2, SeeksOn
  <2> QED
    BY <1>2, <1>7, <2>3, StillCurrent DEF Continues, q2
<1> QED
  BY <1>4, <1>5, <1>6, <1>7

LEMMA GetValueFinds ==
    ASSUME HoldInv, NEW r \in Readers, Current(reader[r]), GetValue(r)
    PROVE  Continues(r)
<1> DEFINE ku == key_section.used
           vu == value_section.used
<1>1. PICK q : q = reader[r]
  OBVIOUS
<1> DEFINE got == <<At(mem, VersionSlot(q.item, q.ver))>>
           q2 == Done([q EXCEPT !.got = got], "OK")
<1>2. q.pc = "value" /\ q.ver # All /\ Current(q) /\ Be(r, q2)
  BY <1>1 DEF GetValue
<1>3. q \in ReadCalls /\ q.key \in Keys /\ q.n \in Nat
  BY <1>1, <1>2, Midway
<1>4. ASSUME NEW t, NEW ks, Seeks(mem, ku, vu, q, q.n, t, ks)
      PROVE  Answered(mem, vu, q2, t[q.key])
  BY <1>2, <1>3, <1>4, GotValue
<1> HIDE DEF got
<1>5. /\ q2.writes = q.writes /\ q2.base = q.base /\ q2.items = q.items /\ q2.key = q.key
      /\ q2.n = q.n /\ q2.pc = "done"
  BY <1>3 DEF Done, ReadCalls
<1> HIDE DEF q2
<1>6. GoesOn(q, q2)
  BY <1>2, <1>3, <1>4, <1>5, EndsOn
<1> QED
  BY <1>2, <1>6, StillCurrent DEF Continues

LEMMA GetNextValueFinds ==
    ASSUME HoldInv, NEW r \in Readers, Current(reader[r]), GetNextValue(r)
    PROVE  Continues(r)
<1> DEFINE ku == key_section.used
           vu == value_section.used
<1>1. PICK q : q = reader[r]
  OBVIOUS
<1> DEFINE next == Len(q.got) + 1
           got == Append(q.got, At(mem, VersionSlot(q.item, next)))
           there == next <= At(mem, q.item).cnt
<1>2. q.pc = "value" /\ q.ver = All /\ Current(q)
  BY <1>1 DEF GetNextValue
<1>3. q \in ReadCalls /\ q.key \in Keys /\ q.n \in Nat
  BY <1>1, <1>2, Midway
<1>4. \/ there /\ Be(r, [q EXCEPT !.got = got])
      \/ ~ there /\ Be(r, Done(q, "OK"))
  BY <1>1 DEF GetNextValue
<1>5. CASE there /\ Be(r, [q EXCEPT !.got = got])
  <2> DEFINE q2 == [q EXCEPT !.got = got]
  <2>1. ASSUME NEW t, NEW ks, Seeks(mem, ku, vu, q, q.n, t, ks)
        PROVE  Seeks(mem, ku, vu, q2, q.n, t, ks)
    BY <1>2, <1>3, <1>5, <2>1, GotNextValue
  <2> HIDE DEF got
  <2>2. /\ q2.writes = q.writes /\ q2.base = q.base /\ q2.items = q.items /\ q2.key = q.key
        /\ q2.n = q.n /\ q2.pc = "value"
    BY <1>2, <1>3 DEF ReadCalls
  <2> HIDE DEF q2
  <2>3. GoesOn(q, q2)
    BY <1>2, <1>3, <2>1, <2>2, SeeksOn
  <2> QED
    BY <1>2, <1>5, <2>3, StillCurrent DEF Continues, q2
<1>6. CASE ~ there /\ Be(r, Done(q, "OK"))
  <2> DEFINE q2 == Done(q, "OK")
  <2>1. ASSUME NEW t, NEW ks, Seeks(mem, ku, vu, q, q.n, t, ks)
        PROVE  Answered(mem, vu, q2, t[q.key])
    BY <1>2, <1>3, <1>6, <2>1, GotNextValue
  <2>2. /\ q2.writes = q.writes /\ q2.base = q.base /\ q2.items = q.items /\ q2.key = q.key
        /\ q2.n = q.n /\ q2.pc = "done"
    BY <1>3 DEF Done, ReadCalls
  <2> HIDE DEF q2
  <2>3. GoesOn(q, q2)
    BY <1>2, <1>3, <2>1, <2>2, EndsOn
  <2> QED
    BY <1>2, <1>6, <2>3, StillCurrent DEF Continues, q2
<1> QED
  BY <1>4, <1>5, <1>6

(* Nothing but the reader's call changes. *)
LEMMA SameStore ==
    ASSUME UNCHANGED vars
    PROVE  /\ Live' = Live /\ Running' = Running /\ Indexed' = Indexed
           /\ BeforeFlip' = BeforeFlip /\ Stored' = Stored
<1>1. /\ item_section' = item_section /\ mem' = mem /\ w' = w /\ shown' = shown
  BY DEF vars
<1>2. View' = View
  BY <1>1, ViewStays
<1> QED
  BY <1>1, <1>2 DEF Live, Running, Indexed, BeforeFlip, Stored, Due

LEMMA CurrentStutter ==
    ASSUME UNCHANGED vars, NEW q, Current(q)
    PROVE  Current(q)'
<1>1. /\ item_section' = item_section /\ mem' = mem /\ w' = w /\ shown' = shown
      /\ key_section' = key_section /\ value_section' = value_section
  BY DEF vars
<1>2. Counted(q)' = Counted(q)
  BY <1>1 DEF Counted
<1>3. Maps(q)' = Maps(q)
  BY <1>1, SameStore DEF Maps
<1>4. Placed(q) => Placed(q)'
  BY <1>1, SameStore DEF Placed
<1>5. Finds(q) => Finds(q)'
  BY <1>1, <1>2, <1>3 DEF Finds
<1> QED
  BY <1>4, <1>5 DEF Current

LEMMA CurrentNext ==
    ASSUME NEW r, NEW q, reader'[r] = q, Current(q)'
    PROVE  Current(reader[r])'
BY DEF Current, Placed, Finds, Counted, Maps

LEMMA ReaderFinds ==
    ASSUME RulesInv, HoldInv, FindInv, NEW r \in Readers,
           (\E k \in Keys, ver \in Asked : TakeBase(r, k, ver)) \/ ReadStep(r) \/ Drop(r)
    PROVE  FindInv'
<1>1. Current(reader[r])
  BY DEF FindInv
<1>2. Continues(r)
  <2>1. CASE \E k \in Keys, ver \in Asked : TakeBase(r, k, ver)
    BY <2>1, TakeBaseFinds
  <2>2. CASE ReadStep(r)
    BY <1>1, <2>2, TakeUsedFinds, ProbeFinds, CheckItemFinds, GetValueFinds, GetNextValueFinds
       DEF ReadStep
  <2>3. CASE Drop(r)
    <3>1. NoRead.pc = "idle"
      BY DEF NoRead
    <3> QED
      BY <2>3, <3>1 DEF Drop, Continues, Current
  <2> QED
    BY <2>1, <2>2, <2>3
<1>3. PICK q2 : reader' = [reader EXCEPT ![r] = q2] /\ Current(q2)
  BY <1>2 DEF Continues, Be
<1>4. UNCHANGED vars
  BY ReaderOK
<1>5. ASSUME NEW x \in Readers
      PROVE  Current(reader[x])'
  <2>1. PICK q : q = reader'[x]
    OBVIOUS
  <2>2. q = q2 \/ q = reader[x]
    BY <1>3, <2>1 DEF HoldInv
  <2>3. Current(q)
    BY <1>3, <2>2 DEF FindInv
  <2>4. Current(q)'
    BY <1>4, <2>3, CurrentStutter
  <2> QED
    BY <2>1, <2>4, CurrentNext
<1> QED
  BY <1>5 DEF FindInv

-----------------------------------------------------------------------------
(* A write and a read that is under way: what carries over. *)

LEMMA HasGotCarry ==
    ASSUME NEW m, NEW m2, NEW vu \in Nat, NEW vu2 \in Nat, vu <= vu2,
           Copied(m, ValueBase, m2, ValueBase, vu),
           NEW got \in Seq(Cells), NEW vs \in Seq(Values), HasGot(m, vu, got, vs)
    PROVE  HasGot(m2, vu2, got, vs)
<1>1. Len(got) <= Len(vs) /\ Len(got) \in Nat /\ Len(vs) \in Nat
  BY DEF HasGot
<1>2. ASSUME NEW j \in 1 .. Len(got)
      PROVE  PointsTo(m2, got[j], ValueBase, vu2, vs[j])
  <2>1. got[j] \in Cells /\ vs[j] \in Texts
    BY <1>1 DEF Texts
  <2>2. PointsTo(m, got[j], ValueBase, vu, vs[j])
    BY DEF HasGot
  <2> QED
    BY <2>1, <2>2, PointsToCarry, BaseType
<1> QED
  BY <1>1, <1>2 DEF HasGot

LEMMA AnsweredCarry ==
    ASSUME NEW m, NEW m2, NEW vu \in Nat, NEW vu2 \in Nat, vu <= vu2,
           Copied(m, ValueBase, m2, ValueBase, vu),
           NEW q \in ReadCalls, NEW q2, q2.ver = q.ver, q2.ret = q.ret, q2.got = q.got,
           NEW vs, Answered(m, vu, q, vs)
    PROVE  Answered(m2, vu2, q2, vs)
<1>1. vs \in Seq(Values) /\ q.got \in Seq(Cells)
  BY DEF Answered, ReadCalls
<1>2. HasGot(m, vu, q.got, vs) => HasGot(m2, vu2, q.got, vs)
  BY <1>1, HasGotCarry
<1>3. ASSUME q.ver \in 1 .. Len(vs)
      PROVE  /\ q.ret = "OK" /\ Len(q.got) = 1
             /\ PointsTo(m2, q.got[1], ValueBase, vu2, vs[q.ver])
  <2>1. /\ q.ret = "OK" /\ Len(q.got) = 1
        /\ PointsTo(m, q.got[1], ValueBase, vu, vs[q.ver])
    BY <1>3 DEF Answered
  <2>2. q.got[1] \in Cells /\ vs[q.ver] \in Texts
    BY <1>1, <1>3, <2>1 DEF Texts
  <2> QED
    BY <2>1, <2>2, PointsToCarry, BaseType
<1> QED
  BY <1>1, <1>2, <1>3 DEF Answered

LEMMA SeeksCarry ==
    ASSUME NEW m \in Mem, NEW m2, NEW ku, NEW vu, NEW ku2, NEW vu2,
           TextsStay(m, ku, vu, m2, ku2, vu2),
           NEW q \in ReadCalls, NEW q2, NEW n \in Nat,
           Copied(m, q.base, m2, q.base, ItemSlots * n),
           q2.pc = q.pc, q2.key = q.key, q2.ver = q.ver, q2.base = q.base, q2.low = q.low,
           q2.high = q.high, q2.item = q.item, q2.got = q.got,
           q.key \in Keys, NEW t, NEW ks, Seeks(m, ku, vu, q, n, t, ks)
    PROVE  Seeks(m2, ku2, vu2, q2, n, t, ks)
<1>1. IndexOf(m, ku, vu, q.base, n, t, ks) /\ q.base \in Nat /\ q.got \in Seq(Cells)
  BY DEF Seeks, ReadCalls
<1>2. IndexOf(m2, ku2, vu2, q.base, n, t, ks)
  BY <1>1, IndexCarry
<1>3. t[q.key] \in Seq(Values)
  BY SeeksIs
<1>4. HasGot(m, vu, q.got, t[q.key]) => HasGot(m2, vu2, q.got, t[q.key])
  BY <1>1, <1>3, HasGotCarry DEF TextsStay
<1> QED
  BY <1>2, <1>4 DEF Seeks

LEMMA SeesCarry ==
    ASSUME NEW m \in Mem, NEW m2, NEW ku, NEW vu, NEW ku2, NEW vu2,
           TextsStay(m, ku, vu, m2, ku2, vu2),
           NEW q \in ReadCalls, NEW q2, NEW n \in Nat,
           Copied(m, q.base, m2, q.base, ItemSlots * n),
           q2.pc = q.pc, q2.key = q.key, q2.ver = q.ver, q2.base = q.base, q2.low = q.low,
           q2.high = q.high, q2.item = q.item, q2.got = q.got, q2.ret = q.ret,
           q.key \in Keys, NEW t, Sees(m, ku, vu, q, n, t)
    PROVE  Sees(m2, ku2, vu2, q2, n, t)
<1>1. CASE q.pc = "done"
  <2>1. Answered(m, vu, q, t[q.key])
    BY <1>1 DEF Sees
  <2>2. Answered(m2, vu2, q2, t[q.key])
    BY <2>1, AnsweredCarry DEF TextsStay
  <2> QED
    BY <1>1, <2>2 DEF Sees
<1>2. CASE q.pc # "done"
  <2>1. PICK ks \in [0 .. n - 1 -> Keys] : Seeks(m, ku, vu, q, n, t, ks)
    BY <1>2 DEF Sees
  <2>2. Seeks(m2, ku2, vu2, q2, n, t, ks)
    BY <2>1, SeeksCarry
  <2> QED
    BY <1>2, <2>1, <2>2 DEF Sees
<1> QED
  BY <1>1, <1>2

(* Two indexes of one map have the same last key. *)
LEMMA LastKey ==
    ASSUME NEW n \in Nat, NEW s, NEW m, NEW ku, NEW vu, NEW b, NEW ks,
           NEW c, NEW ls, IndexOf(m, ku, vu, b, n + 1, s, ks), IndexOf(m, ku, vu, c, n + 1, s, ls)
    PROVE  ks[n] = ls[n]
<1>0. (n + 1) - 1 = n /\ n \in 0 .. n
  OBVIOUS
<1>1. /\ ks \in [0 .. n -> Keys] /\ ls \in [0 .. n -> Keys]
      /\ \A i, j \in 0 .. n : i < j => Before(ks[i], ks[j])
      /\ \A i, j \in 0 .. n : i < j => Before(ls[i], ls[j])
      /\ \A k \in Keys : s[k] # <<>> => \E i \in 0 .. n : ks[i] = k
      /\ \A k \in Keys : s[k] # <<>> => \E i \in 0 .. n : ls[i] = k
  BY <1>0, Zenon DEF IndexOf
<1>2. HasVersions(m, vu, ItemAt(b, n), s[ks[n]]) /\ HasVersions(m, vu, ItemAt(c, n), s[ls[n]])
  BY <1>0, Zenon DEF IndexOf
<1>3. s[ks[n]] # <<>> /\ s[ls[n]] # <<>>
  BY <1>2 DEF HasVersions
<1>4. ks[n] \in Keys /\ ls[n] \in Keys
  BY <1>0, <1>1
<1>5. ks[n] = ls[n] \/ Before(ks[n], ls[n])
  <2>1. PICK i \in 0 .. n : ls[i] = ks[n]
    BY <1>1, <1>3, <1>4
  <2> QED
    BY <1>0, <1>1, <2>1
<1>6. ls[n] = ks[n] \/ Before(ls[n], ks[n])
  <2>1. PICK i \in 0 .. n : ks[i] = ls[n]
    BY <1>1, <1>3, <1>4
  <2> QED
    BY <1>0, <1>1, <2>1
<1> QED
  BY <1>4, <1>5, <1>6, BeforeOrders

-----------------------------------------------------------------------------
(* What the steps of the writer mean to a read. *)

(* The steps within a call. *)
Inner ==
    \/ AppendKey \/ AppendValue \/ CountItem \/ SortItem \/ SortNoMemory
    \/ FlipItems \/ UncountItem

(* The end of a call and what happens between two. *)
Quiet == Sync \/ Get(1) \/ TakeTurn \/ Fini \/ Kill \/ InitAgain

LEMMA WriterSteps ==
    ASSUME RulesInv, CallersKeepToRules, Next, ~ Begins
    PROVE  Inner \/ Quiet
BY NoFailure DEF RulesInv, Next, Step, Begins, Inner, Quiet

LEMMA InnerMoves ==
    ASSUME RulesInv, Inner
    PROVE  /\ Running /\ w.pc # "sync" /\ Running'
           /\ shown' = shown
           /\ w'.op = w.op /\ w'.key = w.key
           /\ BeforeFlip' => BeforeFlip /\ Live' = Live
           /\ BeforeFlip' \/ w'.pc = "uncount" =>
                 (BeforeFlip \/ w.pc = "uncount") /\ Indexed' = Indexed
<1>1. IndInv /\ PhaseInv /\ w \in Calls /\ item_section \in Sections
  BY DEF RulesInv, IndInv, TypeOK
<1>2. item_section.used \in Nat
  BY <1>1 DEF Sections
<1>3. CASE AppendKey
  <2>1. /\ w.pc = "item" /\ w'.pc = "value" /\ w'.op = w.op /\ w'.key = w.key
        /\ item_section' = item_section /\ shown' = shown
    BY <1>1, <1>3 DEF AppendKey, WriteKey, history, Calls
  <2> QED
    BY <2>1 DEF Running, BeforeFlip, Live, Indexed
<1>4. CASE AppendValue
  <2>1. /\ w.pc = "value" /\ Goto(IF w.op = "add" THEN "used" ELSE "flip")
        /\ item_section' = item_section /\ shown' = shown
    BY <1>4 DEF AppendValue, WriteValue, history
  <2>2. /\ w'.pc = (IF w.op = "add" THEN "used" ELSE "flip")
        /\ w'.op = w.op /\ w'.key = w.key
    BY <1>1, <2>1, GotoType DEF SameCall, Pcs
  <2> QED
    BY <2>1, <2>2 DEF Running, BeforeFlip, Live, Indexed
<1>5. CASE CountItem
  <2>1. /\ w.pc = "used" /\ Goto("sort") /\ shown' = shown
        /\ item_section' = [item_section EXCEPT !.used = @ + 1]
    BY <1>5 DEF CountItem, history
  <2>2. w'.pc = "sort" /\ w'.op = w.op /\ w'.key = w.key
    BY <1>1, <2>1, GotoType DEF SameCall, Pcs
  <2>3. /\ item_section'.used = item_section.used + 1
        /\ item_section'.id = item_section.id
        /\ item_section'.sec1 = item_section.sec1 /\ item_section'.sec2 = item_section.sec2
    BY <1>1, <2>1 DEF Sections
  <2>4. w.op = "add"
    BY <1>1, <2>1 DEF PhaseInv, Adding
  <2>5. Live' = Live
    BY <2>3 DEF Live, LiveBase
  <2>6. Indexed' = Indexed
    BY <1>2, <2>1, <2>2, <2>3, <2>4 DEF Indexed
  <2> QED
    BY <2>1, <2>2, <2>5, <2>6 DEF Running, BeforeFlip
<1>6. CASE SortItem \/ SortNoMemory
  <2>1. w.pc = "sort" /\ Goto("flip") /\ shown' = shown /\ item_section' = item_section
    BY <1>6 DEF SortItem, SortNoMemory, header, history
  <2>2. w'.pc = "flip" /\ w'.op = w.op /\ w'.key = w.key
    BY <1>1, <2>1, GotoType DEF SameCall, Pcs
  <2> QED
    BY <2>1, <2>2 DEF Running, BeforeFlip, Live, Indexed
<1>7. CASE FlipItems
  <2>1. /\ w.pc = "flip" /\ Goto(IF w.op = "del" THEN "uncount" ELSE "sync")
        /\ shown' = shown /\ item_section' = Flip(item_section)
    BY <1>7 DEF FlipItems, history
  <2>2. /\ w'.pc = (IF w.op = "del" THEN "uncount" ELSE "sync")
        /\ w'.op = w.op /\ w'.key = w.key
    BY <1>1, <2>1, GotoType DEF SameCall, Pcs
  <2>3. item_section'.used = item_section.used
    BY <1>1, <2>1 DEF Flip, Sections
  <2>4. w.op = "del" => Indexed' = Indexed
    BY <2>2, <2>3 DEF Indexed
  <2> QED
    BY <2>1, <2>2, <2>4 DEF Running, BeforeFlip
<1>8. CASE UncountItem
  <2>1. w.pc = "uncount" /\ Goto("sync") /\ shown' = shown
    BY <1>8 DEF UncountItem, history
  <2>2. w'.pc = "sync" /\ w'.op = w.op /\ w'.key = w.key
    BY <1>1, <2>1, GotoType DEF SameCall, Pcs
  <2> QED
    BY <2>1, <2>2 DEF Running, BeforeFlip
<1> QED
  BY <1>3, <1>4, <1>5, <1>6, <1>7, <1>8 DEF Inner

LEMMA QuietMoves ==
    ASSUME RulesInv, CallersKeepToRules, Quiet
    PROVE  /\ UNCHANGED <<header, mem>>
           /\ shown' = shown /\ ~ Running'
           /\ Stored \in {shown', Stored'}
           /\ ~ Running => Stored' = Stored
<1>1. IndInv /\ PhaseInv /\ w.pc \in Pcs
  BY DEF RulesInv, IndInv, TypeOK, Calls
<1>2. UNCHANGED <<header, mem>> /\ View' = View
  BY QuietRules, ViewStays DEF header, Quiet
<1>3. ~ Running'
  <2>1. CASE Sync \/ InitAgain
    BY <2>1, ReturnType DEF Sync, InitAgain, Codes, Running
  <2>2. CASE Fini \/ Kill
    BY <2>2, GoneType DEF Fini, Kill, Running
  <2>3. CASE Get(1) \/ TakeTurn
    BY <2>3 DEF Get, TakeTurn, Running
  <2> QED
    BY <2>1, <2>2, <2>3 DEF Quiet
<1>4. shown' = shown
  BY DEF Quiet, Sync, Get, TakeTurn, Fini, Kill, InitAgain, history
<1>5. Stored' = View
  BY <1>2, <1>3 DEF Stored
<1>6. CASE ~ Running
  BY <1>2, <1>3, <1>4, <1>5, <1>6 DEF Stored
<1>7. CASE w.pc = "sync"
  <2>1. Written
    BY <1>1, <1>7 DEF PhaseInv
  <2>2. View = Due /\ Stored = Due /\ Running
    BY <1>7, <2>1, ViewInCall DEF Stored, Running
  <2> QED
    BY <1>2, <1>3, <1>4, <1>5, <2>2
<1>8. CASE Running /\ w.pc # "sync"
  BY <1>2, <1>3, <1>4, <1>8 DEF Stored
<1> QED
  BY <1>6, <1>7, <1>8

(* A quiet step leaves the index and the counts, and no call under way. *)
LEMMA QuietPlaces ==
    ASSUME RulesInv, CallersKeepToRules, Quiet
    PROVE  /\ Live' = Live /\ item_section' = item_section
           /\ ~ BeforeFlip' /\ w'.pc # "uncount"
<1>1. UNCHANGED <<header, mem>> /\ ~ Running'
  BY QuietMoves
<1> QED
  BY <1>1 DEF header, Live, BeforeFlip, Running

LEMMA PlacedStays ==
    ASSUME RulesInv, CallersKeepToRules, Inner \/ Quiet, NEW q, Placed(q)
    PROVE  Placed(q)'
<1>1. CASE Inner
  <2>1. q.writes # 0
    BY <1>1, InnerMoves DEF Placed
  <2>2. q.writes = 1 /\ BeforeFlip' => q.base = Live'
    BY <1>1, InnerMoves DEF Placed
  <2>3. q.writes = 1 /\ (BeforeFlip' \/ w'.pc = "uncount") => q.items = Indexed'
    BY <1>1, InnerMoves DEF Placed
  <2> QED
    BY <2>1, <2>2, <2>3 DEF Placed
<1>2. CASE Quiet
  BY <1>2, QuietPlaces, QuietMoves DEF Placed
<1> QED
  BY <1>1, <1>2

LEMMA MapsStay ==
    ASSUME RulesInv, CallersKeepToRules, Inner \/ Quiet, NEW q, Placed(q), q.writes \in {0, 1},
           NEW t, t \in Maps(q)
    PROVE  t \in Maps(q)'
<1>1. CASE Inner
  <2>1. q.writes = 1
    BY <1>1, InnerMoves DEF Placed
  <2>2. Stored = shown
    BY <1>1, InnerMoves DEF Stored
  <2>3. t = shown'
    BY <1>1, <2>1, <2>2, InnerMoves DEF Maps
  <2> QED
    BY <2>1, <2>3 DEF Maps
<1>2. CASE Quiet
  <2>1. CASE q.writes = 0
    <3>1. ~ Running
      BY <2>1 DEF Placed
    <3> QED
      BY <1>2, <2>1, <3>1, QuietMoves DEF Maps
  <2>2. CASE q.writes = 1
    BY <1>2, <2>2, QuietMoves DEF Maps
  <2> QED
    BY <2>1, <2>2
<1> QED
  BY <1>1, <1>2

LEMMA CopiedLess ==
    ASSUME NEW m, NEW m2, NEW b, NEW c, NEW u \in Nat, NEW n \in 0 .. u,
           Copied(m, b, m2, c, ItemSlots * u)
    PROVE  Copied(m, b, m2, c, ItemSlots * n)
<1>1. ItemSlots \in Nat
  BY LayoutType
<1>2. ItemSlots * u = ItemSlots * n + ItemSlots * (u - n)
  BY <1>1
<1>3. ItemSlots * (u - n) \in Nat /\ ItemSlots * n \in Nat
  BY <1>1
<1> DEFINE x == ItemSlots * u
           y == ItemSlots * n
           z == ItemSlots * (u - n)
<1> HIDE DEF x, y, z
<1>4. x = y + z /\ z \in Nat /\ y \in Nat
  BY <1>2, <1>3 DEF x, y, z
<1>5. \A i \in 0 .. y - 1 : i \in 0 .. x - 1
  BY <1>4
<1>6. \A i \in 0 .. x - 1 : At(m2, c + i) = At(m, b + i)
  BY DEF Copied, x
<1> QED
  BY <1>5, <1>6 DEF Copied, y

(* A write to the areas, in the index that the read is not in. *)
LEMMA AppendFinds ==
    ASSUME RulesInv, CallersKeepToRules, AppendKey \/ AppendValue, NEW q \in ReadCalls,
           q.key \in Keys, q.writes \in {0, 1}, Placed(q), Finds(q)
    PROVE  Finds(q)'
<1> DEFINE used == item_section.used
           n == Counted(q)
<1>1. Inner /\ Next
  BY DEF Inner, Next, Step
<1>2. BeforeFlip /\ Indexed = used /\ item_section' = item_section
  BY UsedType DEF AppendKey, WriteKey, AppendValue, WriteValue, BeforeFlip, Indexed
<1>3. q.writes = 1 /\ q.base = Live /\ q.items = used
  BY <1>1, <1>2, InnerMoves DEF Placed
<1>4. Counted(q)' = n /\ n \in Nat
  BY <1>2, UsedType DEF Counted, ReadCalls
<1>5. ASSUME n <= q.items
      PROVE  \E t \in Maps(q)' :
                Sees(mem', key_section'.used, value_section'.used, q, n, t)
  <2>1. PICK t \in Maps(q) : Sees(mem, key_section.used, value_section.used, q, n, t)
    BY <1>5 DEF Finds
  <2>2. t \in Maps(q)'
    BY <1>1, <2>1, MapsStay
  <2>3. /\ TextsStay(mem, key_section.used, value_section.used,
                     mem', key_section'.used, value_section'.used)
        /\ Copied(mem, Live, mem', Live, ItemSlots * used)
    BY <1>1, StepRules DEF CurrentStays
  <2>4. n \in 0 .. used /\ used \in Nat /\ mem \in Mem
    BY <1>3, <1>4, <1>5, UsedType
  <2> HIDE DEF n, used
  <2>5. Copied(mem, q.base, mem', q.base, ItemSlots * n)
    BY <1>3, <2>3, <2>4, CopiedLess
  <2>6. Sees(mem', key_section'.used, value_section'.used, q, n, t)
    BY <2>1, <2>3, <2>4, <2>5, SeesCarry
  <2> QED
    BY <2>2, <2>6
<1> QED
  BY <1>4, <1>5 DEF Finds

(* The item that is taken off the count leaves an index of what is then stored. *)
LEMMA UncountFinds ==
    ASSUME RulesInv, UncountItem, NEW q \in ReadCalls, q.pc = "used",
           q.key \in Keys, q.writes \in {0, 1}, Placed(q), Finds(q)
    PROVE  Finds(q)'
<1> DEFINE n == item_section.used - 1
           ku == key_section.used
           vu == value_section.used
           t == KV!Without(shown, w.key)
<1>1. /\ w.pc = "uncount" /\ Inner
      /\ item_section' = [item_section EXCEPT !.used = @ - 1]
      /\ key_section' = key_section /\ value_section' = value_section /\ mem' = mem
      /\ shown' = shown /\ Goto("sync")
  BY DEF UncountItem, Inner, ctx, history
<1>2. Deleting /\ w \in Calls /\ item_section \in Sections
  BY <1>1 DEF RulesInv, PhaseInv, IndInv, TypeOK
<1>3. /\ w.op = "del" /\ item_section.used \in Nat
      /\ n \in Nat /\ n + 1 = item_section.used
      /\ IndexWith(Live, item_section.used, shown, n, w.key)
  BY <1>1, <1>2, UsedType DEF Deleting
<1>4. q.writes = 1 /\ q.items = item_section.used
  BY <1>1, <1>3, InnerMoves DEF Placed, Indexed
<1>5. Counted(q) = item_section.used /\ Counted(q)' = n
  BY <1>1, <1>2 DEF Counted, Sections
<1>6. Maps(q) = {shown}
  BY <1>1, <1>4, InnerMoves DEF Maps, Stored
<1>7. PICK ks : Seeks(mem, ku, vu, q, item_section.used, shown, ks)
  <2>1. Sees(mem, ku, vu, q, item_section.used, shown)
    BY <1>3, <1>4, <1>5, <1>6 DEF Finds
  <2> QED
    BY <2>1 DEF Sees
<1> HIDE DEF n
<1>8. IndexOf(mem, ku, vu, q.base, n + 1, shown, ks)
  BY <1>3, <1>7 DEF Seeks
<1>9. PICK ls : /\ ls[n] = w.key
                /\ IndexOf(mem, ku, vu, Live, n + 1, shown, ls)
  BY <1>3 DEF IndexWith
<1>10. ks[n] = w.key
  BY <1>3, <1>8, <1>9, LastKey
<1>11. Holds(mem, ku, vu, q.base, n, t)
  BY <1>3, <1>8, <1>10, IndexDropped
<1>12. Sees(mem, ku, vu, q, n, t)
  <2> HIDE DEF t
  <2>1. PICK js \in [0 .. n - 1 -> Keys] : IndexOf(mem, ku, vu, q.base, n, t, js)
    BY <1>11 DEF Holds
  <2>2. Seeks(mem, ku, vu, q, n, t, js)
    BY <2>1 DEF Seeks
  <2> QED
    BY <2>1, <2>2 DEF Sees
<1>13. w'.pc = "sync" /\ w'.op = "del" /\ w'.key = w.key
  BY <1>1, <1>2, <1>3, GotoType DEF SameCall, Pcs
<1>14. Stored' = t
  BY <1>1, <1>13 DEF Stored, Running, Due
<1>15. t \in Maps(q)'
  BY <1>4, <1>14 DEF Maps
<1>16. Sees(mem', key_section'.used, value_section'.used, q, n, t)
  BY <1>1, <1>12
<1> HIDE DEF t
<1> QED
  BY <1>5, <1>15, <1>16 DEF Finds

(* A step that writes nothing, when the read has counted already or the step *)
(* changes no count.                                                         *)
LEMMA QuietFinds ==
    ASSUME RulesInv, CallersKeepToRules, Inner \/ Quiet, NEW q, q.writes \in {0, 1},
           UNCHANGED <<mem, key_section, value_section>>, Counted(q)' = Counted(q),
           Placed(q), Finds(q)
    PROVE  Finds(q)'
<1>1. \A t : t \in Maps(q) => t \in Maps(q)'
  BY MapsStay
<1> QED
  BY <1>1 DEF Finds

LEMMA FindsStay ==
    ASSUME RulesInv, CallersKeepToRules, Next, ~ Begins, NEW q \in ReadCalls,
           q.key \in Keys, q.writes \in {0, 1}, Placed(q), Finds(q)
    PROVE  Finds(q)'
<1>1. Inner \/ Quiet
  BY WriterSteps
<1>2. CASE AppendKey \/ AppendValue
  BY <1>2, AppendFinds
<1>3. CASE q.pc = "used" /\ CountItem
  <2>1. /\ w.pc = "used" /\ Inner
        /\ item_section' = [item_section EXCEPT !.used = @ + 1]
    BY <1>3 DEF CountItem, Inner
  <2>2. item_section \in Sections /\ item_section.used \in Nat
    BY UsedType DEF RulesInv, IndInv, TypeOK
  <2>3. Indexed = item_section.used /\ BeforeFlip
    BY <2>1, <2>2 DEF Indexed, BeforeFlip
  <2>4. q.items = item_section.used
    BY <2>1, <2>3, InnerMoves DEF Placed
  <2>5. Counted(q)' = item_section.used + 1
    BY <1>3, <2>1, <2>2 DEF Counted, Sections
  <2>6. ~ Counted(q)' <= q.items
    BY <2>2, <2>4, <2>5
  <2> QED
    BY <2>6 DEF Finds
<1>4. CASE q.pc = "used" /\ UncountItem
  BY <1>4, UncountFinds
<1>5. CASE ~ (AppendKey \/ AppendValue) /\ ~ (q.pc = "used" /\ (CountItem \/ UncountItem))
  <2>1. UNCHANGED <<mem, key_section, value_section>>
    BY <1>5, OtherSteps
  <2>2. q.pc = "used" => item_section'.used = item_section.used
    <3>1. CASE SortItem \/ SortNoMemory
      BY <3>1 DEF SortItem, SortNoMemory, header
    <3>2. CASE FlipItems
      BY <3>2 DEF FlipItems, Flip, RulesInv, IndInv, TypeOK, Sections
    <3>3. CASE Quiet
      BY <3>3, QuietPlaces
    <3> QED
      BY <1>1, <1>5, <3>1, <3>2, <3>3 DEF Inner
  <2>3. Counted(q)' = Counted(q)
    BY <2>2 DEF Counted
  <2> QED
    BY <1>1, <2>1, <2>3, QuietFinds
<1> QED
  BY <1>2, <1>3, <1>4, <1>5

(* A step of a call, and one between two, leave a read that is under way. *)
LEMMA OnceCurrent ==
    ASSUME RulesInv, CallersKeepToRules, Next, ~ Begins, NEW q \in ReadCalls,
           q.pc # "idle" => q.key \in Keys, Current(q)
    PROVE  Current(q)'
<1> SUFFICES ASSUME q.pc # "idle", q.writes <= 1
             PROVE  Placed(q)' /\ Finds(q)'
  BY DEF Current
<1>1. q.writes \in {0, 1} /\ Placed(q) /\ Finds(q) /\ q.key \in Keys
  BY DEF Current, ReadCalls
<1>2. Inner \/ Quiet
  BY WriterSteps
<1> QED
  BY <1>1, <1>2, PlacedStays, FindsStay

(* What the begin of a call is to a read that no write has overlapped yet. *)
LEMMA BeginMoves ==
    ASSUME RulesInv, CallersKeepToRules, Begins
    PROVE  /\ ~ Running /\ UNCHANGED header /\ shown' = View /\ Live' = Live
           /\ w'.pc # "uncount"
           /\ Indexed' = item_section.used
<1>1. Begin /\ w' \in Calls
  <2>1. w' \in Calls
    <3>1. IndInv'
      BY NextIndInv DEF RulesInv, Begins, Next
    <3> QED
      BY <3>1 DEF IndInv, TypeOK
  <2> QED
    BY <2>1 DEF Begins, DelMissing, DelExisting, SetNew, SetExisting
<1>2. w.pc = "idle" /\ UNCHANGED header /\ shown' = View
  BY <1>1 DEF Begin
<1>3. w'.pc \in {"item", "value", "flip", "idle"} /\ (w'.pc = "flip" => w'.op = "del")
  <2>1. CASE \E k \in Keys : DelMissing(k)
    BY <2>1, ReturnType DEF DelMissing, Codes
  <2>2. CASE \E k \in Keys : DelExisting(k)
    <3>1. PICK p, k : w' = Call("flip", "del", k, NoText, p)
      BY <2>2 DEF DelExisting
    <3> QED
      BY <3>1 DEF Call
  <2>3. CASE \E k \in Keys, v \in Values : SetNew(k, v)
    <3>1. PICK p, k, v : w' = Call("item", "add", k, v, p)
      BY <2>3 DEF SetNew
    <3> QED
      BY <3>1 DEF Call
  <2>4. CASE \E k \in Keys, v \in Values : SetExisting(k, v)
    <3>1. PICK p, k, v : w' = Call("value", "replace", k, v, p)
      BY <2>4 DEF SetExisting
    <3> QED
      BY <3>1 DEF Call
  <2> QED
    BY <2>1, <2>2, <2>3, <2>4 DEF Begins
<1>4. item_section' = item_section /\ item_section.used \in Nat
  BY <1>2, UsedType DEF header
<1>5. Indexed' = item_section.used
  BY <1>3, <1>4 DEF Indexed
<1> QED
  BY <1>2, <1>3, <1>4, <1>5 DEF Live, Running

LEMMA BeginCurrent ==
    ASSUME RulesInv, CallersKeepToRules, Begins, NEW q \in ReadCalls, q.pc # "idle",
           q.key \in Keys, q.writes = 0, Current(q)
    PROVE  Current([q EXCEPT !.writes = @ + 1])'
<1> DEFINE used == item_section.used
           n == Counted(q)
           q2 == [q EXCEPT !.writes = @ + 1]
<1>1. /\ q2.writes = 1 /\ q2.pc = q.pc /\ q2.key = q.key /\ q2.ver = q.ver /\ q2.base = q.base
      /\ q2.low = q.low /\ q2.high = q.high /\ q2.item = q.item /\ q2.got = q.got
      /\ q2.ret = q.ret /\ q2.n = q.n /\ q2.items = q.items
  BY DEF ReadCalls
<1> HIDE DEF q2
<1>2. /\ ~ Running /\ UNCHANGED header /\ shown' = View /\ Live' = Live
      /\ Indexed' = item_section.used
  BY BeginMoves
<1>3. item_section' = item_section /\ Next
  BY <1>2 DEF header, Begins, Next
<1>4. Placed(q) /\ Finds(q)
  BY DEF Current
<1>5. q.base = Live /\ q.items = used
  BY <1>4 DEF Placed
<1>6. Placed(q2)'
  BY <1>1, <1>2, <1>5 DEF Placed
<1>7. Counted(q2)' = n /\ n \in Nat
  BY <1>1, <1>3, UsedType DEF Counted, ReadCalls
<1>8. ASSUME n <= q.items
      PROVE  \E t \in Maps(q2)' :
                Sees(mem', key_section'.used, value_section'.used, q2, n, t)
  <2>1. PICK t \in Maps(q) : Sees(mem, key_section.used, value_section.used, q, n, t)
    BY <1>4, <1>8 DEF Finds
  <2>2. t = View
    BY <1>2, <2>1 DEF Maps, Stored
  <2>3. t \in Maps(q2)'
    BY <1>1, <1>2, <2>2 DEF Maps
  <2>4. /\ TextsStay(mem, key_section.used, value_section.used,
                     mem', key_section'.used, value_section'.used)
        /\ Copied(mem, Live, mem', Live, ItemSlots * used)
    BY <1>3, StepRules DEF CurrentStays
  <2>5. n \in 0 .. used /\ used \in Nat /\ mem \in Mem
    BY <1>5, <1>7, <1>8, UsedType
  <2> HIDE DEF n, used
  <2>6. Copied(mem, q.base, mem', q.base, ItemSlots * n)
    BY <1>5, <2>4, <2>5, CopiedLess
  <2>7. Sees(mem', key_section'.used, value_section'.used, q2, n, t)
    BY <1>1, <2>1, <2>4, <2>5, <2>6, SeesCarry
  <2> QED
    BY <2>3, <2>7
<1>9. Finds(q2)'
  BY <1>1, <1>7, <1>8 DEF Finds
<1>10. Current(q2)'
  BY <1>6, <1>9 DEF Current
<1> QED
  BY <1>10 DEF q2

LEMMA WriteFinds ==
    ASSUME RulesInv, CallersKeepToRules, HoldInv, FindInv, Write
    PROVE  FindInv'
<1>1. Next
  BY DEF Write
<1>2. ASSUME NEW r \in Readers
      PROVE  Current(reader[r])'
  <2>1. PICK q : q = reader[r]
    OBVIOUS
  <2>2. PICK q2 : q2 = reader'[r]
    OBVIOUS
  <2>3. q \in ReadCalls /\ (q.pc # "idle" => q.key \in Keys) /\ Current(q)
    BY <2>1 DEF HoldInv, ReadOK, FindInv
  <2>4. q2 = IF calls' = calls \/ q.pc = "idle" \/ q.writes = Two
             THEN q ELSE [q EXCEPT !.writes = @ + 1]
    BY <2>1, <2>2 DEF Write
  <2>5. CASE calls' = calls
    <3>1. q2 = q /\ ~ Begins
      BY <1>1, <2>4, <2>5, BeginsWhen
    <3>2. Current(q)'
      BY <1>1, <2>3, <3>1, OnceCurrent
    <3> QED
      BY <2>2, <3>1, <3>2, CurrentNext
  <2>6. CASE calls' # calls /\ (q.pc = "idle" \/ q.writes >= 1)
    <3>1. q2.pc = "idle" \/ ~ q2.writes <= 1
      <4>1. CASE q.pc = "idle" \/ q.writes = Two
        BY <2>4, <2>6, <4>1 DEF Two
      <4>2. CASE q.pc # "idle" /\ q.writes # Two
        BY <2>3, <2>4, <2>6, <4>2 DEF Two, ReadCalls
      <4> QED
        BY <4>1, <4>2
    <3>2. Current(q2)'
      BY <3>1 DEF Current
    <3> QED
      BY <2>2, <3>2, CurrentNext
  <2>7. CASE calls' # calls /\ q.pc # "idle" /\ q.writes = 0
    <3>1. Begins
      BY <1>1, <2>7, BeginsWhen
    <3>2. q2 = [q EXCEPT !.writes = @ + 1]
      BY <2>4, <2>7 DEF Two
    <3>3. Current(q2)'
      BY <2>3, <2>7, <3>1, <3>2, BeginCurrent
    <3> QED
      BY <2>2, <3>3, CurrentNext
  <2> QED
    BY <2>3, <2>5, <2>6, <2>7 DEF ReadCalls
<1> QED
  BY <1>2 DEF FindInv

LEMMA NextFinds ==
    ASSUME CallersKeepToRules
    PROVE  (RulesInv /\ HoldInv) /\ FindInv /\ [ReadersNext]_allVars => FindInv'
<1> SUFFICES ASSUME RulesInv, HoldInv, FindInv, [ReadersNext]_allVars PROVE FindInv'
  OBVIOUS
<1>1. CASE Write
  BY <1>1, WriteFinds
<1>2. CASE \E r \in Readers : \/ \E k \in Keys, ver \in Asked : TakeBase(r, k, ver)
                              \/ ReadStep(r)
                              \/ Drop(r)
  BY <1>2, ReaderFinds
<1>3. CASE UNCHANGED allVars
  <2>1. UNCHANGED vars /\ reader' = reader
    BY <1>3 DEF allVars
  <2>2. ASSUME NEW r \in Readers
        PROVE  Current(reader[r])'
    <3>1. PICK q : q = reader[r]
      OBVIOUS
    <3>2. Current(q)'
      BY <2>1, <3>1, CurrentStutter DEF FindInv
    <3> QED
      BY <2>1, <3>1, <3>2, CurrentNext
  <2> QED
    BY <2>2 DEF FindInv
<1> QED
  BY <1>1, <1>2, <1>3 DEF ReadersNext

LEMMA SpecFinds ==
    ASSUME CallersKeepToRules
    PROVE  ReadersSpec => []FindInv
<1>1. ReadersInit => FindInv
  <2>1. NoRead.pc = "idle"
    BY DEF NoRead
  <2> QED
    BY <2>1 DEF ReadersInit, FindInv, Current
<1> QED
  BY <1>1, NextFinds, SpecHold, PTL DEF ReadersSpec

-----------------------------------------------------------------------------
(* The answer of a read, as a caller sees it. *)
LEMMA AnswersIs ==
    ASSUME NEW vu, NEW q \in ReadCalls, NEW s, Answered(mem, vu, q, s)
    PROVE  Answers(q, s)
<1> DEFINE texts == [i \in DOMAIN q.got |-> Bytes(q.got[i])]
           all == q.ret = "OK" /\ texts = s
           one == q.ret = "OK" /\ texts = <<s[q.ver]>>
<1>0. Answers(q, s) =
          CASE s = <<>>                   -> q.ret = "NOT_FOUND"
            [] s # <<>> /\ q.ver = All    -> all
            [] q.ver \in 1 .. Len(s)      -> one
            [] s # <<>> /\ q.ver > Len(s) -> q.ret = "NOT_FOUND_VALUE"
  BY Zenon DEF Answers
<1>1. s \in Seq(Values) /\ q.got \in Seq(Cells) /\ q.ver \in Nat
  BY LayoutAssumption DEF Answered, ReadCalls, All
<1>2. Len(q.got) \in Nat /\ DOMAIN q.got = 1 .. Len(q.got) /\ Len(s) \in Nat
  BY <1>1
<1>3. CASE s = <<>>
  BY <1>3 DEF Answered, Answers
<1>4. CASE s # <<>> /\ q.ver = All
  <2>1. q.ret = "OK" /\ Len(q.got) = Len(s) /\ HasGot(mem, vu, q.got, s)
    BY <1>4 DEF Answered
  <2>2. ASSUME NEW i \in 1 .. Len(s)
        PROVE  Bytes(q.got[i]) = s[i]
    <3>1. PointsTo(mem, q.got[i], ValueBase, vu, s[i])
      BY <2>1 DEF HasGot
    <3>2. s[i] \in Texts
      BY <1>1 DEF Texts
    <3> QED
      BY <3>1, <3>2, BytesIs
  <2>3. s = [i \in 1 .. Len(s) |-> s[i]]
    BY <1>1
  <2>4. texts = s
    BY <1>2, <2>1, <2>2, <2>3, Zenon
  <2>5. all
    BY <2>1, <2>4
  <2>6. q.ver \notin 1 .. Len(s) /\ ~ q.ver > Len(s)
    BY <1>2, <1>4 DEF All
  <2> HIDE DEF all, one
  <2> QED
    BY <1>0, <1>4, <2>5, <2>6
<1>5. CASE q.ver \in 1 .. Len(s)
  <2>1. /\ q.ret = "OK" /\ Len(q.got) = 1
        /\ PointsTo(mem, q.got[1], ValueBase, vu, s[q.ver])
    BY <1>5 DEF Answered
  <2>2. s[q.ver] \in Texts
    BY <1>1, <1>5 DEF Texts
  <2>3. Bytes(q.got[1]) = s[q.ver]
    BY <2>1, <2>2, BytesIs
  <2>4. texts = <<s[q.ver]>>
    BY <1>2, <2>1, <2>3
  <2>5. one /\ s # <<>> /\ q.ver # All
    BY <1>2, <1>5, <2>1, <2>4 DEF All
  <2> HIDE DEF all, one
  <2> QED
    BY <1>0, <1>5, <2>5
<1>6. CASE s # <<>> /\ q.ver > Len(s)
  <2>1. q.ret = "NOT_FOUND_VALUE"
    BY <1>6 DEF Answered
  <2>2. q.ver # All /\ q.ver \notin 1 .. Len(s)
    BY <1>1, <1>2, <1>6 DEF All
  <2> QED
    BY <1>6, <2>1, <2>2 DEF Answers
<1> QED
  BY <1>1, <1>2, <1>3, <1>4, <1>5, <1>6 DEF All

(* What a lock-free read returns: for callers that keep to the rules one    *)
(* that no write overlaps returns what is stored, and one that a single     *)
(* write overlaps, wherever its loads fall between the write's stores, all  *)
(* of what was stored before that write or all of what is stored after it,  *)
(* unless it counts an item that its index is without.                      *)
THEOREM ReadersGetCurrent ==
    ASSUME CallersKeepToRules
    PROVE  ReadersSpec => []ReadsCurrent
<1>1. (RulesInv /\ HoldInv) /\ FindInv => ReadsCurrent
  <2> SUFFICES ASSUME RulesInv, HoldInv, FindInv, NEW r \in Readers,
                      reader[r].pc = "done", reader[r].n <= reader[r].items
               PROVE  ReturnsCurrent(reader[r])
    BY DEF ReadsCurrent
  <2>1. PICK q : q = reader[r]
    OBVIOUS
  <2>2. q \in ReadCalls /\ Current(q) /\ q.pc = "done" /\ q.n <= q.items
    BY <2>1 DEF HoldInv, FindInv
  <2>3. ASSUME q.writes <= 1
        PROVE  Placed(q) /\ \E t \in Maps(q) : Answers(q, t[q.key])
    <3>1. Placed(q) /\ Finds(q)
      BY <2>2, <2>3 DEF Current
    <3>2. Counted(q) = q.n
      BY <2>2 DEF Counted
    <3>3. PICK t \in Maps(q) : Sees(mem, key_section.used, value_section.used, q, q.n, t)
      BY <2>2, <3>1, <3>2 DEF Finds
    <3>4. Answered(mem, value_section.used, q, t[q.key])
      BY <2>2, <3>3 DEF Sees
    <3>5. Answers(q, t[q.key])
      BY <2>2, <3>4, AnswersIs
    <3> QED
      BY <3>1, <3>5
  <2>4. ASSUME q.writes = 0
        PROVE  Answers(q, View[q.key])
    <3>1. ~ Running /\ \E t \in {Stored} : Answers(q, t[q.key])
      BY <2>3, <2>4 DEF Placed, Maps
    <3> QED
      BY <3>1 DEF Stored
  <2>5. Stored \in {shown, After}
    <3>1. CASE ~ Running
      BY <3>1 DEF Stored, After
    <3>2. CASE Running /\ w.pc = "sync"
      <4>1. w.op \in {"add", "replace", "del"}
        BY <3>2 DEF RulesInv, PhaseInv, Written
      <4> QED
        BY <3>2, <4>1 DEF Stored, After, Due
    <3>3. CASE Running /\ w.pc # "sync"
      BY <3>3 DEF Stored
    <3> QED
      BY <3>1, <3>2, <3>3
  <2>6. ASSUME q.writes = 1
        PROVE  Answers(q, shown[q.key]) \/ Answers(q, After[q.key])
    BY <2>3, <2>5, <2>6 DEF Maps
  <2> QED
    BY <2>1, <2>4, <2>6 DEF ReturnsCurrent
<1> QED
  BY <1>1, SpecHold, SpecFinds, PTL
=============================================================================
