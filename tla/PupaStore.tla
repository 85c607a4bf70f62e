------------------------------ MODULE PupaStore ------------------------------
(***************************************************************************)
(* The key-value store of pupa_store.c: two processes that have the file   *)
(* mapped read-write and take turns (src/README.md:5 asks callers to call  *)
(* writes serially).  The one whose turn it is calls pupa_set, pupa_del    *)
(* and the pupa_get functions one at a time, may be killed between any two *)
(* steps of a call and may be started again.  The header and the areas are *)
(* the mapped file: they outlive the process.  The pointers of pupa_ctx_t  *)
(* do not, and each process has its own.                                   *)
(*                                                                         *)
(* A call runs as the sequence of its stores to the shared file, one       *)
(* action each, so that what the file holds between two of them (what a    *)
(* lock-free reader or a restarted process finds) is a state of the model. *)
(*                                                                         *)
(* The file is counted in slots of 16 bytes (PupaLayout), and the areas    *)
(* are one flat memory, because the code reaches them through pointers     *)
(* that do not stop at an area's end.                                      *)
(***************************************************************************)
EXTENDS PupaLayout, PupaSort, Sequences

CONSTANTS
    Keys, Values,   \* the texts callers use
    NoText, Garbage,\* no text; a version whose bytes are not a stored value
    TextLen,        \* slots a text takes, its terminating zero included
    Rank,           \* order memcmp gives texts of one length
    KeyCount,       \* key_count of pupa_init
    Wild,           \* text bytes read as an integer: beyond every length
    Rules,          \* what the callers keep to, see SetPermitted
    Faults,         \* what may go wrong outside the code
    MaxCalls        \* bound on the writes of a behaviour

Texts == Keys \cup Values

Codes == {"OK", "ERROR", "OVERFLOW", "NOT_FOUND"}

ASSUME StoreAssumption ==
    /\ NoText \notin Texts /\ Garbage \notin Texts
    /\ Keys \cap Values = {}
    /\ TextLen \in [Texts -> Nat \ {0}]
    /\ Rank \in [Texts -> Nat \ {0}]
    /\ KeyCount \in Nat \ {0}
    /\ Wild \in Nat
    /\ MaxCalls \in Nat
    /\ Rules \subseteq {"one", "fresh", "order", "room"}
    /\ Faults \subseteq {"kill", "kill_add", "malloc", "msync"}

(* memcmp tells different keys of one length apart. *)
ASSUME OrderAssumption ==
    \A k, l \in Keys : TextLen[k] = TextLen[l] /\ Rank[k] = Rank[l] => k = l

VARIABLES
    item_section, key_section, value_section,  \* pupa_store_hdr_t
    mem,                    \* the item, key and value areas
    store_items,            \* ctx->store_items: the index this process read last
    store_items_snapshot,   \* ctx->store_items_snapshot
    other,                  \* store_items of the process whose turn it is not
    w,                      \* the call in progress, or the last one's result
    shown,                  \* history: what the store showed when w began
    calls                   \* history: the writes begun

header == <<item_section, key_section, value_section>>

ctx == <<store_items, store_items_snapshot, other>>

history == <<shown, calls>>

vars == <<item_section, key_section, value_section, mem,
          store_items, store_items_snapshot, other, w, shown, calls>>

-----------------------------------------------------------------------------
(* Memory.  A slot holds one 16-byte struct, a key's or a version's offset *)
(* and length, with the int that is val_cnt in an item's header slot and   *)
(* padding in a version slot; or the off-th 16 bytes of a text.            *)

Slots == HdrSlots .. StoreSize(KeyCount) - 1

(* The mapping ends with the page the file ends in: 4096 bytes, 256 slots. *)
MapEnd == 256 * ((StoreSize(KeyCount) + 255) \div 256)

Cells == [text : Texts \cup {NoText}, off : Nat, len : Nat, cnt : Nat]

Zero == [text |-> NoText, off |-> 0, len |-> 0, cnt |-> 0]

TextCell(t, i) == [text |-> t, off |-> i, len |-> Wild, cnt |-> Wild]

At(m, a) == IF a \in DOMAIN m THEN m[a] ELSE Zero

memcpy(m, dst, src, n) ==
    [a \in DOMAIN m |-> IF a \in dst .. dst + n - 1 THEN At(m, src + (a - dst))
                                                    ELSE m[a]]

PutText(m, p, t) ==
    [a \in DOMAIN m |-> IF a \in p .. p + TextLen[t] - 1 THEN TextCell(t, a - p)
                                                         ELSE m[a]]

(* Let the struct at slot a point to len slots at off; its int stays. *)
Point(m, a, off, len) ==
    [m EXCEPT ![a] = [@ EXCEPT !.text = NoText, !.off = off, !.len = len]]

(* A compaction has copied the bytes of the struct at slot a to address to: *)
(* its offset is set, its length is what the copy left there.              *)
Moved(m, a, to) == Point(m, a, to, At(m, a).len)

SetCnt(m, a, cnt) == [m EXCEPT ![a].cnt = cnt]

-----------------------------------------------------------------------------
(* _pupa_store_item_compare: shorter keys first, keys of one length as      *)
(* memcmp orders their bytes.  Bytes that are no text sort below all texts. *)

RankOf(c) == IF c.text = NoText THEN 0 ELSE Rank[c.text]

Compare(m, len, bytes, c) ==
    LET there(i) == RankOf(At(m, c.off + i))
        differ == {i \in 0 .. len - 1 : RankOf(bytes[i]) # there(i)}
    IN  IF len # c.len THEN len - c.len
        ELSE IF differ = {} THEN 0
        ELSE LET first == CHOOSE i \in differ : \A j \in differ : i <= j
             IN  RankOf(bytes[first]) - there(first)

(* The slot of the i-th item of the index at base. *)
ItemAt(base, i) == base + ItemSlots * i

(* bsearch for key k in the n items at base. *)
Search(m, base, n, k) ==
    bsearch([i \in 0 .. n - 1 |->
                Compare(m, TextLen[k], [x \in 0 .. TextLen[k] - 1 |-> TextCell(k, x)],
                        At(m, ItemAt(base, i)))], n)

(* The item before the first one of item area 1 overlays the header: its   *)
(* key_offset is key_section.used, its key_len key_section.sec1_offset.    *)
AtOrHeader(m, a) ==
    IF a >= HdrSlots THEN At(m, a)
    ELSE [Zero EXCEPT !.off = key_section.used, !.len = key_section.sec1]

(* Mutant: cmp gets the new item and the probed one the other way round. *)
SortPositionSwapped(m, base, count) ==
    LET e == At(m, ItemAt(base, count))
        bytes == [x \in 0 .. e.len - 1 |-> At(m, e.off + x)]
    IN  pupa_bsearch([i \in -1 .. count |->
                         -Compare(m, e.len, bytes, AtOrHeader(m, ItemAt(base, i)))],
                     count)

(* Where pupa_bsearch puts item number count of the index at base. *)
SortPosition(m, base, count) ==
    LET e == At(m, ItemAt(base, count))
        bytes == [x \in 0 .. e.len - 1 |-> At(m, e.off + x)]
    IN  pupa_bsearch([i \in -1 .. count |->
                         Compare(m, e.len, bytes, AtOrHeader(m, ItemAt(base, i)))],
                     count)

(* pupa_sort's memmove: item number count moves to pos, those from pos on *)
(* move up by one.                                                        *)
MoveItem(m, base, pos, count) ==
    [a \in DOMAIN m |->
        IF a \in ItemAt(base, pos) .. ItemAt(base, pos + 1) - 1
        THEN At(m, a + ItemSlots * (count - pos))
        ELSE IF a \in ItemAt(base, pos + 1) .. ItemAt(base, count + 1) - 1
        THEN At(m, a - ItemSlots)
        ELSE m[a]]

-----------------------------------------------------------------------------
(* What a reader finds: pupa_store_get and pupa_store_get_values.          *)

Live == LiveBase(item_section)

Find(k) == Search(mem, Live, item_section.used, k)

(* The version slot pupa_store_get reads for a version number. *)
VersionSlot(item, ver) == item + 1 + (MaxVer - ver)

(* The text a struct points to. *)
Bytes(c) ==
    LET read == {t \in Texts : /\ TextLen[t] = c.len
                               /\ \A i \in 0 .. c.len - 1 :
                                     At(mem, c.off + i) = TextCell(t, i)}
    IN  IF read = {} THEN Garbage ELSE CHOOSE t \in read : TRUE

(* pupa_store_get of an existing key: its bytes, or not that many versions. *)
GetVersion(k, ver) ==
    LET item == ItemAt(Live, Find(k))
    IN  IF At(mem, item).cnt < ver THEN NoText ELSE Bytes(At(mem, VersionSlot(item, ver)))

(* pupa_get asks pupa_store_get for version 0. *)
pupa_get(k) == GetVersion(k, 0)

(* pupa_store_get_values: the versions of each item, newest first. *)
Versions ==
    [i \in 0 .. item_section.used - 1 |->
        LET item == ItemAt(Live, i)
            cnt  == At(mem, item).cnt
        IN  [ver \in 1 .. (IF cnt <= MaxVer THEN cnt ELSE MaxVer) |->
                Bytes(At(mem, VersionSlot(item, ver)))]]

(* What it returns for each key: nothing for one that is not found. *)
View == [k \in Keys |-> IF Find(k) \in DOMAIN Versions THEN Versions[Find(k)] ELSE <<>>]

-----------------------------------------------------------------------------
(* The call in progress: pc, what is being written, the snapshot's item it  *)
(* writes to, and the loop counters of a compaction.                        *)

Call(pc, op, k, v, item) ==
    [pc |-> pc, op |-> op, key |-> k, val |-> v, item |-> item,
     i |-> 0, j |-> 0, size |-> 0, ret |-> "OK"]

Idle(ret) == [Call("idle", "none", NoText, NoText, 0) EXCEPT !.ret = ret]

Goto(pc) == w' = [w EXCEPT !.pc = pc]

Return(ret) == w' = Idle(ret)

(* The process is gone, the file stays as it is. *)
Gone(pc) == w' = [Idle("OK") EXCEPT !.pc = pc]

(* A SIGSEGV. *)
Fault == Gone("dead")

Running == w.pc \notin {"idle", "dead", "down"}

(***************************************************************************)
(* What callers keep to.  The code asks none of this of them: a run with   *)
(* Rules = {} has callers that do whatever the API allows.                 *)
(*   "one"    a single process writes;                                     *)
(*   "fresh"  a process writes only while its store_items is current, for  *)
(*            instance by reading before every write;                      *)
(*   "order"  keys are added in ascending order and only the greatest one  *)
(*            is deleted;                                                  *)
(*   "room"   no write that would fill an area.                            *)
(***************************************************************************)
Ascending(k) ==     \* no stored key is greater than k
    \A i \in 0 .. item_section.used - 1 :
        Compare(mem, TextLen[k], [x \in 0 .. TextLen[k] - 1 |-> TextCell(k, x)],
                At(mem, ItemAt(Live, i))) >= 0

Room(k, v) ==
    /\ item_section.used < ItemCapacity(KeyCount)
    /\ key_section.used + TextLen[k] <= key_section.size
    /\ value_section.used + TextLen[v] <= value_section.size

SetPermitted(k, v) ==
    /\ "fresh" \in Rules => store_items = Live
    /\ "order" \in Rules => Find(k) # NotFound \/ Ascending(k)
    /\ "room" \in Rules => Room(k, v)

DelPermitted(k) ==
    /\ "fresh" \in Rules => store_items = Live
    /\ "order" \in Rules => Find(k) \in {NotFound, item_section.used - 1}

-----------------------------------------------------------------------------
(* Mutant: source and destination swapped. *)
make_snapshotSwapped ==
    memcpy(mem, store_items, SnapBase(item_section), ItemSlots * item_section.used)

(* pupa_store_item_make_snapshot: the items at store_items are copied to    *)
(* the snapshot area.                                                       *)
make_snapshot ==
    memcpy(mem, SnapBase(item_section), store_items, ItemSlots * item_section.used)

(* Both writes begin with the snapshot and a search in it. *)
Begin ==
    /\ w.pc = "idle"
    /\ calls < MaxCalls
    /\ store_items_snapshot' = SnapBase(item_section)
    /\ shown' = View
    /\ calls' = calls + 1
    /\ UNCHANGED <<header, store_items, other>>

FindInSnapshot(k) ==
    Search(make_snapshot, SnapBase(item_section), item_section.used, k)

(* pupa_store_set of a key that is not there: the item after the last one. *)
SetNew(k, v) ==
    /\ Begin
    /\ SetPermitted(k, v)
    /\ FindInSnapshot(k) = NotFound
    /\ mem' = make_snapshot
    /\ w' = Call("item", "add", k, v, ItemAt(SnapBase(item_section), item_section.used))

(* Mutant: the value is replaced in the item that readers find. *)
SetExistingLive(k, v) ==
    /\ Begin
    /\ SetPermitted(k, v)
    /\ mem' = make_snapshot
    /\ \E i \in 0 .. item_section.used - 1 :
          /\ FindInSnapshot(k) = i
          /\ w' = Call("value", "replace", k, v, ItemAt(Live, i))

(* pupa_store_set of a key that is there. *)
SetExisting(k, v) ==
    /\ Begin
    /\ SetPermitted(k, v)
    /\ mem' = make_snapshot
    /\ \E i \in 0 .. item_section.used - 1 :
          /\ FindInSnapshot(k) = i
          /\ w' = Call("value", "replace", k, v, ItemAt(SnapBase(item_section), i))

-----------------------------------------------------------------------------
(* pupa_store_item_add: the key. *)

ItemsFull ==
    /\ w.pc = "item"
    /\ item_section.used = item_section.size
    /\ Return("OVERFLOW")
    /\ UNCHANGED <<header, mem, ctx, history>>

(* Mutant: room is looked for before the key is counted. *)
KeyFitsBefore(used) == used < key_section.size

KeyFits(used) == used + TextLen[w.key] <= key_section.size

(* The key goes to address p, the new item points to where section s says *)
(* its free space starts.  What is counted is the item's key_len, read back *)
(* after the text is there: where the item lies beyond its area, the text  *)
(* may have gone over it.                                                  *)
WriteKey(s, p) ==
    /\ mem' = PutText(Point(mem, w.item, FreeAddr(s), TextLen[w.key]), p, w.key)
    /\ key_section' = [s EXCEPT !.used = @ + At(mem', w.item).len]
    /\ w' = [w EXCEPT !.pc = "value", !.i = 0, !.size = 0]
    /\ UNCHANGED <<item_section, value_section, ctx, history>>

AppendKey ==
    /\ w.pc = "item"
    /\ item_section.used # item_section.size
    /\ KeyFits(key_section.used)
    /\ WriteKey(key_section, FreeAddr(key_section))

StartKeyCompaction ==
    /\ w.pc = "item"
    /\ item_section.used # item_section.size
    /\ ~KeyFits(key_section.used)
    /\ Goto("compact_key")
    /\ UNCHANGED <<header, mem, ctx, history>>

(* pupa_store_key_compaction.  &store_items_snapshot[i] counts in structs   *)
(* of 16 bytes, not in items: the loop visits the first slots of the index, *)
(* header and version slots alike.                                          *)
KeySlot == store_items_snapshot + w.i

(* Text bytes taken for an offset are no mapped address, and a copy may run *)
(* past the mapping: the room is checked once all is copied.                *)
CopyFaults(c, to) ==
    \/ c.text # NoText
    \/ c.off + c.len > MapEnd
    \/ to + c.len > MapEnd

CompactKey ==
    /\ w.pc = "compact_key"
    /\ w.i < item_section.used
    /\ LET c  == At(mem, KeySlot)
           to == SnapBase(key_section) + w.size
       IN  /\ ~CopyFaults(c, to)
           /\ mem' = Moved(memcpy(mem, to, c.off, c.len), KeySlot, to)
           /\ w' = [w EXCEPT !.i = @ + 1, !.size = @ + At(mem', KeySlot).len]
    /\ UNCHANGED <<header, ctx, history>>

CompactKeyFault ==
    /\ w.pc = "compact_key"
    /\ w.i < item_section.used
    /\ CopyFaults(At(mem, KeySlot), SnapBase(key_section) + w.size)
    /\ Fault
    /\ UNCHANGED <<header, mem, ctx, history>>

CompactKeyFull ==
    /\ w.pc = "compact_key"
    /\ w.i = item_section.used
    /\ ~KeyFits(w.size)
    /\ Return("OVERFLOW")
    /\ UNCHANGED <<header, mem, ctx, history>>

(* The areas are switched.  *address is the start of the new area, while    *)
(* the new item's offset is behind the copied keys.                         *)
CompactKeyDone ==
    /\ w.pc = "compact_key"
    /\ w.i = item_section.used
    /\ KeyFits(w.size)
    /\ WriteKey([Flip(key_section) EXCEPT !.used = w.size], SnapBase(key_section))

-----------------------------------------------------------------------------
(* The value: the same in pupa_store_item_add and pupa_store_item_replace   *)
(* but for the item's version slots.                                        *)

(* Mutant: room is looked for before the value is counted. *)
ValueFitsBefore(used) == used < value_section.size

ValueFits(used) == used + TextLen[w.val] <= value_section.size

(* Mutant: a new version takes the place of the newest when all are taken. *)
PushVersionOver(m, off) ==
    LET cnt  == At(m, w.item).cnt
        len  == TextLen[w.val]
        last == w.item + MaxVer
    IN  IF w.op = "add" \/ cnt >= MaxVer
        THEN SetCnt(Point(m, last, off, len), w.item, IF w.op = "add" THEN 1 ELSE cnt)
        ELSE SetCnt(Point(memcpy(m, last - cnt, last - cnt + 1, cnt), last, off, len),
                    w.item, cnt + 1)

(* Version slots are filled from the right: the newest value is in the last *)
(* one.  An add has one version; a replace moves the others down, and the   *)
(* oldest out when all slots are taken.                                     *)
PushVersion(m, off) ==
    LET cnt  == At(m, w.item).cnt
        len  == TextLen[w.val]
        last == w.item + MaxVer
    IN  IF w.op = "add"
        THEN SetCnt(Point(m, last, off, len), w.item, 1)
        ELSE IF MaxVer = 1
        THEN Point(m, last, off, len)
        ELSE IF cnt >= MaxVer
        THEN Point(memcpy(m, w.item + 1, w.item + 2, cnt - 1), w.item + cnt, off, len)
        ELSE SetCnt(Point(memcpy(m, last - cnt, last - cnt + 1, cnt), last, off, len),
                    w.item, cnt + 1)

WriteValue(s, p) ==
    /\ mem' = PushVersion(PutText(mem, p, w.val), FreeAddr(s))
    /\ value_section' = [s EXCEPT !.used = @ + TextLen[w.val]]
    /\ Goto(IF w.op = "add" THEN "used" ELSE "flip")
    /\ UNCHANGED <<item_section, key_section, ctx, history>>

AppendValue ==
    /\ w.pc = "value"
    /\ ValueFits(value_section.used)
    /\ WriteValue(value_section, FreeAddr(value_section))

StartValueCompaction ==
    /\ w.pc = "value"
    /\ ~ValueFits(value_section.used)
    /\ Goto("compact_value")
    /\ UNCHANGED <<header, mem, ctx, history>>

(* pupa_store_value_compaction.  p_store_item is again the i-th slot of the *)
(* snapshot; its j-th version is looked for sizeof(pupa_store_item_t) + j * *)
(* sizeof(pupa_store_item_val_t) structs, not bytes, further on.            *)
ItemSlot == store_items_snapshot + w.i

ValSlot == ItemSlot + 16 + 16 * w.j

CompactValue ==
    /\ w.pc = "compact_value"
    /\ w.i < item_section.used
    /\ w.j < At(mem, ItemSlot).cnt
    /\ LET c  == At(mem, ValSlot)
           to == SnapBase(value_section) + w.size
       IN  /\ ValSlot < MapEnd
           /\ ~CopyFaults(c, to)
           /\ mem' = Moved(memcpy(mem, to, c.off, c.len), ValSlot, to)
           /\ w' = [w EXCEPT !.j = @ + 1, !.size = @ + At(mem', ValSlot).len]
    /\ UNCHANGED <<header, ctx, history>>

(* Mutant: the outer loop does not advance. *)
CompactValueStuck ==
    /\ w.pc = "compact_value"
    /\ w.i < item_section.used
    /\ w.j >= At(mem, ItemSlot).cnt
    /\ w' = [w EXCEPT !.j = 0]
    /\ UNCHANGED <<header, mem, ctx, history>>

CompactValueNext ==
    /\ w.pc = "compact_value"
    /\ w.i < item_section.used
    /\ w.j >= At(mem, ItemSlot).cnt
    /\ w' = [w EXCEPT !.i = @ + 1, !.j = 0]
    /\ UNCHANGED <<header, mem, ctx, history>>

CompactValueFault ==
    /\ w.pc = "compact_value"
    /\ w.i < item_section.used
    /\ w.j < At(mem, ItemSlot).cnt
    /\ ValSlot >= MapEnd \/ CopyFaults(At(mem, ValSlot), SnapBase(value_section) + w.size)
    /\ Fault
    /\ UNCHANGED <<header, mem, ctx, history>>

CompactValueFull ==
    /\ w.pc = "compact_value"
    /\ w.i = item_section.used
    /\ ~ValueFits(w.size)
    /\ Return("OVERFLOW")
    /\ UNCHANGED <<header, mem, ctx, history>>

CompactValueDone ==
    /\ w.pc = "compact_value"
    /\ w.i = item_section.used
    /\ ValueFits(w.size)
    /\ WriteValue([Flip(value_section) EXCEPT !.used = w.size],
                  SnapBase(value_section) + w.size)

-----------------------------------------------------------------------------
(* The end of pupa_store_set.  A new key is counted, sorted in and, with    *)
(* store_items, the index is switched; a replaced value switches the index  *)
(* and leaves store_items where it was.                                     *)

CountItem ==
    /\ w.pc = "used"
    /\ item_section' = [item_section EXCEPT !.used = @ + 1]
    /\ Goto("sort")
    /\ UNCHANGED <<key_section, value_section, mem, ctx, history>>

SortItem ==
    /\ w.pc = "sort"
    /\ LET count == item_section.used - 1
       IN  \E pos \in 0 .. count :
              /\ SortPosition(mem, store_items_snapshot, count) = pos
              /\ mem' = MoveItem(mem, store_items_snapshot, pos, count)
    /\ store_items' = store_items_snapshot
    /\ Goto("flip")
    /\ UNCHANGED <<header, store_items_snapshot, other, history>>

(* pupa_sort returns without sorting when malloc fails. *)
SortNoMemory ==
    /\ "malloc" \in Faults
    /\ w.pc = "sort"
    /\ store_items' = store_items_snapshot
    /\ Goto("flip")
    /\ UNCHANGED <<header, mem, store_items_snapshot, other, history>>

(* The endless recursion of pupa_bsearch runs out of stack. *)
SortFault ==
    /\ w.pc = "sort"
    /\ SortPosition(mem, store_items_snapshot, item_section.used - 1) = Diverges
    /\ Fault
    /\ UNCHANGED <<header, mem, ctx, history>>

(* Mutant: the index is not switched. *)
FlipItemsForgotten ==
    /\ w.pc = "flip"
    /\ Goto(IF w.op = "del" THEN "uncount" ELSE "sync")
    /\ UNCHANGED <<header, mem, ctx, history>>

FlipItems ==
    /\ w.pc = "flip"
    /\ item_section' = Flip(item_section)
    /\ Goto(IF w.op = "del" THEN "uncount" ELSE "sync")
    /\ UNCHANGED <<key_section, value_section, mem, ctx, history>>

(* pupa_shm_sync: msync may fail, with the write already in the file. *)
Sync ==
    /\ w.pc = "sync"
    /\ \/ Return("OK")
       \/ "msync" \in Faults /\ Return("ERROR")
    /\ UNCHANGED <<header, mem, ctx, history>>

-----------------------------------------------------------------------------
(* pupa_store_del.  The distance from the start of the snapshot is counted  *)
(* in structs of 16 bytes, and the memcpy moves what follows down by one    *)
(* struct.                                                                  *)

DelMissing(k) ==
    /\ Begin
    /\ DelPermitted(k)
    /\ FindInSnapshot(k) = NotFound
    /\ mem' = make_snapshot
    /\ Return("NOT_FOUND")

RemoveItem(m, p, i) ==
    IF ItemSlots * i + 1 < item_section.used
    THEN memcpy(m, p, p + 1, ItemSlots * (item_section.used - ItemSlots * i + 1))
    ELSE m

DelExisting(k) ==
    /\ Begin
    /\ DelPermitted(k)
    /\ \E i \in 0 .. item_section.used - 1 :
          LET p == ItemAt(SnapBase(item_section), i)
          IN  /\ FindInSnapshot(k) = i
              /\ mem' = RemoveItem(make_snapshot, p, i)
              /\ w' = Call("flip", "del", k, NoText, p)

UncountItem ==
    /\ w.pc = "uncount"
    /\ item_section' = [item_section EXCEPT !.used = @ - 1]
    /\ Goto("sync")
    /\ UNCHANGED <<key_section, value_section, mem, ctx, history>>

-----------------------------------------------------------------------------
(* pupa_store_get and pupa_store_get_values change nothing but store_items, *)
(* which they point to the current index, unless the version asked for is   *)
(* above max_ver_num.                                                       *)
Get(ver) ==
    /\ w.pc = "idle"
    /\ ver <= MaxVer
    /\ store_items' = Live
    /\ UNCHANGED <<header, mem, store_items_snapshot, other, w, history>>

(* The other process takes its turn, with the index it read last.  Where   *)
(* its store_items_snapshot is does not matter: a write sets it first.     *)
TakeTurn ==
    /\ "one" \notin Rules
    /\ w.pc = "idle"
    /\ store_items # other
    /\ store_items' = other
    /\ other' = store_items
    /\ UNCHANGED <<header, mem, store_items_snapshot, w, history>>

(* pupa_fini, and the process killed between two steps of a call: with     *)
(* "kill" at any but those where pupa_store_set has counted a new item and *)
(* not yet switched to the index that has it, with "kill_add" there too.   *)
Fini ==
    /\ w.pc = "idle"
    /\ Gone("down")
    /\ UNCHANGED <<header, mem, ctx, history>>

Kill ==
    /\ "kill" \in Faults
    /\ Running
    /\ w.op = "add" /\ w.pc \in {"sort", "flip"} => "kill_add" \in Faults
    /\ Gone("down")
    /\ UNCHANGED <<header, mem, ctx, history>>

(* pupa_init, PUPA_OP_TYPE_RW, of a file that exists. *)
InitAgain ==
    /\ w.pc \in {"down", "dead"}
    /\ store_items' = Live
    /\ store_items_snapshot' = SnapBase(item_section)
    /\ Return("OK")
    /\ UNCHANGED <<header, mem, other, history>>

(* pupa_init of a new file. *)
Init ==
    /\ item_section = ItemSection(KeyCount)
    /\ key_section = KeySection(KeyCount)
    /\ value_section = ValueSection(KeyCount)
    /\ mem = [a \in Slots |-> Zero]
    /\ store_items = Live
    /\ store_items_snapshot = SnapBase(item_section)
    /\ other = Live
    /\ w = Idle("OK")
    /\ shown = [k \in Keys |-> <<>>]
    /\ calls = 0

(* A call once begun: every step of it is the process's own. *)
Step ==
    \/ ItemsFull \/ AppendKey \/ StartKeyCompaction
    \/ CompactKey \/ CompactKeyFault \/ CompactKeyFull \/ CompactKeyDone
    \/ AppendValue \/ StartValueCompaction
    \/ CompactValue \/ CompactValueNext \/ CompactValueFault
    \/ CompactValueFull \/ CompactValueDone
    \/ CountItem \/ SortItem \/ SortNoMemory \/ SortFault
    \/ FlipItems \/ UncountItem \/ Sync

Next ==
    \/ \E k \in Keys :
          \/ DelMissing(k) \/ DelExisting(k)
          \/ \E v \in Values : SetNew(k, v) \/ SetExisting(k, v)
    \/ Step
    \/ Get(1) \/ TakeTurn
    \/ Fini \/ Kill \/ InitAgain

Spec == Init /\ [][Next]_vars /\ WF_vars(Step)
=============================================================================
