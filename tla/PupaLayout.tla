------------------------------ MODULE PupaLayout ------------------------------
(***************************************************************************)
(* The file layout pupa_store_init lays down and the PUPA_STORE_GET_...    *)
(* macros that read it.  Offsets and sizes are counted in slots of 16      *)
(* bytes: sizeof(pupa_store_item_t) = sizeof(pupa_store_item_val_t) = 16,  *)
(* the header is 128 bytes, and every offset the code computes is a        *)
(* multiple of 16.                                                         *)
(*                                                                         *)
(*    header | items 1 | items 2 | keys 1 | keys 2 | values 1 | values 2   *)
(***************************************************************************)
EXTENDS Integers

CONSTANTS
    MaxVer,     \* max_ver_num: pupa_init passes 3
    HdrSlots,   \* sizeof(pupa_store_hdr_t): 8 slots
    KeyAvg,     \* PUPA_KEY_AVERAGE_LEN: 4 slots
    ValAvg      \* PUPA_VALUE_AVERAGE_LEN: 16 slots

ASSUME LayoutAssumption ==
    /\ MaxVer \in Nat \ {0}
    /\ HdrSlots \in Nat \ {0}
    /\ KeyAvg \in Nat \ {0}
    /\ ValAvg \in Nat \ {0}

-----------------------------------------------------------------------------
(* One item of the index: a header slot and MaxVer version slots. *)
ItemSlots == 1 + MaxVer

(* What pupa_store_init reserves for each of the two item areas of a store *)
(* of n keys.  max_ver_num version slots are reserved once, not per item.  *)
ItemArea(n) == n + MaxVer

KeyArea(n) == KeyAvg * n

ValueArea(n) == ValAvg * n

(* A section as pupa_store_init leaves it: two areas of equal extent, the *)
(* first one current, nothing used.                                       *)
Section(size, start, area) ==
    [id |-> 1, size |-> size, used |-> 0, sec1 |-> start, sec2 |-> start + area]

ItemSection(n) == Section(n, HdrSlots, ItemArea(n))

KeySection(n) == Section(KeyArea(n), HdrSlots + 2 * ItemArea(n), KeyArea(n))

ValueSection(n) ==
    Section(ValueArea(n), HdrSlots + 2 * ItemArea(n) + 2 * KeyArea(n), ValueArea(n))

(* The offset pupa_store_init returns: the size of the whole file. *)
StoreSize(n) == HdrSlots + 2 * ItemArea(n) + 2 * KeyArea(n) + 2 * ValueArea(n)

-----------------------------------------------------------------------------
(* The current area of a section, its other (snapshot) area, and where the *)
(* current area's free space starts.                                       *)
LiveBase(s) == IF s.id = 1 THEN s.sec1 ELSE s.sec2

SnapBase(s) == IF s.id = 1 THEN s.sec2 ELSE s.sec1

(* Mutant: what is used of the area is not skipped. *)
FreeAddrAtStart(s) == LiveBase(s)

FreeAddr(s) == LiveBase(s) + s.used

(* Mutant: the id counts the switches instead of alternating. *)
SnapshotIdCounting(s) == s.id + 1

(* PUPA_STORE_GET_SEC_SNAPSHOT_ID, and the section with its areas swapped. *)
SnapshotId(s) == IF s.id = 1 THEN 2 ELSE 1

Flip(s) == [s EXCEPT !.id = SnapshotId(s)]

(* pupa_store_dump adds i item lengths to where it is to get to item i: its *)
(* steps grow.  Of each it reads the header slot, and it reads both areas,  *)
(* up to here in a store of n keys of which `used` are taken.               *)
DumpItem(i) == ItemSlots * ((i * (i + 1)) \div 2)

DumpEnd(n, used) == ItemSection(n).sec2 + DumpItem(used - 1) + 1

(* How many whole items fit in one item area of a store of n keys. *)
ItemCapacity(n) == ItemArea(n) \div ItemSlots
=============================================================================
