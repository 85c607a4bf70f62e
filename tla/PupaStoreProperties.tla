------------------------- MODULE PupaStoreProperties -------------------------
(***************************************************************************)
(* What PupaStore is checked for.  Some of it holds whatever the callers   *)
(* do (UsedBounded to CallsEnd), some only for callers that keep to Rules, *)
(* and the last part is what the documentation says and the code does not. *)
(***************************************************************************)
EXTENDS PupaStore

Pcs == {"idle", "item", "compact_key", "value", "compact_value", "used", "sort",
        "flip", "uncount", "sync", "dead", "down"}

Sections == [id : {1, 2}, size : Nat, used : Nat, sec1 : Nat, sec2 : Nat]

Calls ==
    [pc : Pcs, op : {"none", "add", "replace", "del"}, key : Keys \cup {NoText},
     val : Values \cup {NoText}, item : Nat, i : Nat, j : Nat, size : Nat, ret : Codes]

(* The header, the areas, the pointers and the call in progress stay of    *)
(* their types.                                                            *)
TypeOK ==
    /\ item_section \in Sections
    /\ key_section \in Sections
    /\ value_section \in Sections
    /\ mem \in [Slots -> Cells]
    /\ store_items \in Nat
    /\ store_items_snapshot \in Nat
    /\ other \in Nat
    /\ w \in Calls
    /\ shown \in [Keys -> Seq(Texts \cup {Garbage})]
    /\ calls \in 0 .. MaxCalls

-----------------------------------------------------------------------------
(* No sequence of calls, compactions, faults and restarts makes the item or *)
(* the value section count more than its size, whatever the callers do and  *)
(* wherever the items lie (pupa_store.c:284, 316, 358 and, after a          *)
(* compaction, 469: each is checked before it is counted).  The key section *)
(* is not among them: see the next property.                                *)
UsedBounded ==
    /\ item_section.used <= item_section.size
    /\ value_section.used <= value_section.size

(* pupa_store_item_add checks the room for a key (pupa_store.c:288, and 503 *)
(* after a compaction) and then counts what it reads back from the item     *)
(* (311).  The two differ, and the key section counts more than its size,   *)
(* only when it adds an item that the item area has no room for.            *)
KeyOverrunNeedsItemOverrun ==
    [][ /\ key_section' # key_section
        /\ key_section'.used > key_section'.size
        => item_section.used >= ItemCapacity(KeyCount) ]_vars

(* The zero-copy promise: pupa_get hands out pointers into the value area, *)
(* and but for the copying of a compaction no step of any call writes to   *)
(* what is stored in the current one.                                      *)
StoredValuesStay ==
    [][ w.pc \notin {"compact_key", "compact_value"} =>
            \A i \in 0 .. value_section.used - 1 :
                At(mem', LiveBase(value_section) + i)
                    = At(mem, LiveBase(value_section) + i) ]_vars

(* A call that has begun ends: it returns, or the process is gone. *)
CallsEnd == Running ~> ~Running

-----------------------------------------------------------------------------
(* What a call sees that starts when no other is under way, in this process *)
(* or in one that maps the file after it. *)
Contents == IF Running THEN shown ELSE View

KV == INSTANCE PupaKV WITH store <- Contents

(* For callers that keep to the rules, every call of pupa_set and pupa_del *)
(* changes what is stored as the map of the README changes, or not at all. *)
KVSpec == KV!Spec

(* For callers that keep to the rules, no call ends in a signal. *)
NoFault == w.pc # "dead"

(* A replacement and a deletion show at one instant: at every step of such *)
(* a call, a reader of the shared file finds all that was stored before    *)
(* the call or all that is stored after it.                                *)
ReplaceAndDeleteAtomic ==
    /\ w.op = "replace" => View \in {shown, KV!With(shown, w.key, w.val)}
    /\ w.op = "del" => View \in {shown, KV!Without(shown, w.key)}

(* What is stored once the call in progress is through. *)
Due == IF w.op = "del" THEN KV!Without(shown, w.key) ELSE KV!With(shown, w.key, w.val)

(* For callers that keep to the rules, a write that comes to its end has    *)
(* changed its own key, and that as it was asked to; one that is refused on *)
(* the way has changed nothing.  A pupa_set or pupa_del that returns OK     *)
(* without effect, or changes another key, breaks this (pupa_store.c:202 to *)
(* 224, 262 to 269).                                                        *)
CallsTakeEffect ==
    [][ Running /\ w'.pc = "idle" =>
            View' = (IF w.pc = "sync" THEN Due ELSE shown) ]_vars

(* For callers that keep to the rules, a write works in the snapshot area  *)
(* and never on the items that readers search.                             *)
LiveItemsStay ==
    [][ item_section'.id = item_section.id =>
            \A a \in Live .. Live + ItemSlots * item_section.used - 1 :
                At(mem', a) = At(mem, a) ]_vars

-----------------------------------------------------------------------------
(* What the documentation says and the code does not do. *)

(* README.md:22 "copy the area for reading to snapshot area": the index a   *)
(* pupa_set works on begins as what readers search.                         *)
SnapshotIsReadingArea ==
    [][ calls' # calls /\ w'.op # "del" =>
            \A i \in 0 .. ItemSlots * item_section.used - 1 :
                At(mem', SnapBase(item_section) + i) = At(mem, Live + i) ]_vars

(* src/README.md:19 "Delete key-value data according to the specified key": *)
(* when pupa_del is through, that key is gone and every other is as it was. *)
DeleteRemovesItsKey ==
    w.op = "del" /\ w.pc = "sync" => View = KV!Without(shown, w.key)

(* README.md:24 "The compaction will copy the data of the current area to   *)
(* the snapshot area" (line 26: the same for values): when the value areas  *)
(* are switched, every version in the index being written is in the new     *)
(* current one.                                                             *)
CompactionCopiesValues ==
    [][ value_section'.id # value_section.id =>
            \A i \in 0 .. item_section.used - 1 :
                LET item == ItemAt(store_items_snapshot, i)
                IN  \A ver \in 1 .. At(mem', item).cnt :
                        At(mem', VersionSlot(item, ver)).off
                            \in LiveBase(value_section') .. FreeAddr(value_section') - 1 ]_vars

(* src/README.md:25 "Get the value of the key": pupa_get returns the value *)
(* of the last pupa_set.                                                   *)
GetReturnsLastValue ==
    ~Running => \A k \in Keys : View[k] # <<>> => pupa_get(k) = View[k][1]
=============================================================================
