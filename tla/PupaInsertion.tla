---------------------------- MODULE PupaInsertion ----------------------------
(***************************************************************************)
(* pupa_sort on its own: an index that is sorted and to which items are    *)
(* added one at a time, in any order.  An item is its key's place in the   *)
(* order; no two are equal (pupa_store_set replaces the value of a key     *)
(* that is there).                                                         *)
(***************************************************************************)
EXTENDS PupaSort, Sequences, SequencesExt

CONSTANT Orders     \* the keys' places in the order

ASSUME OrdersAssumption == Orders \subseteq Nat

VARIABLES
    items,      \* the index
    diverged    \* the key whose insertion did not come to an end, or none

None == -1

vars == <<items, diverged>>

(* How e compares with each item, with itself behind the last one, and with *)
(* what lies before the first one.                                          *)
cmp(e, before) ==
    [i \in -1 .. Len(items) |->
        CASE i = -1         -> before
          [] i = Len(items) -> 0
          [] OTHER          -> e - items[i + 1]]

pupa_sort(e) ==
    \E before \in {-1, 0, 1} :
        LET pos == pupa_bsearch(cmp(e, before), Len(items))
        IN  IF pos = Diverges
            THEN diverged' = e /\ UNCHANGED items
            ELSE /\ items' = IF pos < Len(items) THEN InsertAt(items, pos + 1, e)
                                                 ELSE Append(items, e)
                 /\ UNCHANGED diverged

Add(e) ==
    /\ diverged = None
    /\ e \notin ToSet(items)
    /\ pupa_sort(e)

Init == items = <<>> /\ diverged = None

Next == \E e \in Orders : Add(e)

Spec == Init /\ [][Next]_vars

-----------------------------------------------------------------------------
(* Wherever the search ends, the item goes to where it keeps the index in  *)
(* order: binary insertion with the element itself as the sentinel.        *)
Sorted == \A i \in 2 .. Len(items) : items[i - 1] < items[i]

(* The two leading binary digits of n, as a number. *)
Leading(n) ==
    LET leading[m \in 0 .. n] == IF m < 4 THEN m ELSE leading[m \div 2]
    IN  leading[n]

(* The search fails to end for nothing but a new smallest key, and then    *)
(* only at the sizes from which halving the upper bound reaches 1 and not  *)
(* 0: those which, plus two, begin with the binary digits 11 (1, 4, 5, 10  *)
(* to 13, 22 to 29 and so on).                                             *)
DivergesOnlyOnMinimum ==
    diverged # None =>
        /\ \A i \in DOMAIN items : diverged < items[i]
        /\ Leading(Len(items) + 2) = 3

(* bsearch finds every item of a sorted index and nothing else. *)
bsearchExact ==
    \A e \in Orders :
        LET i == bsearch([j \in 0 .. Len(items) - 1 |-> e - items[j + 1]], Len(items))
        IN  IF i = NotFound THEN e \notin ToSet(items) ELSE items[i + 1] = e

(* pupa_store.c:667 "pupa_sort is implemented as the binary insertation    *)
(* sorting": every insertion comes to an end.                              *)
SortEnds == diverged = None
=============================================================================
