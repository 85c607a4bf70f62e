------------------------------- MODULE MC_store -------------------------------
(* The texts of the store's runs: their slots and their order. *)
EXTENDS PupaStoreProperties

CONSTANTS k1, k2, k3, v1, v2

(* Keys of one slot and of two, values of two and of four. *)
Lengths ==
    [t \in Texts |-> CASE t \in {k1, k2} -> 1 [] t \in {k3, v1} -> 2 [] OTHER -> 4]

(* For a value area of 9 slots, which holds four values of one key, more   *)
(* than it keeps versions, also when they differ.                          *)
EvictLengths ==
    [t \in Texts |-> CASE t = k3 -> 2 [] t = v2 -> 3 [] OTHER -> 1]

(* For a key area of 9 slots, which two different keys fill or overfill,   *)
(* and a value area of 6, which one value of each fills.                   *)
LongLengths ==
    [t \in Texts |-> CASE t \in {k1, k2, v2} -> 4 [] t = k3 -> 5 [] OTHER -> 2]

(* Values that fill a value area of 144 slots with two. *)
HugeLengths ==
    [t \in Texts |-> CASE t \in {k1, k2} -> 1 [] t = k3 -> 2 [] t = v1 -> 60 [] OTHER -> 90]

Ranks == [t \in Texts |-> CASE t = k1 -> 1 [] t = k2 -> 2 [] t = k3 -> 3 [] OTHER -> 4]
=============================================================================
