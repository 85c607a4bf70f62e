------------------------------- MODULE PupaSort -------------------------------
(***************************************************************************)
(* The two searches of the item index, as functions of how the searched    *)
(* element compares with each position: cmp[i] < 0, = 0 or > 0 when it is  *)
(* smaller than, equal to or greater than the item at position i.          *)
(***************************************************************************)
EXTENDS Integers

NotFound == -1

Diverges == -2

(* bsearch of the C library in positions l..u-1: halve the interval until   *)
(* the probe compares equal.  rest is what it finds in smaller ones.        *)
bsearchIn(cmp, rest, l, u) ==
    LET mid == (l + u) \div 2
    IN  CASE l >= u                 -> NotFound
          [] l < u /\ cmp[mid] = 0  -> mid
          [] l < u /\ cmp[mid] < 0  -> rest[<<l, mid>>]
          [] l < u /\ cmp[mid] > 0  -> rest[<<mid + 1, u>>]

(* Mutant: the upper bound is the last position instead of one past it. *)
bsearchOffByOne(cmp, n) ==
    LET probe[r \in (0 .. n) \X (0 .. n)] == bsearchIn(cmp, probe, r[1], r[2])
    IN  IF n = 0 THEN NotFound ELSE probe[<<0, n - 1>>]

(* bsearch over positions 0..n-1. *)
bsearch(cmp, n) ==
    LET probe[r \in (0 .. n) \X (0 .. n)] == bsearchIn(cmp, probe, r[1], r[2])
    IN  probe[<<0, n>>]

-----------------------------------------------------------------------------
(* Mutant: an element greater than the last probe goes before it. *)
BesideBefore(cmp, low) == low

(* Where pupa_bsearch ends: next to the last probe. *)
Beside(cmp, low) == IF cmp[low] > 0 THEN low + 1 ELSE low

(* Mutant: the search goes on until high is below low. *)
pupa_bsearchInPast(cmp, rest, low, high) ==
    LET mid == (low + high) \div 2
    IN  CASE high = -1                      -> IF cmp[-1] = 0 THEN 0 ELSE Diverges
          [] high >= 0 /\ high < low        -> Beside(cmp, low)
          [] high >= low /\ cmp[mid] = 0    -> mid + 1
          [] high >= low /\ cmp[mid] > 0    -> rest[<<mid + 1, high>>]
          [] high >= low /\ cmp[mid] < 0    -> rest[<<low, mid - 1>>]

(* pupa_bsearch in positions low..high, rest as above.  high is a size_t,   *)
(* so mid - 1 with mid = 0 wraps to the largest one (-1 here).  From there  *)
(* mid is -1 in every call: the search reads the item before the array,     *)
(* returns 0 if that one compares equal and otherwise recurses without end. *)
pupa_bsearchIn(cmp, rest, low, high) ==
    LET mid == (low + high) \div 2
    IN  CASE high = -1                      -> IF cmp[-1] = 0 THEN 0 ELSE Diverges
          [] high >= 0 /\ high <= low       -> Beside(cmp, low)
          [] high > low /\ cmp[mid] = 0     -> mid + 1
          [] high > low /\ cmp[mid] > 0     -> rest[<<mid + 1, high>>]
          [] high > low /\ cmp[mid] < 0     -> rest[<<low, mid - 1>>]

(* pupa_bsearch over positions 0..count, where position count holds the     *)
(* element itself: the position it belongs at.                              *)
pupa_bsearch(cmp, count) ==
    LET probe[r \in (0 .. count) \X (-1 .. count)] ==
            pupa_bsearchIn(cmp, probe, r[1], r[2])
    IN  probe[<<0, count>>]
=============================================================================
