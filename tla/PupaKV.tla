-------------------------------- MODULE PupaKV --------------------------------
(***************************************************************************)
(* What the README promises of the store: a map from keys to their values, *)
(* newest first, at most MaxVer of them per key ("the version number of    *)
(* the last value written is 1").  A call takes effect in one step or not  *)
(* at all.                                                                 *)
(***************************************************************************)
EXTENDS Integers, Sequences

CONSTANTS Keys, Values, MaxVer

VARIABLE store

Init == store = [k \in Keys |-> <<>>]

(* Where a key's values end once one more has been put in front of them. *)
Kept(n) == IF n < MaxVer THEN n + 1 ELSE MaxVer

With(s, k, v) == [s EXCEPT ![k] = SubSeq(<<v>> \o @, 1, Kept(Len(@)))]

Without(s, k) == [s EXCEPT ![k] = <<>>]

(* What one call may make of s. *)
Changed(s) ==
    {With(s, k, v) : k \in Keys, v \in Values}
        \cup {Without(s, k) : k \in {l \in Keys : s[l] # <<>>}}

Next == store' \in Changed(store)

Spec == Init /\ [][Next]_store
=============================================================================
