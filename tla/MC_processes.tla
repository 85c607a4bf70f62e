---------------------------- MODULE MC_processes ----------------------------
(* A benchmark of one writer and one reader, and a program of its own. *)
EXTENDS PupaBench, PupaLifecycleProperties

CONSTANTS p1, p2, p3

ForkOrder == <<p1, p2>>

Roles == [p \in Procs |-> CASE p = p1 -> {"write"}
                            [] p = p2 -> {"read"}
                            [] p = p3 -> {"app", "set", "get", "del", "stat"}]
=============================================================================
