------------------------------ MODULE MC_readers ------------------------------
(* The texts of MC_store and one reader. *)
EXTENDS PupaReaders, MC_store

CONSTANT r1
=============================================================================
