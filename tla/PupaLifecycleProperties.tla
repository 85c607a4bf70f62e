----------------------- MODULE PupaLifecycleProperties -----------------------
(***************************************************************************)
(* What PupaLifecycle is checked for.                                      *)
(***************************************************************************)
EXTENDS PupaLifecycle

Files == [there : BOOLEAN, size : Nat, keys : Nat, used : Nat]

Processes ==
    [pc : Initialising \cup {"call", "out", "segv", "crash"}, prog : Commands,
     last : {"none", "init", "call", "fini"}, ret : Codes, mode : {"ro", "rw"},
     count : Nat, init : BOOLEAN, exists : BOOLEAN, size : Int, fds : Int, leaked : Nat]

(* The file and the processes stay of their types, and there are never more *)
(* items than keys.                                                         *)
LifecycleTypeOK ==
    /\ file \in Files
    /\ proc \in [Procs -> Processes]
    /\ cut \in BOOLEAN
    /\ file.used <= file.keys

(* src/README.md:12 "key_count will be ignored if the filename already      *)
(* exists": once the file has a header, no pupa_init of any process writes  *)
(* another, with another key_count or none of the items.                    *)
HeaderKept ==
    [][ file.keys # 0 => /\ file'.keys = file.keys
                         /\ file'.size = file.size
                         /\ file'.used \in file.used - 1 .. file.used + 1 ]_vars

(* A process that pupa_init returned PUPA_OK to has the whole store mapped  *)
(* that the header describes, whenever in the life of the file it came and  *)
(* whoever created it.                                                      *)
WholeStoreMapped ==
    \A p \in Procs :
        proc[p].init /\ file.keys # 0 =>
            /\ proc[p].size = file.size
            /\ file.size = 16 * StoreSize(file.keys)

(* A writer finds a header when pupa_init is through, unless a creation was *)
(* broken off by a kill or a failing mmap: between ftruncate and the header *)
(* the file is taken for a store by whoever comes then.                     *)
WriterFindsHeader ==
    \A p \in Procs :
        proc[p].init /\ proc[p].mode = "rw" /\ file.keys = 0 => cut

(* Whichever call of it fails, pupa_shm_init leaves no descriptor open but  *)
(* those of a failed ftruncate (pupa_shm.c:69).                             *)
DescriptorsClosed ==
    \A p \in Procs : proc[p].pc = "call" => proc[p].fds = proc[p].leaked

(* The commands of pupa_tool and the benchmark's processes call the library *)
(* only on a store that pupa_init has mapped for them, whole, and that      *)
(* reaches no further than the file, and only to write if it is mapped for  *)
(* writing: whatever fails, and whenever in the life of the file they come. *)
(* Whether the store's own code then faults is PupaStore's matter.          *)
ToolsCallOnMapped ==
    \A p \in Procs : proc[p].pc = "segv" => proc[p].prog = "app"
=============================================================================
