---------------------------- MODULE PupaLifecycle ----------------------------
(***************************************************************************)
(* pupa_init, pupa_shm_init and pupa_fini, in any number of processes on   *)
(* one file: who creates it, who maps it how, and what the calls find that *)
(* come after, before or instead of a successful pupa_init.  The processes *)
(* are programs of their own that call the API in any order (app), or the  *)
(* commands of pupa_tool and the children of the benchmark.                *)
(*                                                                         *)
(* The store itself is PupaStore; here it is no more than its header, its  *)
(* number of items and whether the memory a call starts from is mapped.    *)
(* Where the faults of the store's own code strike, which PupaStore tells, *)
(* is left open: they may, once there are items.                           *)
(***************************************************************************)
EXTENDS PupaLayout

CONSTANTS
    Procs,      \* processes
    Programs,   \* the programs that each of them may run
    KeyCounts,  \* key_counts that callers ask for
    BenchCount, \* DEFAULT_KEY_COUNT of the benchmark: 10
    IntLimit,   \* 2^31: an int32_t is below it
    Serial,     \* whether callers serialise read-write initialisations
    Faults,     \* what may go wrong outside the code
    MaxLeaks    \* bound on the descriptors a process leaves open

Commands == {"app", "set", "get", "del", "stat", "write", "read"}

ASSUME LifecycleAssumption ==
    /\ Programs \in [Procs -> SUBSET Commands]
    /\ KeyCounts \subseteq Nat \ {0}
    /\ BenchCount \in Nat \ {0}
    /\ IntLimit \in Nat \ {0}
    /\ Serial \in BOOLEAN
    /\ Faults \subseteq {"open", "fstat", "ftruncate", "mmap", "kill"}
    /\ MaxLeaks \in Nat

(* Twice the int32_t is never passed: 6.38 million keys. *)
ASSUME CountAssumption ==
    \A n \in KeyCounts \cup {2, BenchCount} : 16 * StoreSize(n) < 2 * IntLimit

VARIABLES
    file,       \* the store file
    proc,       \* each process: its pupa_ctx and the call it is in
    cut         \* history: a creation of the file was broken off

vars == <<file, proc, cut>>

-----------------------------------------------------------------------------
(* The file: whether it is there, its length in bytes, and of its header    *)
(* the item section's size (0: zeros, nothing written yet) and used.        *)
NoFile == [there |-> FALSE, size |-> 0, keys |-> 0, used |-> 0]

(* What a program does: how it opens the store and for how many keys, its  *)
(* one call, the results after which it calls again, and those after which *)
(* it calls pupa_fini.  (app is free: how it opens is a mode below.)       *)
Codes == {"OK", "ERROR", "OVERFLOW", "NOT_FOUND", "NOT_FOUND_VALUE", "EXCEED_MAXIMUM_NUM"}

Opens(mode, counts, calls, again, close) ==
    [mode |-> mode, counts |-> counts, calls |-> calls, again |-> again, close |-> close]

Program(g) ==
    CASE g = "set"   -> Opens("rw", KeyCounts, {"set"}, {}, {"OK"})
      [] g = "get"   -> Opens("ro", {0}, {"get_by_ver", "get_all_ver"}, {}, {"OK"})
      [] g = "del"   -> Opens("rw", {2}, {"del"}, {}, {"OK"})
      [] g = "stat"  -> Opens("ro", {0}, {"stats"}, {}, {"OK"})
      [] g = "write" -> Opens("rw", {BenchCount}, {"set"}, {"OK"}, Codes \ {"OK"})
      [] g = "read"  -> Opens("ro", {0}, {"get"}, {"OK", "NOT_FOUND"},
                              Codes \ {"OK", "NOT_FOUND"})
      [] g = "app"   -> Opens("rw", KeyCounts, {}, {}, {})

(* A process: pupa_ctx as the loader leaves it, and no call made yet; last  *)
(* and ret, the call before and its result, are what its program looks at.  *)
Fresh(pc, g) ==
    [pc |-> pc, prog |-> g, last |-> "none", ret |-> "OK", mode |-> "ro",
     count |-> 0, init |-> FALSE, exists |-> FALSE, size |-> 0, fds |-> 0, leaked |-> 0]

Initialising == {"open", "fstat", "ftruncate", "mmap", "header"}

Between(p) == proc[p].pc = "call"

(* Not started, or gone: returned or killed (out), by touching memory that  *)
(* pupa_init has not mapped or not for writing (segv), or by a fault in the *)
(* store's code on a store that is mapped (crash).                          *)
Running(p) == proc[p].pc \notin {"out", "segv", "crash"}

Put(p, q) == proc' = [proc EXCEPT ![p] = q]

(* The call is over, and with it what only pupa_init looks at. *)
Done(q, call, ret) ==
    [q EXCEPT !.pc = "call", !.count = 0, !.exists = FALSE,
              !.last = IF q.prog = "app" THEN @ ELSE call,
              !.ret = IF q.prog = "app" THEN @ ELSE ret]

(* Nothing is mapped: pupa_init failed, or pupa_fini is through. *)
Unmapped(q, call, ret) ==
    [Done(q, call, ret) EXCEPT !.init = FALSE, !.mode = "ro", !.size = 0]

Closed(q) == [q EXCEPT !.fds = @ - 1]

(* Mutant: the result of pupa_init is not looked at. *)
MayUnchecked(p, call) ==
    LET q == proc[p]
        g == Program(q.prog)
    IN  /\ Between(p)
        /\ \/ q.prog = "app"
           \/ call = "init" /\ q.last = "none"
           \/ call \in g.calls /\ q.last = "init"
           \/ call \in g.calls /\ q.last = "call" /\ q.ret \in g.again
           \/ call = "fini" /\ q.last = "call" /\ q.ret \in g.close
           \/ call = "exit" /\ q.last = "fini"
           \/ call = "exit" /\ q.last = "call" /\ q.ret \notin g.again \cup g.close

(* What the program may do next: pt_stat, pt_set, pt_del and pt_get call    *)
(* once, write_process and read_process until something fails.  On an error *)
(* the commands return without pupa_fini.                                   *)
May(p, call) ==
    LET q == proc[p]
        g == Program(q.prog)
    IN  /\ Between(p)
        /\ \/ q.prog = "app"
           \/ call = "init" /\ q.last = "none"
           \/ call \in g.calls /\ q.last = "init" /\ q.ret = "OK"
           \/ call \in g.calls /\ q.last = "call" /\ q.ret \in g.again
           \/ call = "fini" /\ q.last = "call" /\ q.ret \in g.close
           \/ call = "exit" /\ q.last = "fini"
           \/ call = "exit" /\ q.last = "init" /\ q.ret # "OK"
           \/ call = "exit" /\ q.last = "call" /\ q.ret \notin g.again \cup g.close

-----------------------------------------------------------------------------
(* pupa_init.  pupa_store_init returns an int32_t, which the size_t of      *)
(* pupa_ctx.shm.size takes with its sign.                                   *)
Int32(n) ==
    LET low == n % (2 * IntLimit)
    IN  IF low < IntLimit THEN low ELSE low - 2 * IntLimit

FileSize(n) == Int32(16 * StoreSize(n))

InitAgain(p) ==
    /\ May(p, "init")
    /\ proc[p].init
    /\ Put(p, Done(proc[p], "init", "ERROR"))
    /\ UNCHANGED <<file, cut>>

Creating(p) == proc[p].pc \in Initialising /\ proc[p].mode = "rw"

InitBegin(p, mode, n) ==
    /\ May(p, "init")
    /\ ~proc[p].init
    /\ proc[p].prog # "app" => mode = Program(proc[p].prog).mode
    /\ IF mode = "ro" THEN n = 0 ELSE n \in Program(proc[p].prog).counts
    /\ Serial /\ mode = "rw" => \A q \in Procs : ~Creating(q)
    /\ Put(p, [proc[p] EXCEPT !.pc = "open", !.mode = mode, !.count = n,
                              !.size = IF mode = "rw" THEN FileSize(n) ELSE @])
    /\ UNCHANGED <<file, cut>>

(* pupa_shm_init: open.  Only a read-write open creates the file. *)
Open(p) ==
    /\ proc[p].pc = "open"
    /\ IF proc[p].mode = "ro" /\ ~file.there
       THEN Put(p, Unmapped(proc[p], "init", "ERROR")) /\ UNCHANGED file
       ELSE /\ Put(p, [proc[p] EXCEPT !.pc = "fstat", !.fds = @ + 1])
            /\ file' = [file EXCEPT !.there = TRUE]
    /\ UNCHANGED cut

OpenFails(p) ==
    /\ "open" \in Faults
    /\ proc[p].pc = "open"
    /\ Put(p, Unmapped(proc[p], "init", "ERROR"))
    /\ UNCHANGED <<file, cut>>

(* Mutant: a file that is there exists, whatever it holds. *)
FstatThere(p) ==
    /\ proc[p].pc = "fstat"
    /\ LET q == proc[p]
       IN  \/ /\ file.size # 0
              /\ Put(p, [q EXCEPT !.pc = "mmap", !.size = file.size])
           \/ /\ file.size = 0 /\ q.mode = "ro"
              /\ Put(p, Unmapped(Closed(q), "init", "ERROR"))
           \/ /\ file.size = 0 /\ q.mode = "rw"
              /\ Put(p, [q EXCEPT !.pc = "ftruncate", !.exists = FALSE])
    /\ UNCHANGED <<file, cut>>

(* An empty file is an error for a reader and to be created by a writer; *)
(* any other is mapped as long as it is.                                 *)
Fstat(p) ==
    /\ proc[p].pc = "fstat"
    /\ LET q == proc[p]
       IN  \/ /\ file.size # 0
              /\ Put(p, [q EXCEPT !.pc = "mmap", !.size = file.size, !.exists = TRUE])
           \/ /\ file.size = 0 /\ q.mode = "ro"
              /\ Put(p, Unmapped(Closed(q), "init", "ERROR"))
           \/ /\ file.size = 0 /\ q.mode = "rw"
              /\ Put(p, [q EXCEPT !.pc = "ftruncate", !.exists = FALSE])
    /\ UNCHANGED <<file, cut>>

(* Mutant: the descriptor is not closed on this way out. *)
FstatFailsOpen(p) ==
    /\ "fstat" \in Faults
    /\ proc[p].pc = "fstat"
    /\ Put(p, Unmapped(proc[p], "init", "ERROR"))
    /\ UNCHANGED <<file, cut>>

FstatFails(p) ==
    /\ "fstat" \in Faults
    /\ proc[p].pc = "fstat"
    /\ Put(p, Unmapped(Closed(proc[p]), "init", "ERROR"))
    /\ UNCHANGED <<file, cut>>

Ftruncate(p) ==
    /\ proc[p].pc = "ftruncate"
    /\ proc[p].size >= 0
    /\ file' = [file EXCEPT !.size = proc[p].size]
    /\ Put(p, [proc[p] EXCEPT !.pc = "mmap"])
    /\ UNCHANGED cut

(* ftruncate fails for want of space or of a size that is none.  This is   *)
(* the one way out of pupa_shm_init that leaves the descriptor open.       *)
FtruncateFails(p) ==
    /\ proc[p].pc = "ftruncate"
    /\ "ftruncate" \in Faults \/ proc[p].size < 0
    /\ proc[p].leaked < MaxLeaks
    /\ Put(p, [Unmapped(proc[p], "init", "ERROR") EXCEPT !.leaked = @ + 1])
    /\ UNCHANGED <<file, cut>>

(* The descriptor is closed, the mapping stays. *)
Mmap(p) ==
    /\ proc[p].pc = "mmap"
    /\ Put(p, [Closed(proc[p]) EXCEPT !.pc = "header"])
    /\ UNCHANGED <<file, cut>>

MmapFails(p) ==
    /\ "mmap" \in Faults
    /\ proc[p].pc = "mmap"
    /\ Put(p, Unmapped(Closed(proc[p]), "init", "ERROR"))
    /\ cut' = (cut \/ ~proc[p].exists)
    /\ UNCHANGED file

(* Mutant: the header is written whenever the store is opened for writing. *)
WriteHeaderAlways(p) ==
    /\ proc[p].pc = "header"
    /\ file' = IF proc[p].mode = "ro" THEN file
               ELSE [file EXCEPT !.keys = proc[p].count, !.used = 0]
    /\ Put(p, [Done(proc[p], "init", "OK") EXCEPT !.init = TRUE])
    /\ UNCHANGED cut

(* The rest of pupa_init: the header of a new file, and the switch. *)
WriteHeader(p) ==
    /\ proc[p].pc = "header"
    /\ file' = IF proc[p].exists THEN file
               ELSE [file EXCEPT !.keys = proc[p].count, !.used = 0]
    /\ Put(p, [Done(proc[p], "init", "OK") EXCEPT !.init = TRUE])
    /\ UNCHANGED cut

-----------------------------------------------------------------------------
(* The calls.  None asks whether the library is initialised: before         *)
(* pupa_init, and after pupa_fini, store_hdr is NULL or no longer mapped;   *)
(* and a mapping may be longer than the file if that was cut after it.      *)
Mapped(q) == q.init /\ q.size <= file.size

Segv(p) == Put(p, Fresh("segv", proc[p].prog))

(* A call on items ends in a SIGSEGV of the store's own making: the endless *)
(* recursion of pupa_bsearch, the copies of the compactions and whatever    *)
(* follows an offset or a length that those, or an index grown out of its   *)
(* area, have made wild.                                                    *)
Crash(p) ==
    /\ Mapped(proc[p])
    /\ file.used > 0
    /\ Put(p, Fresh("crash", proc[p].prog))

Result(p, ret) == Put(p, Done(proc[p], "call", ret))

(* Mutant: the size of the item section is not asked for. *)
UsedAfterSetUnchecked == {file.used, file.used + 1} \ {0}

(* pupa_set replaces an item, or adds one that the section has room for. *)
UsedAfterSet == {file.used, file.used + 1} \cap 1 .. file.keys

(* An item section without room returns before anything is written, which  *)
(* in a file of zeros is every pupa_set; so does a key longer than all of  *)
(* its section, when there are no items to copy.  A crash may come before   *)
(* or, in pupa_sort, after the new item is counted.                        *)
Set(p) ==
    /\ May(p, "set")
    /\ \/ /\ Mapped(proc[p]) => proc[p].mode = "ro" /\ file.keys > 0
          /\ Segv(p)
          /\ UNCHANGED file
       \/ /\ Mapped(proc[p])
          /\ proc[p].mode = "rw" \/ file.used = 0
          /\ Result(p, "OVERFLOW")
          /\ UNCHANGED file
       \/ /\ Mapped(proc[p])
          /\ proc[p].mode = "rw"
          /\ Result(p, "OK")
          /\ \E used \in UsedAfterSet : file' = [file EXCEPT !.used = used]
       \/ /\ Crash(p)
          /\ proc[p].mode = "rw"
          /\ \E used \in UsedAfterSet : file' = [file EXCEPT !.used = used]
    /\ UNCHANGED cut

(* Of an empty index nothing is copied and nothing found. *)
Del(p) ==
    /\ May(p, "del")
    /\ \/ /\ Mapped(proc[p]) => proc[p].mode = "ro" /\ file.used > 0
          /\ Segv(p)
          /\ UNCHANGED file
       \/ /\ Mapped(proc[p])
          /\ proc[p].mode = "rw" \/ file.used = 0
          /\ Result(p, "NOT_FOUND")
          /\ UNCHANGED file
       \/ /\ Mapped(proc[p])
          /\ proc[p].mode = "rw" /\ file.used > 0
          /\ Result(p, "OK")
          /\ file' = [file EXCEPT !.used = @ - 1]
       \/ /\ Crash(p)
          /\ proc[p].mode = "rw"
          /\ UNCHANGED file
    /\ UNCHANGED cut

(* In a file of zeros max_ver_num is 0: below every version but pupa_get's. *)
(* A version may be above max_ver_num, or not yet written.  A crash is in   *)
(* the search, or where pupa_tool prints what it was given.                 *)
Get(p, call) ==
    /\ May(p, call)
    /\ \/ ~Mapped(proc[p]) /\ Segv(p)
       \/ Crash(p)
       \/ /\ Mapped(proc[p])
          /\ \E ret \in {"EXCEED_MAXIMUM_NUM", "NOT_FOUND", "NOT_FOUND_VALUE", "OK"} :
                /\ ret \in {"EXCEED_MAXIMUM_NUM", "NOT_FOUND_VALUE"} => call = "get_by_ver"
                /\ call = "get_by_ver" /\ file.keys = 0 => ret = "EXCEED_MAXIMUM_NUM"
                /\ ret \in {"NOT_FOUND_VALUE", "OK"} => file.used > 0
                /\ Result(p, ret)
    /\ UNCHANGED <<file, cut>>

(* pupa_store_stats prints the header, and has pupa_store_dump read on in  *)
(* strides that may leave the file: in its last page that does no harm.    *)
Stats(p) ==
    /\ May(p, "stats")
    /\ \/ ~Mapped(proc[p]) /\ Segv(p)
       \/ Crash(p) /\ DumpEnd(file.keys, file.used) > StoreSize(file.keys)
       \/ Mapped(proc[p]) /\ Result(p, "OK")
    /\ UNCHANGED <<file, cut>>

(* pupa_fini unmaps what is mapped and is content without. *)
Fini(p) ==
    /\ May(p, "fini")
    /\ Put(p, Unmapped(proc[p], "fini", "OK"))
    /\ UNCHANGED <<file, cut>>

-----------------------------------------------------------------------------
(* A process starts, returns from main, or is killed wherever it is; the   *)
(* file stays.                                                             *)
Start(p, g) ==
    /\ ~Running(p)
    /\ g \in Programs[p]
    /\ Put(p, Fresh("call", g))
    /\ UNCHANGED <<file, cut>>

Exit(p) ==
    /\ May(p, "exit")
    /\ Put(p, Fresh("out", "app"))
    /\ UNCHANGED <<file, cut>>

(* The file is made as long as it has to be and has no header yet. *)
HalfMade(p) == proc[p].pc \in {"mmap", "header"} /\ ~proc[p].exists

Kill(p) ==
    /\ Running(p)
    /\ Put(p, Fresh("out", "app"))
    /\ cut' = (cut \/ HalfMade(p))
    /\ UNCHANGED file

Init ==
    /\ file = NoFile
    /\ proc = [p \in Procs |-> Fresh("out", "app")]
    /\ cut = FALSE

(* A step of the process itself. *)
Step(p) ==
    \/ InitAgain(p)
    \/ \E mode \in {"ro", "rw"}, n \in KeyCounts \cup {0, 2, BenchCount} :
          InitBegin(p, mode, n)
    \/ Open(p) \/ OpenFails(p)
    \/ Fstat(p) \/ FstatFails(p)
    \/ Ftruncate(p) \/ FtruncateFails(p)
    \/ Mmap(p) \/ MmapFails(p)
    \/ WriteHeader(p)
    \/ Set(p) \/ Del(p) \/ Stats(p)
    \/ \E call \in {"get", "get_by_ver", "get_all_ver"} : Get(p, call)
    \/ Fini(p)
    \/ Exit(p)

Next ==
    \E p \in Procs :
        \/ \E g \in Commands : Start(p, g)
        \/ Step(p)
        \/ "kill" \in Faults /\ Kill(p)

Spec == Init /\ [][Next]_vars
=============================================================================
