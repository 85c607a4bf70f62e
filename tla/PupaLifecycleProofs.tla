------------------------- MODULE PupaLifecycleProofs -------------------------
(***************************************************************************)
(* Theorems about PupaLifecycle, for any number of processes, programs and *)
(* key counts and whatever fails.                                          *)
(***************************************************************************)
EXTENDS PupaLifecycleProperties, TLAPS

Counts == KeyCounts \cup {2, BenchCount}

Replies == {"none", "init", "call", "fini"}

(* A process has one descriptor open from open to close, and those leaked. *)
Holds(q) == IF q.pc \in {"fstat", "ftruncate", "mmap"} THEN q.leaked + 1 ELSE q.leaked

TypeInv ==
    /\ LifecycleTypeOK
    /\ \A p \in Procs : proc[p].fds = Holds(proc[p])

(* Creating and HalfMade of a process's record. *)
Creates(q) == q.pc \in Initialising /\ q.mode = "rw"

Half(q) == q.pc \in {"mmap", "header"} /\ ~q.exists

(* What a process has seen of the file f still holds: a creator asks for    *)
(* the size of a number of keys, truncates an empty file, and has it for    *)
(* itself until the header is written; who finds a file has all of it, and  *)
(* a writer finds one without a header only after a broken creation.        *)
Sound(q, f, c) ==
    /\ q.pc \in {"open", "fstat", "ftruncate"} /\ q.mode = "rw" =>
           q.count \in Counts /\ q.size = FileSize(q.count)
    /\ q.pc = "ftruncate" => q.mode = "rw" /\ ~q.exists /\ f.size = 0
    /\ Half(q) =>
           /\ q.mode = "rw" /\ q.count \in Counts
           /\ q.size = f.size /\ f.size = 16 * StoreSize(q.count)
           /\ f.keys = 0
    /\ q.init \/ (q.pc \in {"mmap", "header"} /\ q.exists) =>
           /\ q.size = f.size /\ f.size # 0
           /\ q.mode = "rw" /\ f.keys = 0 => c
    /\ q.init => q.pc = "call"

(* With initialisations in turn there is one creator at most, and a file    *)
(* without a header is being made or was given up.                          *)
SerialInv ==
    /\ \A p \in Procs, r \in Procs :
          Creates(proc[p]) /\ Creates(proc[r]) => p = r
    /\ \A p \in Procs : Sound(proc[p], file, cut)
    /\ file.size = 0 => file.keys = 0
    /\ file.keys # 0 => file.size = 16 * StoreSize(file.keys)
    /\ file.size # 0 /\ file.keys = 0 /\ ~cut => \E p \in Procs : Half(proc[p])

LifeInv == TypeInv /\ (Serial => SerialInv)

-----------------------------------------------------------------------------
(* The records of processes, field by field. *)
Pcs == Initialising \cup {"call", "out", "segv", "crash"}

Is(r, pc, mode, count, init, exists, size, fds, leaked) ==
    /\ r \in Processes
    /\ r.pc = pc /\ r.mode = mode /\ r.count = count /\ r.init = init
    /\ r.exists = exists /\ r.size = size /\ r.fds = fds /\ r.leaked = leaked

(* What the steps change of a record. *)
LEMMA PcIs ==
    \A q \in Processes, x \in Pcs :
        Is([q EXCEPT !.pc = x],
           x, q.mode, q.count, q.init, q.exists, q.size, q.fds, q.leaked)
<1> TAKE q \in Processes, x \in Pcs
<1> QED
  BY DEF Is, Processes, Pcs

LEMMA InitIs ==
    \A q \in Processes, i \in BOOLEAN :
        Is([q EXCEPT !.init = i],
           q.pc, q.mode, q.count, i, q.exists, q.size, q.fds, q.leaked)
<1> TAKE q \in Processes, i \in BOOLEAN
<1> QED
  BY DEF Is, Processes

LEMMA LeakedIs ==
    \A q \in Processes, n \in Nat :
        Is([q EXCEPT !.leaked = n],
           q.pc, q.mode, q.count, q.init, q.exists, q.size, q.fds, n)
<1> TAKE q \in Processes, n \in Nat
<1> QED
  BY DEF Is, Processes

LEMMA OpenIs ==
    \A q \in Processes, x \in Pcs, f \in Int :
        Is([q EXCEPT !.pc = x, !.fds = f],
           x, q.mode, q.count, q.init, q.exists, q.size, f, q.leaked)
<1> TAKE q \in Processes, x \in Pcs, f \in Int
<1> QED
  BY DEF Is, Processes, Pcs

LEMMA ExistsIs ==
    \A q \in Processes, x \in Pcs, e \in BOOLEAN :
        Is([q EXCEPT !.pc = x, !.exists = e],
           x, q.mode, q.count, q.init, e, q.size, q.fds, q.leaked)
<1> TAKE q \in Processes, x \in Pcs, e \in BOOLEAN
<1> QED
  BY DEF Is, Processes, Pcs

LEMMA FstatIs ==
    \A q \in Processes, x \in Pcs, s \in Int, e \in BOOLEAN :
        Is([q EXCEPT !.pc = x, !.size = s, !.exists = e],
           x, q.mode, q.count, q.init, e, s, q.fds, q.leaked)
<1> TAKE q \in Processes, x \in Pcs, s \in Int, e \in BOOLEAN
<1> QED
  BY DEF Is, Processes, Pcs

LEMMA BeginIs ==
    \A q \in Processes, x \in Pcs, m \in {"ro", "rw"}, n \in Nat, s \in Int :
        Is([q EXCEPT !.pc = x, !.mode = m, !.count = n, !.size = s],
           x, m, n, q.init, q.exists, s, q.fds, q.leaked)
<1> TAKE q \in Processes, x \in Pcs, m \in {"ro", "rw"}, n \in Nat, s \in Int
<1> QED
  BY DEF Is, Processes, Pcs

LEMMA UnmapIs ==
    \A q \in Processes, i \in BOOLEAN, m \in {"ro", "rw"}, s \in Int :
        Is([q EXCEPT !.init = i, !.mode = m, !.size = s],
           q.pc, m, q.count, i, q.exists, s, q.fds, q.leaked)
<1> TAKE q \in Processes, i \in BOOLEAN, m \in {"ro", "rw"}, s \in Int
<1> QED
  BY DEF Is, Processes

LEMMA ClosedIs ==
    ASSUME NEW q \in Processes
    PROVE  Is(Closed(q), q.pc, q.mode, q.count, q.init, q.exists, q.size,
              q.fds - 1, q.leaked)
BY DEF Is, Closed, Processes

LEMMA FreshIs ==
    ASSUME NEW pc \in Pcs, NEW g \in Commands
    PROVE  Is(Fresh(pc, g), pc, "ro", 0, FALSE, FALSE, 0, 0, 0)
BY DEF Is, Fresh, Processes, Codes, Pcs

LEMMA DoneIs ==
    ASSUME NEW q \in Processes, NEW call \in Replies, NEW ret \in Codes
    PROVE  Is(Done(q, call, ret),
              "call", q.mode, 0, q.init, FALSE, q.size, q.fds, q.leaked)
BY DEF Is, Done, Processes, Replies

LEMMA UnmappedIs ==
    ASSUME NEW q \in Processes, NEW call \in Replies, NEW ret \in Codes
    PROVE  Is(Unmapped(q, call, ret),
              "call", "ro", 0, FALSE, FALSE, 0, q.fds, q.leaked)
<1> DEFINE d == Done(q, call, ret)
           u == [d EXCEPT !.init = FALSE, !.mode = "ro", !.size = 0]
<1>1. Is(d, "call", q.mode, 0, q.init, FALSE, q.size, q.fds, q.leaked)
  BY DoneIs
<1>2. FALSE \in BOOLEAN /\ "ro" \in {"ro", "rw"}
  OBVIOUS
<1>3. 0 \in Int
  OBVIOUS
<1>4. Unmapped(q, call, ret) = u
  BY DEF Unmapped
<1> HIDE DEF d
<1>5. d \in Processes
  BY <1>1 DEF Is
<1>6. Is(u, d.pc, "ro", d.count, FALSE, d.exists, 0, d.fds, d.leaked)
  BY <1>2, <1>3, <1>5, UnmapIs, Zenon
<1> HIDE DEF u
<1> QED
  BY <1>1, <1>4, <1>6 DEF Is

-----------------------------------------------------------------------------
(* One process changes, and of the file no more than there and used. *)
LEMMA Keep ==
    ASSUME LifeInv, NEW p \in Procs, NEW r \in Processes,
           Put(p, r), r.fds = Holds(r),
           file' \in Files, file'.used <= file'.keys, cut' \in BOOLEAN,
           file'.keys = file.keys, file'.size = file.size, cut => cut',
           Serial => /\ Sound(r, file, cut')
                     /\ Creates(r) => \A s \in Procs \ {p} : ~Creates(proc[s])
                     /\ Half(proc[p]) => Half(r) \/ cut'
    PROVE  LifeInv'
<1>1. /\ proc'[p] = r
      /\ \A s \in Procs \ {p} : proc'[s] = proc[s]
      /\ proc' \in [Procs -> Processes]
  BY DEF LifeInv, TypeInv, LifecycleTypeOK, Put
<1>2. TypeInv'
  BY <1>1 DEF LifeInv, TypeInv, LifecycleTypeOK
<1>3. ASSUME Serial PROVE SerialInv'
  <2>1. SerialInv
    BY <1>3 DEF LifeInv
  <2>2. \A s \in Procs : Sound(proc'[s], file', cut')
    BY <1>1, <1>3, <2>1 DEF SerialInv, Sound
  <2>3. \A s \in Procs, t \in Procs :
            Creates(proc'[s]) /\ Creates(proc'[t]) => s = t
    <3>1. \A s \in Procs, t \in Procs : Creates(proc[s]) /\ Creates(proc[t]) => s = t
      BY <2>1 DEF SerialInv
    <3> QED
      BY <1>1, <1>3, <3>1
  <2>4. ASSUME file'.size # 0, file'.keys = 0, ~cut'
        PROVE  \E s \in Procs : Half(proc'[s])
    <3>1. PICK s \in Procs : Half(proc[s])
      BY <2>1, <2>4 DEF SerialInv
    <3>2. CASE s = p
      BY <1>1, <1>3, <2>4, <3>1, <3>2
    <3>3. CASE s # p
      BY <1>1, <3>1, <3>3
    <3> QED
      BY <3>2, <3>3
  <2> QED
    BY <2>1, <2>2, <2>3, <2>4 DEF SerialInv
<1> QED
  BY <1>2, <1>3 DEF LifeInv

(* A process comes to rest between two calls or ends, and what it has *)
(* mapped, if anything, it had mapped before.                         *)
LEMMA Rest ==
    ASSUME LifeInv, NEW p \in Procs, NEW r \in Processes,
           Put(p, r), r.pc \in {"call", "out", "segv", "crash"}, r.fds = r.leaked,
           file' \in Files, file'.used <= file'.keys, cut' \in BOOLEAN,
           file'.keys = file.keys, file'.size = file.size, cut => cut',
           r.init => /\ r.pc = "call" /\ proc[p].init
                     /\ r.size = proc[p].size /\ r.mode = proc[p].mode,
           Half(proc[p]) => cut'
    PROVE  LifeInv'
<1>1. r.fds = Holds(r) /\ ~Creates(r) /\ ~Half(r)
  BY DEF Holds, Creates, Half, Initialising
<1>2. Serial => Sound(r, file, cut')
  <2>1. Serial => Sound(proc[p], file, cut)
    BY DEF LifeInv, SerialInv
  <2>2. r.init => proc[p].init /\ r.size = proc[p].size /\ r.mode = proc[p].mode
    OBVIOUS
  <2> QED
    BY <1>1, <2>1, <2>2 DEF Sound, Half
<1> QED
  BY <1>1, <1>2, Keep

(* The file, field by field. *)
LEMMA FileIs ==
    ASSUME NEW f \in Files
    PROVE  /\ \A x \in BOOLEAN : /\ [f EXCEPT !.there = x] \in Files
                                 /\ [f EXCEPT !.there = x].size = f.size
                                 /\ [f EXCEPT !.there = x].keys = f.keys
                                 /\ [f EXCEPT !.there = x].used = f.used
           /\ \A x \in Nat : /\ [f EXCEPT !.size = x] \in Files
                             /\ [f EXCEPT !.size = x].size = x
                             /\ [f EXCEPT !.size = x].keys = f.keys
                             /\ [f EXCEPT !.size = x].used = f.used
           /\ \A x \in Nat : /\ [f EXCEPT !.used = x] \in Files
                             /\ [f EXCEPT !.used = x].size = f.size
                             /\ [f EXCEPT !.used = x].keys = f.keys
                             /\ [f EXCEPT !.used = x].used = x
           /\ \A x \in Nat : /\ [f EXCEPT !.keys = x, !.used = 0] \in Files
                             /\ [f EXCEPT !.keys = x, !.used = 0].size = f.size
                             /\ [f EXCEPT !.keys = x, !.used = 0].keys = x
                             /\ [f EXCEPT !.keys = x, !.used = 0].used = 0
<1>1. ASSUME NEW x \in BOOLEAN
      PROVE  /\ [f EXCEPT !.there = x] \in Files
             /\ [f EXCEPT !.there = x].size = f.size
             /\ [f EXCEPT !.there = x].keys = f.keys
             /\ [f EXCEPT !.there = x].used = f.used
  BY DEF Files
<1>2. ASSUME NEW x \in Nat
      PROVE  /\ [f EXCEPT !.size = x] \in Files
             /\ [f EXCEPT !.size = x].size = x
             /\ [f EXCEPT !.size = x].keys = f.keys
             /\ [f EXCEPT !.size = x].used = f.used
  BY DEF Files
<1>3. ASSUME NEW x \in Nat
      PROVE  /\ [f EXCEPT !.used = x] \in Files
             /\ [f EXCEPT !.used = x].size = f.size
             /\ [f EXCEPT !.used = x].keys = f.keys
             /\ [f EXCEPT !.used = x].used = x
  BY DEF Files
<1>4. ASSUME NEW x \in Nat
      PROVE  /\ [f EXCEPT !.keys = x, !.used = 0] \in Files
             /\ [f EXCEPT !.keys = x, !.used = 0].size = f.size
             /\ [f EXCEPT !.keys = x, !.used = 0].keys = x
             /\ [f EXCEPT !.keys = x, !.used = 0].used = 0
  BY DEF Files
<1> QED
  BY <1>1, <1>2, <1>3, <1>4

-----------------------------------------------------------------------------
(* The size pupa_init asks for is an integer, and below the second bound *)
(* exact or negative.                                                    *)
LEMMA StoreSizeType ==
    ASSUME NEW n \in Nat
    PROVE  StoreSize(n) \in Nat \ {0}
<1> DEFINE i == ItemArea(n)
           k == KeyArea(n)
           v == ValueArea(n)
<1>1. i \in Nat /\ k \in Nat /\ v \in Nat
  <2>1. KeyAvg * n \in Nat /\ ValAvg * n \in Nat
    BY LayoutAssumption
  <2> QED
    BY <2>1, LayoutAssumption DEF ItemArea, KeyArea, ValueArea
<1>2. StoreSize(n) = HdrSlots + 2 * i + 2 * k + 2 * v
  BY DEF StoreSize
<1> HIDE DEF i, k, v
<1> QED
  BY <1>1, <1>2, LayoutAssumption

LEMMA CountsType ==
    ASSUME NEW n \in Counts
    PROVE  n \in Nat /\ n # 0 /\ 16 * StoreSize(n) < 2 * IntLimit
<1>1. n \in Nat \ {0}
  BY LifecycleAssumption DEF Counts
<1> QED
  BY <1>1, CountAssumption DEF Counts

LEMMA FileSizeType ==
    ASSUME NEW n \in Nat
    PROVE  /\ FileSize(n) \in Int
           /\ 16 * StoreSize(n) < 2 * IntLimit =>
                  \/ FileSize(n) = 16 * StoreSize(n)
                  \/ FileSize(n) < 0
<1> DEFINE x == 16 * StoreSize(n)
           l == IntLimit
<1>1. x \in Nat /\ l \in Nat /\ l > 0
  BY StoreSizeType, LifecycleAssumption
<1>2. FileSize(n) = Int32(x)
  BY DEF FileSize
<1> HIDE DEF x, l
<1>3. x % (2 * l) \in 0 .. 2 * l - 1
  BY <1>1
<1>4. x < 2 * l => x % (2 * l) = x
  BY <1>1
<1>5. Int32(x) = IF x % (2 * l) < l THEN x % (2 * l) ELSE (x % (2 * l)) - 2 * l
  BY DEF Int32, l
<1> QED
  BY <1>1, <1>2, <1>3, <1>4, <1>5 DEF x, l

-----------------------------------------------------------------------------
(* What a step of a process starts from. *)
LEMMA Before ==
    ASSUME LifeInv, NEW p \in Procs
    PROVE  /\ proc[p] \in Processes /\ proc[p].pc \in Pcs
           /\ proc[p].fds = Holds(proc[p]) /\ proc[p].fds \in Int /\ proc[p].leaked \in Nat
           /\ proc[p].size \in Int /\ proc[p].count \in Nat
           /\ file \in Files /\ file.used <= file.keys /\ cut \in BOOLEAN
           /\ file.size \in Nat /\ file.keys \in Nat /\ file.used \in Nat
           /\ "init" \in Replies /\ "call" \in Replies /\ "fini" \in Replies
           /\ Codes # {} /\ "OK" \in Codes /\ "ERROR" \in Codes
           /\ Serial => SerialInv /\ Sound(proc[p], file, cut)
BY DEF LifeInv, TypeInv, LifecycleTypeOK, Processes, Files, Pcs, Replies, Codes, SerialInv

(* pupa_init fails. *)
LEMMA FailKeeps ==
    ASSUME LifeInv, NEW p \in Procs,
           \/ InitAgain(p) \/ OpenFails(p) \/ FstatFails(p)
           \/ FtruncateFails(p) \/ MmapFails(p)
           \/ (Open(p) /\ proc[p].mode = "ro" /\ ~file.there)
           \/ (Fstat(p) /\ proc[p].mode = "ro" /\ file.size = 0)
    PROVE  LifeInv'
<1> DEFINE q == proc[p]
           u == Unmapped(q, "init", "ERROR")
           c == Unmapped(Closed(q), "init", "ERROR")
<1>1. Is(u, "call", "ro", 0, FALSE, FALSE, 0, q.fds, q.leaked)
  BY Before, UnmappedIs
<1>2. Is(c, "call", "ro", 0, FALSE, FALSE, 0, q.fds - 1, q.leaked)
  <2>1. Closed(q) \in Processes /\ Closed(q).fds = q.fds - 1 /\ Closed(q).leaked = q.leaked
    BY Before, ClosedIs DEF Is
  <2> QED
    BY <2>1, Before, UnmappedIs
<1>3. CASE InitAgain(p)
  <2> DEFINE d == Done(q, "init", "ERROR")
  <2>1. Is(d, "call", q.mode, 0, q.init, FALSE, q.size, q.fds, q.leaked)
    BY Before, DoneIs
  <2>2. Put(p, d) /\ UNCHANGED <<file, cut>> /\ q.pc = "call"
    BY <1>3 DEF InitAgain, May, Between
  <2> HIDE DEF d
  <2> QED
    BY <2>1, <2>2, Before, Rest DEF Is, Holds, Half
<1>4. CASE OpenFails(p) \/ (Open(p) /\ q.mode = "ro" /\ ~file.there)
  <2>1. Put(p, u) /\ UNCHANGED <<file, cut>> /\ q.pc = "open"
    BY <1>4 DEF OpenFails, Open
  <2> HIDE DEF u
  <2> QED
    BY <1>1, <2>1, Before, Rest DEF Is, Holds, Half
<1>5. CASE FstatFails(p) \/ (Fstat(p) /\ q.mode = "ro" /\ file.size = 0)
  <2>1. Put(p, c) /\ UNCHANGED <<file, cut>> /\ q.pc = "fstat"
    BY <1>5 DEF FstatFails, Fstat
  <2> HIDE DEF c
  <2> QED
    BY <1>2, <2>1, Before, Rest DEF Is, Holds, Half
<1>6. CASE FtruncateFails(p)
  <2> DEFINE r == [u EXCEPT !.leaked = @ + 1]
  <2>1. Put(p, r) /\ UNCHANGED <<file, cut>> /\ q.pc = "ftruncate"
    BY <1>6 DEF FtruncateFails
  <2>2. u \in Processes /\ u.leaked + 1 \in Nat
    BY <1>1, Before DEF Is
  <2> HIDE DEF u
  <2>3. Is(r, u.pc, u.mode, u.count, u.init, u.exists, u.size, u.fds, u.leaked + 1)
    BY <2>2, LeakedIs, Zenon
  <2> HIDE DEF r
  <2> QED
    BY <1>1, <2>1, <2>3, Before, Rest DEF Is, Holds, Half
<1>7. CASE MmapFails(p)
  <2>1. Put(p, c) /\ UNCHANGED file /\ q.pc = "mmap" /\ cut' = (cut \/ ~q.exists)
    BY <1>7 DEF MmapFails
  <2> HIDE DEF c
  <2>2. cut' \in BOOLEAN /\ (cut => cut') /\ (Half(q) => cut')
    BY <2>1, Before DEF Half
  <2> QED
    BY <1>2, <2>1, <2>2, Before, Rest DEF Is, Holds
<1> QED
  BY <1>3, <1>4, <1>5, <1>6, <1>7

(* A process starts, ends, or is killed; pupa_fini; and the calls. *)
LEMMA LifeKeeps ==
    ASSUME LifeInv, NEW p \in Procs,
           \/ \E g \in Commands : Start(p, g)
           \/ Exit(p) \/ Kill(p) \/ Fini(p)
    PROVE  LifeInv'
<1> DEFINE q == proc[p]
<1>1. CASE \E g \in Commands : Start(p, g)
  <2>1. PICK g \in Commands : Start(p, g)
    BY <1>1
  <2> DEFINE r == Fresh("call", g)
  <2>2. Is(r, "call", "ro", 0, FALSE, FALSE, 0, 0, 0)
    BY FreshIs DEF Pcs
  <2>3. Put(p, r) /\ UNCHANGED <<file, cut>> /\ q.pc \in {"out", "segv", "crash"}
    BY <2>1 DEF Start, Running
  <2> HIDE DEF r
  <2> QED
    BY <2>2, <2>3, Before, Rest DEF Is, Half
<1>2. CASE Exit(p) \/ Kill(p)
  <2> DEFINE r == Fresh("out", "app")
  <2>1. Is(r, "out", "ro", 0, FALSE, FALSE, 0, 0, 0)
    BY FreshIs DEF Pcs, Commands
  <2>2. Put(p, r) /\ UNCHANGED file
    BY <1>2 DEF Exit, Kill
  <2>3. cut' \in BOOLEAN /\ (cut => cut') /\ (Half(q) => cut')
    <3>1. CASE Exit(p)
      BY <3>1, Before DEF Exit, May, Between, Half
    <3>2. CASE Kill(p)
      BY <3>2, Before DEF Kill, Half, HalfMade
    <3> QED
      BY <1>2, <3>1, <3>2
  <2> HIDE DEF r
  <2> QED
    BY <2>1, <2>2, <2>3, Before, Rest DEF Is
<1>3. CASE Fini(p)
  <2> DEFINE r == Unmapped(q, "fini", "OK")
  <2>1. Is(r, "call", "ro", 0, FALSE, FALSE, 0, q.fds, q.leaked)
    BY Before, UnmappedIs
  <2>2. Put(p, r) /\ UNCHANGED <<file, cut>> /\ q.pc = "call"
    BY <1>3 DEF Fini, May, Between
  <2> HIDE DEF r
  <2> QED
    BY <2>1, <2>2, Before, Rest DEF Is, Holds, Half
<1> QED
  BY <1>1, <1>2, <1>3

(* A call returns or faults; of the file it changes no more than used. *)
LEMMA CallKeeps ==
    ASSUME LifeInv, NEW p \in Procs,
           \/ Set(p) \/ Del(p) \/ Stats(p)
           \/ \E call \in {"get", "get_by_ver", "get_all_ver"} : Get(p, call)
    PROVE  LifeInv'
<1> DEFINE q == proc[p]
<1>1. q.pc = "call" /\ cut' = cut
  BY DEF Set, Del, Stats, Get, May, Between
<1>2. \/ Segv(p) \/ Crash(p)
      \/ \E ret \in Codes : Result(p, ret)
  BY DEF Set, Del, Stats, Get, Codes
<1>3. file' \in Files /\ file'.used <= file'.keys
      /\ file'.keys = file.keys /\ file'.size = file.size
  <2>1. \/ file' = file
        \/ \E used \in Nat : used <= file.keys /\ file' = [file EXCEPT !.used = used]
    <3>1. CASE Set(p)
      BY <3>1, Before DEF Set, UsedAfterSet
    <3>2. CASE Del(p)
      <4>1. \/ file' = file
            \/ file.used > 0 /\ file' = [file EXCEPT !.used = file.used - 1]
        BY <3>2 DEF Del
      <4>2. file.used > 0 => file.used - 1 \in Nat /\ file.used - 1 <= file.keys
        BY Before
      <4> QED
        BY <4>1, <4>2
    <3>3. CASE Stats(p) \/ \E call \in {"get", "get_by_ver", "get_all_ver"} : Get(p, call)
      BY <3>3 DEF Stats, Get
    <3> QED
      BY <3>1, <3>2, <3>3
  <2>2. CASE file' = file
    BY <2>2, Before
  <2>3. CASE \E used \in Nat : used <= file.keys /\ file' = [file EXCEPT !.used = used]
    <3>1. PICK used \in Nat : used <= file.keys /\ file' = [file EXCEPT !.used = used]
      BY <2>3
    <3> QED
      BY <3>1, Before, FileIs
  <2> QED
    BY <2>1, <2>2, <2>3
<1>4. CASE Segv(p) \/ Crash(p)
  <2>1. PICK pc \in {"segv", "crash"} : Put(p, Fresh(pc, q.prog))
    BY <1>4 DEF Segv, Crash
  <2> DEFINE r == Fresh(pc, q.prog)
  <2>2. Is(r, pc, "ro", 0, FALSE, FALSE, 0, 0, 0)
    BY Before, FreshIs DEF Pcs, Processes
  <2> HIDE DEF r
  <2> QED
    BY <1>1, <1>3, <2>1, <2>2, Before, Rest DEF Is, Half, r
<1>5. CASE \E ret \in Codes : Result(p, ret)
  <2>1. PICK ret \in Codes : Result(p, ret)
    BY <1>5
  <2> DEFINE r == Done(q, "call", ret)
  <2>2. Is(r, "call", q.mode, 0, q.init, FALSE, q.size, q.fds, q.leaked)
    BY Before, DoneIs
  <2>3. Put(p, r)
    BY <2>1 DEF Result
  <2> HIDE DEF r
  <2> QED
    BY <1>1, <1>3, <2>2, <2>3, Before, Rest DEF Is, Holds, Half
<1> QED
  BY <1>2, <1>4, <1>5

(* pupa_init begins: by CountAssumption, for the size of a count it knows. *)
LEMMA CountsOf ==
    ASSUME NEW g \in Commands
    PROVE  Program(g).mode = "rw" => Program(g).counts \subseteq Counts
BY DEF Commands, Program, Opens, Counts

LEMMA BeginKeeps ==
    ASSUME LifeInv, NEW p \in Procs,
           NEW mode \in {"ro", "rw"}, NEW n \in Counts \cup {0}, InitBegin(p, mode, n)
    PROVE  LifeInv'
<1> DEFINE q == proc[p]
           size == IF mode = "rw" THEN FileSize(n) ELSE q.size
           r == [q EXCEPT !.pc = "open", !.mode = mode, !.count = n, !.size = size]
<1>1. /\ Put(p, r) /\ UNCHANGED <<file, cut>>
      /\ q.pc = "call" /\ ~q.init
      /\ Serial /\ mode = "rw" => \A s \in Procs : ~Creating(s)
  BY DEF InitBegin, May, Between
<1>2. n \in Nat /\ size \in Int
  BY Before, FileSizeType, LifecycleAssumption DEF Counts
<1>3. "open" \in Pcs
  BY DEF Pcs, Initialising
<1>4. q \in Processes /\ q.fds = Holds(q)
  BY Before
<1>5. mode = "rw" => n \in Counts /\ size = FileSize(n)
  <2>1. q.prog \in Commands
    BY <1>4 DEF Processes
  <2>2. mode = "rw" => /\ n \in Program(q.prog).counts
                       /\ Program(q.prog).mode = "rw"
    <3>1. Program("app").mode = "rw"
      BY DEF Program, Opens
    <3> QED
      BY <3>1 DEF InitBegin
  <2> QED
    BY <2>1, <2>2, CountsOf
<1> HIDE DEF size, q
<1>6. Is(r, "open", mode, n, q.init, q.exists, size, q.fds, q.leaked)
  BY <1>2, <1>3, <1>4, BeginIs, Zenon
<1> HIDE DEF r
<1>7. r \in Processes /\ r.fds = Holds(r)
  BY <1>1, <1>4, <1>6 DEF Is, Holds
<1>8. Sound(r, file, cut')
  BY <1>1, <1>5, <1>6 DEF Is, Sound, Half
<1>9. Serial /\ Creates(r) => \A s \in Procs \ {p} : ~Creates(proc[s])
  BY <1>1, <1>6 DEF Is, Creates, Creating
<1>10. ~Half(proc[p])
  BY <1>1 DEF Half, q
<1> QED
  BY <1>1, <1>7, <1>8, <1>9, <1>10, Before, Keep

(* Who creates goes on creating, alone. *)
LEMMA StillAlone ==
    ASSUME LifeInv, Serial, NEW p \in Procs, Creates(proc[p])
    PROVE  \A s \in Procs \ {p} : ~Creates(proc[s])
BY Before DEF LifeInv, SerialInv

LEMMA OpenKeeps ==
    ASSUME LifeInv, NEW p \in Procs, Open(p)
    PROVE  LifeInv'
<1> DEFINE q == proc[p]
           r == [q EXCEPT !.pc = "fstat", !.fds = @ + 1]
<1>1. CASE q.mode = "ro" /\ ~file.there
  BY <1>1, FailKeeps
<1>2. CASE ~(q.mode = "ro" /\ ~file.there)
  <2>1. /\ Put(p, r) /\ q.pc = "open" /\ cut' = cut
        /\ file' = [file EXCEPT !.there = TRUE]
    BY <1>2 DEF Open
  <2>2. q \in Processes /\ q.fds + 1 \in Int /\ q.fds = Holds(q)
    BY Before
  <2>3. "fstat" \in Pcs
    BY DEF Pcs, Initialising
  <2>4. file' \in Files /\ file'.used <= file'.keys
        /\ file'.keys = file.keys /\ file'.size = file.size
    <3>1. file \in Files /\ TRUE \in BOOLEAN
      BY Before
    <3>2. file' \in Files /\ file'.used = file.used
          /\ file'.keys = file.keys /\ file'.size = file.size
      BY <2>1, <3>1, FileIs, Zenon
    <3> QED
      BY <3>2, Before
  <2> HIDE DEF q
  <2>5. Is(r, "fstat", q.mode, q.count, q.init, q.exists, q.size, q.fds + 1, q.leaked)
    BY <2>2, <2>3, OpenIs, Zenon
  <2> HIDE DEF r
  <2>6. r \in Processes /\ r.fds = Holds(r)
    BY <2>1, <2>2, <2>5 DEF Is, Holds
  <2>7. Serial => Sound(q, file, cut)
    BY Before DEF q
  <2>8. Serial => Sound(r, file, cut')
    BY <2>1, <2>5, <2>7 DEF Is, Sound, Half
  <2>9. Serial /\ Creates(r) => \A s \in Procs \ {p} : ~Creates(proc[s])
    BY <2>1, <2>5, StillAlone DEF Is, Creates, Initialising, q
  <2>10. ~Half(proc[p])
    BY <2>1 DEF Half, q
  <2> QED
    BY <2>1, <2>4, <2>6, <2>8, <2>9, <2>10, Before, Keep
<1> QED
  BY <1>1, <1>2

(* A writer that finds a file without a header meets no one who makes it: *)
(* it would be a second creator.                                          *)
LEMMA FstatKeeps ==
    ASSUME LifeInv, NEW p \in Procs, Fstat(p)
    PROVE  LifeInv'
<1> DEFINE q == proc[p]
           a == [q EXCEPT !.pc = "mmap", !.size = file.size, !.exists = TRUE]
           b == [q EXCEPT !.pc = "ftruncate", !.exists = FALSE]
<1>1. q \in Processes /\ q.fds = Holds(q) /\ q.pc = "fstat" /\ UNCHANGED <<file, cut>>
  BY Before DEF Fstat
<1>2. file.size \in Int /\ TRUE \in BOOLEAN /\ FALSE \in BOOLEAN
  BY Before
<1>3. "mmap" \in Pcs /\ "ftruncate" \in Pcs
  BY DEF Pcs, Initialising
<1>4. q.mode \in {"ro", "rw"}
  BY <1>1 DEF Processes
<1>5. ~Half(q) /\ (Serial => Sound(q, file, cut))
  BY <1>1, Before DEF Half
<1>6. CASE file.size # 0
  <2>1. Put(p, a)
    BY <1>6 DEF Fstat
  <2> HIDE DEF q
  <2>2. Is(a, "mmap", q.mode, q.count, q.init, TRUE, file.size, q.fds, q.leaked)
    BY <1>1, <1>2, <1>3, FstatIs, Zenon
  <2> HIDE DEF a
  <2>3. a \in Processes /\ a.fds = Holds(a)
    BY <1>1, <2>2 DEF Is, Holds
  <2>4. Serial /\ Creates(q) => \A s \in Procs \ {p} : ~Creates(proc[s])
    BY StillAlone DEF q
  <2>5. ASSUME Serial, q.mode = "rw", file.keys = 0 PROVE cut
    <3>1. Creates(q)
      BY <1>1, <2>5 DEF Creates, Initialising
    <3>2. ASSUME NEW s \in Procs PROVE ~Half(proc[s])
      <4>1. Half(proc[s]) => Creates(proc[s])
        BY <2>5, Before DEF SerialInv, Sound, Half, Creates, Initialising
      <4> QED
        BY <1>5, <2>4, <2>5, <3>1, <4>1 DEF q
    <3> QED
      BY <1>6, <2>5, <3>2, Before DEF SerialInv
  <2>6. Serial => Sound(a, file, cut')
    BY <1>1, <1>5, <1>6, <2>2, <2>5 DEF Is, Sound, Half
  <2>7. Serial /\ Creates(a) => \A s \in Procs \ {p} : ~Creates(proc[s])
    BY <1>1, <2>2, <2>4 DEF Is, Creates, Initialising
  <2> QED
    BY <1>1, <1>5, <2>1, <2>3, <2>6, <2>7, Before, Keep DEF q
<1>7. CASE file.size = 0 /\ q.mode = "ro"
  BY <1>7, FailKeeps
<1>8. CASE file.size = 0 /\ q.mode = "rw"
  <2>1. Put(p, b)
    BY <1>8 DEF Fstat
  <2> HIDE DEF q
  <2>2. Is(b, "ftruncate", q.mode, q.count, q.init, FALSE, q.size, q.fds, q.leaked)
    BY <1>1, <1>2, <1>3, ExistsIs, Zenon
  <2> HIDE DEF b
  <2>3. b \in Processes /\ b.fds = Holds(b)
    BY <1>1, <2>2 DEF Is, Holds
  <2>4. Serial => Sound(b, file, cut')
    BY <1>1, <1>4, <1>5, <1>8, <2>2 DEF Is, Sound, Half
  <2>5. Serial /\ Creates(b) => \A s \in Procs \ {p} : ~Creates(proc[s])
    BY <1>1, <2>2, StillAlone DEF Is, Creates, Initialising, q
  <2> QED
    BY <1>1, <1>5, <2>1, <2>3, <2>4, <2>5, Before, Keep DEF q
<1> QED
  BY <1>4, <1>6, <1>7, <1>8

LEMMA MmapKeeps ==
    ASSUME LifeInv, NEW p \in Procs, Mmap(p)
    PROVE  LifeInv'
<1> DEFINE q == proc[p]
           c == Closed(q)
           r == [c EXCEPT !.pc = "header"]
<1>1. Put(p, r) /\ q.pc = "mmap" /\ UNCHANGED <<file, cut>>
  BY DEF Mmap
<1>2. q \in Processes /\ q.fds = Holds(q) /\ (Serial => Sound(q, file, cut))
  BY Before
<1>3. Is(c, q.pc, q.mode, q.count, q.init, q.exists, q.size, q.fds - 1, q.leaked)
  BY <1>2, ClosedIs
<1>4. "header" \in Pcs
  BY DEF Pcs, Initialising
<1> HIDE DEF q, c
<1>5. c \in Processes
  BY <1>3 DEF Is
<1>6. Is(r, "header", c.mode, c.count, c.init, c.exists, c.size, c.fds, c.leaked)
  BY <1>4, <1>5, PcIs, Zenon
<1> HIDE DEF r
<1>7. r \in Processes /\ r.fds = Holds(r)
  BY <1>1, <1>2, <1>3, <1>6 DEF Is, Holds, Processes
<1>8. Serial => Sound(r, file, cut')
  BY <1>1, <1>2, <1>3, <1>6 DEF Is, Sound, Half
<1>9. Serial /\ Creates(r) => \A s \in Procs \ {p} : ~Creates(proc[s])
  BY <1>1, <1>3, <1>6, StillAlone DEF Is, Creates, Initialising, q
<1>10. Half(q) => Half(r)
  BY <1>1, <1>3, <1>6 DEF Is, Half
<1> QED
  BY <1>1, <1>7, <1>8, <1>9, <1>10, Before, Keep DEF q

(* The creator makes the file as long as its header will say; as the sum *)
(* is below the second bound, a size that is not negative is exact.      *)
LEMMA FtruncateKeeps ==
    ASSUME LifeInv, NEW p \in Procs, Ftruncate(p)
    PROVE  LifeInv'
<1> DEFINE q == proc[p]
           r == [q EXCEPT !.pc = "mmap"]
<1>1. /\ Put(p, r) /\ q.pc = "ftruncate" /\ q.size >= 0 /\ cut' = cut
      /\ file' = [file EXCEPT !.size = q.size]
  BY DEF Ftruncate
<1>2. /\ q \in Processes /\ q.size \in Nat /\ q.fds = Holds(q)
      /\ Serial => SerialInv /\ Sound(q, file, cut)
  BY <1>1, Before
<1>3. "mmap" \in Pcs
  BY DEF Pcs, Initialising
<1>4. /\ file' \in Files /\ file'.size = q.size
      /\ file'.keys = file.keys /\ file'.used = file.used /\ file'.used <= file'.keys
  <2>1. file \in Files /\ file.used <= file.keys /\ q.size \in Nat
    BY <1>2, Before
  <2>2. file' = [file EXCEPT !.size = q.size]
    BY <1>1
  <2> HIDE DEF q
  <2>3. /\ file' \in Files /\ file'.size = q.size
        /\ file'.keys = file.keys /\ file'.used = file.used
    BY <2>1, <2>2, FileIs, Zenon
  <2> QED
    BY <2>1, <2>3
<1>5. /\ \A s \in Procs \ {p} : proc'[s] = proc[s]
      /\ proc'[p] = r
  BY <1>1, Before DEF LifeInv, TypeInv, LifecycleTypeOK, Put
<1> HIDE DEF q
<1>6. Is(r, "mmap", q.mode, q.count, q.init, q.exists, q.size, q.fds, q.leaked)
  BY <1>2, <1>3, PcIs, Zenon
<1> HIDE DEF r
<1>7. r \in Processes /\ r.fds = Holds(r)
  BY <1>1, <1>2, <1>6 DEF Is, Holds
<1>8. TypeInv'
  BY <1>1, <1>4, <1>5, <1>7 DEF LifeInv, TypeInv, LifecycleTypeOK, Put
<1>9. ASSUME Serial PROVE SerialInv'
  <2>1. /\ q.mode = "rw" /\ q.count \in Counts /\ ~q.init /\ ~q.exists
        /\ q.size = FileSize(q.count) /\ file.size = 0 /\ file.keys = 0
    BY <1>1, <1>2, <1>9 DEF SerialInv, Sound
  <2>2. q.size = 16 * StoreSize(q.count) /\ q.size > 0
    <3>1. q.count \in Nat /\ 16 * StoreSize(q.count) < 2 * IntLimit
      BY <2>1, CountsType
    <3>2. StoreSize(q.count) \in Nat \ {0}
      BY <3>1, StoreSizeType
    <3> QED
      BY <1>1, <2>1, <3>1, <3>2, FileSizeType
  <2>3. Creates(q) /\ Creates(r)
    BY <1>1, <1>6, <2>1 DEF Is, Creates, Initialising
  <2>4. \A s \in Procs \ {p} : ~Creates(proc[s])
    BY <1>9, <2>3, StillAlone DEF q
  <2>5. \A s \in Procs, t \in Procs :
            Creates(proc'[s]) /\ Creates(proc'[t]) => s = t
    BY <1>5, <2>4
  <2>6. ASSUME NEW s \in Procs PROVE Sound(proc'[s], file', cut')
    <3>1. CASE s = p
      BY <1>1, <1>4, <1>5, <1>6, <2>1, <2>2, <3>1 DEF Is, Sound, Half
    <3>2. CASE s # p
      <4>1. ~Creates(proc[s]) /\ Sound(proc[s], file, cut) /\ proc'[s] = proc[s]
        BY <1>2, <1>5, <1>9, <2>4, <3>2 DEF SerialInv
      <4> QED
        BY <1>1, <1>4, <2>1, <4>1 DEF Sound, Half, Creates, Initialising
    <3> QED
      BY <3>1, <3>2
  <2>7. Half(proc'[p])
    BY <1>5, <1>6, <2>1 DEF Is, Half
  <2> QED
    BY <1>4, <2>1, <2>2, <2>5, <2>6, <2>7 DEF SerialInv
<1> QED
  BY <1>8, <1>9 DEF LifeInv

(* pupa_init is through, and a new file has its header. *)
LEMMA WriteHeaderKeeps ==
    ASSUME LifeInv, NEW p \in Procs, WriteHeader(p)
    PROVE  LifeInv'
<1> DEFINE q == proc[p]
           d == Done(q, "init", "OK")
           r == [d EXCEPT !.init = TRUE]
<1>1. /\ Put(p, r) /\ q.pc = "header" /\ cut' = cut
      /\ file' = IF q.exists THEN file ELSE [file EXCEPT !.keys = q.count, !.used = 0]
  BY DEF WriteHeader
<1>2. /\ q \in Processes /\ q.count \in Nat /\ q.fds = Holds(q) /\ q.exists \in BOOLEAN
      /\ Serial => SerialInv /\ Sound(q, file, cut)
  BY Before DEF Processes
<1>3. Is(d, "call", q.mode, 0, q.init, FALSE, q.size, q.fds, q.leaked)
  BY <1>2, Before, DoneIs
<1>4. file' \in Files /\ file'.used <= file'.keys /\ file'.size = file.size
  <2>1. CASE q.exists
    BY <1>1, <2>1, Before
  <2>2. CASE ~q.exists
    <3>1. file' = [file EXCEPT !.keys = q.count, !.used = 0]
      BY <1>1, <2>2
    <3>2. file' \in Files /\ file'.used = 0 /\ file'.keys = q.count /\ file'.size = file.size
      <4>1. file \in Files /\ q.count \in Nat
        BY <1>2, Before
      <4> HIDE DEF q
      <4> QED
        BY <3>1, <4>1, FileIs, Zenon
    <3> QED
      BY <1>2, <3>2
  <2> QED
    BY <2>1, <2>2
<1>5. ~q.exists => file'.keys = q.count
  <2>1. file \in Files /\ q.count \in Nat
    BY <1>2, Before
  <2>2. [file EXCEPT !.keys = q.count, !.used = 0].keys = q.count
    <3> HIDE DEF q
    <3> QED
      BY <2>1, FileIs, Zenon
  <2> QED
    BY <1>1, <2>2
<1>6. TRUE \in BOOLEAN
  OBVIOUS
<1> HIDE DEF q, d
<1>7. d \in Processes
  BY <1>3 DEF Is
<1>8. Is(r, d.pc, d.mode, d.count, TRUE, d.exists, d.size, d.fds, d.leaked)
  BY <1>6, <1>7, InitIs, Zenon
<1> HIDE DEF r
<1>9. /\ r \in Processes /\ r.fds = Holds(r) /\ ~Creates(r) /\ ~Half(r)
      /\ r.pc = "call" /\ r.size = q.size /\ r.mode = q.mode
  BY <1>1, <1>2, <1>3, <1>8 DEF Is, Holds, Creates, Half, Initialising
<1>10. CASE q.exists
  <2>1. Serial => Sound(r, file, cut')
    BY <1>1, <1>2, <1>9, <1>10 DEF Sound, Half
  <2>2. ~Half(q) /\ UNCHANGED file
    BY <1>1, <1>10 DEF Half
  <2> QED
    BY <1>1, <1>4, <1>9, <2>1, <2>2, Before, Keep DEF q
<1>11. CASE ~q.exists
  <2>1. /\ \A s \in Procs \ {p} : proc'[s] = proc[s]
        /\ proc'[p] = r
    BY <1>1, Before DEF LifeInv, TypeInv, LifecycleTypeOK, Put
  <2>2. TypeInv'
    BY <1>1, <1>4, <1>9, <2>1 DEF LifeInv, TypeInv, LifecycleTypeOK, Put
  <2>3. ASSUME Serial PROVE SerialInv'
    <3>1. /\ q.mode = "rw" /\ q.count \in Counts /\ q.size = file.size
          /\ file.size = 16 * StoreSize(q.count) /\ Half(q) /\ Creates(q)
      BY <1>1, <1>2, <1>11, <2>3 DEF Sound, Half, Creates, Initialising
    <3>2. file.size # 0 /\ q.count # 0
      <4>1. q.count \in Nat /\ q.count # 0
        BY <3>1, CountsType
      <4> QED
        BY <3>1, <4>1, StoreSizeType
    <3>3. \A s \in Procs \ {p} : ~Creates(proc[s])
      BY <2>3, <3>1, StillAlone DEF q
    <3>4. \A s \in Procs, t \in Procs :
              Creates(proc'[s]) /\ Creates(proc'[t]) => s = t
      BY <2>1, <3>3
    <3>5. ASSUME NEW s \in Procs PROVE Sound(proc'[s], file', cut')
      <4>1. CASE s = p
        BY <1>4, <1>5, <1>9, <1>11, <2>1, <3>1, <3>2, <4>1 DEF Sound, Half
      <4>2. CASE s # p
        <5>1. ~Creates(proc[s]) /\ Sound(proc[s], file, cut) /\ proc'[s] = proc[s]
          BY <1>2, <2>1, <2>3, <3>3, <4>2 DEF SerialInv
        <5> QED
          BY <1>1, <1>4, <1>5, <1>11, <3>2, <5>1 DEF Sound, Half, Creates, Initialising
      <4> QED
        BY <4>1, <4>2
    <3> QED
      BY <1>4, <1>5, <1>11, <3>1, <3>2, <3>4, <3>5 DEF SerialInv
  <2> QED
    BY <2>2, <2>3 DEF LifeInv
<1> QED
  BY <1>2, <1>10, <1>11

-----------------------------------------------------------------------------
LEMMA LifeInit == Init => LifeInv
<1> SUFFICES ASSUME Init PROVE LifeInv
  OBVIOUS
<1> DEFINE r == Fresh("out", "app")
<1>1. Is(r, "out", "ro", 0, FALSE, FALSE, 0, 0, 0)
  BY FreshIs DEF Pcs, Commands
<1>2. \A p \in Procs : proc[p] = r
  BY DEF Init
<1>3. proc = [p \in Procs |-> r]
  BY DEF Init
<1> HIDE DEF r
<1>4. r \in Processes /\ r.fds = Holds(r) /\ ~Creates(r) /\ ~Half(r)
      /\ \A f, c : Sound(r, f, c)
  BY <1>1 DEF Is, Holds, Creates, Half, Sound, Initialising
<1>5. file \in Files /\ file.used <= file.keys /\ file.size = 0 /\ file.keys = 0
      /\ cut \in BOOLEAN
  <2>1. file = [there |-> FALSE, size |-> 0, keys |-> 0, used |-> 0] /\ cut = FALSE
    BY DEF Init, NoFile
  <2>2. FALSE \in BOOLEAN /\ 0 \in Nat
    OBVIOUS
  <2>3. file \in Files
    BY <2>1, <2>2, Zenon DEF Files
  <2>4. file.used = 0 /\ file.keys = 0 /\ file.size = 0
    BY <2>1
  <2>5. cut \in BOOLEAN
    BY <2>1, <2>2
  <2> QED
    BY <2>3, <2>4, <2>5
<1> QED
  BY <1>2, <1>3, <1>4, <1>5 DEF LifeInv, TypeInv, LifecycleTypeOK, SerialInv

LEMMA StepKeeps ==
    ASSUME LifeInv, NEW p \in Procs,
           \/ \E g \in Commands : Start(p, g)
           \/ Step(p)
           \/ Kill(p)
    PROVE  LifeInv'
<1>1. \/ \E mode \in {"ro", "rw"}, n \in Counts \cup {0} : InitBegin(p, mode, n)
      \/ Open(p) \/ Fstat(p) \/ Ftruncate(p) \/ Mmap(p) \/ WriteHeader(p)
      \/ InitAgain(p) \/ OpenFails(p) \/ FstatFails(p) \/ FtruncateFails(p) \/ MmapFails(p)
      \/ Set(p) \/ Del(p) \/ Stats(p)
      \/ \E call \in {"get", "get_by_ver", "get_all_ver"} : Get(p, call)
      \/ \E g \in Commands : Start(p, g)
      \/ Fini(p) \/ Exit(p) \/ Kill(p)
  BY DEF Step, Counts
<1> QED
  BY <1>1, BeginKeeps, OpenKeeps, FstatKeeps, FtruncateKeeps, MmapKeeps, WriteHeaderKeeps,
     FailKeeps, CallKeeps, LifeKeeps

LEMMA StutterKeeps ==
    ASSUME LifeInv, UNCHANGED vars
    PROVE  LifeInv'
BY DEF LifeInv, TypeInv, LifecycleTypeOK, SerialInv, vars

LEMMA LifeNext == LifeInv /\ [Next]_vars => LifeInv'
BY StepKeeps, StutterKeeps DEF Next

THEOREM LifeInvariant == Spec => []LifeInv
BY LifeInit, LifeNext, PTL DEF Spec

(* Whatever fails, whoever is killed and in whatever order the API is      *)
(* called, the file and the processes stay of their types, and the header  *)
(* never counts more items than it has keys (pupa_store.c:279).            *)
THEOREM LifecycleTypes == Spec => []LifecycleTypeOK
<1>1. LifeInv => LifecycleTypeOK
  BY DEF LifeInv, TypeInv
<1> QED
  BY <1>1, LifeInvariant, PTL

(* Between two calls a process has no descriptor open but those of failed *)
(* ftruncates.                                                            *)
THEOREM NoDescriptorLost == Spec => []DescriptorsClosed
<1>1. LifeInv => DescriptorsClosed
  BY DEF LifeInv, TypeInv, Holds, DescriptorsClosed
<1> QED
  BY <1>1, LifeInvariant, PTL

(* If read-write initialisations are made in turn, whoever is initialised   *)
(* has all of the store mapped, for every key_count below the second bound. *)
THEOREM InitMapsAll ==
    ASSUME Serial
    PROVE  Spec => []WholeStoreMapped
<1>1. LifeInv => WholeStoreMapped
  BY DEF LifeInv, SerialInv, Sound, WholeStoreMapped
<1> QED
  BY <1>1, LifeInvariant, PTL

(* If read-write initialisations are made in turn, a writer finds a header *)
(* unless a creation was broken off.                                       *)
THEOREM InitFindsHeader ==
    ASSUME Serial
    PROVE  Spec => []WriterFindsHeader
<1>1. LifeInv => WriterFindsHeader
  BY DEF LifeInv, SerialInv, Sound, WriterFindsHeader
<1> QED
  BY <1>1, LifeInvariant, PTL

(* A size between the two bounds is taken for a negative one, which no       *)
(* ftruncate grants: up to 6.38 million keys pupa_init makes a file of the  *)
(* exact size or none (pupa.c:24, pupa_shm.c:68).                           *)
THEOREM FileSizeExactOrNegative ==
    ASSUME NEW n \in Nat, 16 * StoreSize(n) < 2 * IntLimit
    PROVE  IF 16 * StoreSize(n) < IntLimit THEN FileSize(n) = 16 * StoreSize(n)
                                           ELSE FileSize(n) < 0
<1> DEFINE x == 16 * StoreSize(n)
           l == IntLimit
<1>1. x \in Nat /\ l \in Nat /\ l > 0
  BY StoreSizeType, LifecycleAssumption
<1>2. x < 2 * l
  OBVIOUS
<1>3. FileSize(n) = IF x % (2 * l) < l THEN x % (2 * l) ELSE (x % (2 * l)) - 2 * l
  BY DEF FileSize, Int32
<1> HIDE DEF x, l
<1>4. x % (2 * l) = x
  BY <1>1, <1>2
<1> QED
  BY <1>1, <1>2, <1>3, <1>4 DEF x, l

(* If read-write initialisations are made in turn, a file that has a header *)
(* keeps it and its length: no later pupa_init writes or truncates.         *)
LEMMA HeaderStep ==
    ASSUME LifeInv, Serial, [Next]_vars, file.keys # 0
    PROVE  /\ file'.keys = file.keys
           /\ file'.size = file.size
           /\ file'.used \in file.used - 1 .. file.used + 1
<1>1. file \in Files /\ file.used \in Nat /\ SerialInv
  BY DEF LifeInv, TypeInv, LifecycleTypeOK, Files
<1>2. SUFFICES \/ file' = file
               \/ file' = [file EXCEPT !.there = TRUE]
               \/ \E used \in Nat : /\ used \in file.used - 1 .. file.used + 1
                                    /\ file' = [file EXCEPT !.used = used]
  <2>1. CASE file' = file
    BY <1>1, <2>1
  <2>2. CASE file' = [file EXCEPT !.there = TRUE]
    <3>1. TRUE \in BOOLEAN
      OBVIOUS
    <3>2. file'.keys = file.keys /\ file'.size = file.size /\ file'.used = file.used
      BY <1>1, <2>2, <3>1, FileIs, Zenon
    <3> QED
      BY <1>1, <3>2
  <2>3. ASSUME NEW used \in Nat, used \in file.used - 1 .. file.used + 1,
               file' = [file EXCEPT !.used = used]
        PROVE  /\ file'.keys = file.keys /\ file'.size = file.size
               /\ file'.used \in file.used - 1 .. file.used + 1
    BY <1>1, <2>3, FileIs
  <2> QED
    BY <1>2, <2>1, <2>2, <2>3
<1>3. CASE UNCHANGED vars
  BY <1>3 DEF vars
<1>4. ASSUME NEW p \in Procs,
             Open(p) \/ Ftruncate(p) \/ WriteHeader(p) \/ Set(p) \/ Del(p)
      PROVE  \/ file' = file
             \/ file' = [file EXCEPT !.there = TRUE]
             \/ \E used \in Nat : /\ used \in file.used - 1 .. file.used + 1
                                  /\ file' = [file EXCEPT !.used = used]
  <2>1. Sound(proc[p], file, cut)
    BY <1>1 DEF SerialInv
  <2>2. CASE Open(p)
    BY <2>2 DEF Open
  <2>3. CASE Ftruncate(p)
    BY <1>1, <2>1, <2>3 DEF Ftruncate, Sound, SerialInv
  <2>4. CASE WriteHeader(p)
    BY <2>1, <2>4 DEF WriteHeader, Sound, Half
  <2>5. CASE Set(p)
    <3>1. file' = file \/ \E used \in UsedAfterSet : file' = [file EXCEPT !.used = used]
      BY <2>5 DEF Set
    <3>2. \A used \in UsedAfterSet : used \in Nat /\ used \in file.used - 1 .. file.used + 1
      BY <1>1 DEF UsedAfterSet
    <3> QED
      BY <3>1, <3>2
  <2>6. CASE Del(p)
    <3>1. \/ file' = file
          \/ file.used > 0 /\ file' = [file EXCEPT !.used = file.used - 1]
      BY <2>6 DEF Del
    <3>2. file.used > 0 => /\ file.used - 1 \in Nat
                           /\ file.used - 1 \in file.used - 1 .. file.used + 1
      BY <1>1
    <3> QED
      BY <3>1, <3>2
  <2> QED
    BY <1>4, <2>2, <2>3, <2>4, <2>5, <2>6
<1>5. ASSUME NEW p \in Procs,
             \/ \E g \in Commands : Start(p, g)
             \/ Step(p)
             \/ Kill(p)
      PROVE  \/ Open(p) \/ Ftruncate(p) \/ WriteHeader(p) \/ Set(p) \/ Del(p)
             \/ file' = file
  BY <1>5 DEF Step, Start, Kill, InitAgain, InitBegin, OpenFails, Fstat, FstatFails,
              FtruncateFails, Mmap, MmapFails, Stats, Get, Fini, Exit
<1> QED
  BY <1>3, <1>4, <1>5 DEF Next

THEOREM HeaderIsKept ==
    ASSUME Serial
    PROVE  Spec => HeaderKept
<1>1. LifeInv /\ [Next]_vars =>
        [ file.keys # 0 => /\ file'.keys = file.keys
                           /\ file'.size = file.size
                           /\ file'.used \in file.used - 1 .. file.used + 1 ]_vars
  BY HeaderStep
<1> QED
  BY <1>1, LifeInvariant, PTL DEF Spec, HeaderKept

-----------------------------------------------------------------------------
(* The commands of pupa_tool and the benchmark's processes. *)

(* A program that calls has been initialised, the way it wanted. *)
ToolOK(q) ==
    q.prog # "app" =>
        /\ q.pc # "segv"
        /\ q.pc \in Initialising => q.last = "none" /\ q.mode = Program(q.prog).mode
        /\ q.last = "call" \/ (q.last = "init" /\ q.ret = "OK") =>
               q.init /\ q.mode = Program(q.prog).mode

ToolInv == \A p \in Procs : ToolOK(proc[p])

(* What a program looks at, in the records that the steps make. *)
Looks(r, q, last, ret) ==
    /\ r.pc = "call" /\ r.prog = q.prog
    /\ q.prog # "app" => r.last = last /\ r.ret = ret

LEMMA LooksAt ==
    ASSUME NEW q \in Processes, NEW call \in Replies, NEW ret \in Codes
    PROVE  /\ Looks(Done(q, call, ret), q, call, ret)
           /\ Done(q, call, ret).init = q.init /\ Done(q, call, ret).mode = q.mode
           /\ Looks([Done(q, call, ret) EXCEPT !.init = TRUE], q, call, ret)
           /\ [Done(q, call, ret) EXCEPT !.init = TRUE].init
           /\ [Done(q, call, ret) EXCEPT !.init = TRUE].mode = q.mode
           /\ Looks(Unmapped(q, call, ret), q, call, ret)
           /\ Looks(Unmapped(Closed(q), call, ret), q, call, ret)
           /\ Looks([Unmapped(q, call, ret) EXCEPT !.leaked = @ + 1], q, call, ret)
<1>1. /\ Looks(Done(q, call, ret), q, call, ret)
      /\ Done(q, call, ret).init = q.init /\ Done(q, call, ret).mode = q.mode
  BY DEF Looks, Done, Processes
<1>2. \A d \in Processes :
         LET u == [d EXCEPT !.init = FALSE, !.mode = "ro", !.size = 0]
             i == [d EXCEPT !.init = TRUE]
             l == [u EXCEPT !.leaked = @ + 1]
         IN  /\ u.pc = d.pc /\ u.prog = d.prog /\ u.last = d.last /\ u.ret = d.ret
             /\ i.pc = d.pc /\ i.prog = d.prog /\ i.last = d.last /\ i.ret = d.ret
             /\ i.init = TRUE /\ i.mode = d.mode
             /\ l.pc = d.pc /\ l.prog = d.prog /\ l.last = d.last /\ l.ret = d.ret
  BY DEF Processes
<1>3. Closed(q) \in Processes /\ Closed(q).prog = q.prog
  BY DEF Closed, Processes
<1>4. /\ Done(q, call, ret) \in Processes /\ Done(Closed(q), call, ret) \in Processes
      /\ Looks(Done(Closed(q), call, ret), q, call, ret)
  <2>1. Done(q, call, ret) \in Processes /\ Done(Closed(q), call, ret) \in Processes
    BY <1>3, DoneIs DEF Is
  <2>2. \A c \in Processes : c.prog = q.prog => Looks(Done(c, call, ret), q, call, ret)
    BY DEF Looks, Done, Processes
  <2> QED
    BY <1>3, <2>1, <2>2
<1>5. /\ Looks([Done(q, call, ret) EXCEPT !.init = TRUE], q, call, ret)
      /\ [Done(q, call, ret) EXCEPT !.init = TRUE].init
      /\ [Done(q, call, ret) EXCEPT !.init = TRUE].mode = q.mode
  BY <1>1, <1>2, <1>4, Zenon DEF Looks
<1>6. /\ Looks(Unmapped(q, call, ret), q, call, ret)
      /\ Looks(Unmapped(Closed(q), call, ret), q, call, ret)
      /\ Looks([Unmapped(q, call, ret) EXCEPT !.leaked = @ + 1], q, call, ret)
  BY <1>1, <1>2, <1>4, Zenon DEF Looks, Unmapped
<1> QED
  BY <1>1, <1>5, <1>6

(* One process changes. *)
LEMMA ToolKeep ==
    ASSUME LifeInv, ToolInv, NEW p \in Procs, NEW r, Put(p, r), ToolOK(r)
    PROVE  ToolInv'
<1>1. proc'[p] = r /\ \A s \in Procs \ {p} : proc'[s] = proc[s]
  BY DEF LifeInv, TypeInv, LifecycleTypeOK, Put
<1> QED
  BY <1>1 DEF ToolInv

(* Of a program whose turn it is to call, all of the store is mapped. *)
LEMMA ToolCalls ==
    ASSUME LifeInv, Serial, ToolInv, NEW p \in Procs, proc[p].prog # "app",
           NEW call \in {"set", "del", "stats", "get", "get_by_ver", "get_all_ver"},
           May(p, call)
    PROVE  /\ Mapped(proc[p])
           /\ call \in Program(proc[p].prog).calls
           /\ proc[p].mode = Program(proc[p].prog).mode
<1> DEFINE q == proc[p]
<1>1. /\ call \in Program(q.prog).calls
      /\ q.last = "call" \/ (q.last = "init" /\ q.ret = "OK")
  BY DEF May
<1>2. q.init /\ q.mode = Program(q.prog).mode
  BY <1>1 DEF ToolInv, ToolOK
<1>3. q.size = file.size /\ file.size \in Nat
  BY <1>2, Before DEF Sound
<1> QED
  BY <1>1, <1>2, <1>3 DEF Mapped

LEMMA ToolCallStep ==
    ASSUME LifeInv, Serial, ToolInv, NEW p \in Procs,
           \/ Set(p) \/ Del(p) \/ Stats(p)
           \/ \E call \in {"get", "get_by_ver", "get_all_ver"} : Get(p, call)
    PROVE  \E r : Put(p, r) /\ ToolOK(r)
<1> DEFINE q == proc[p]
<1>1. q \in Processes /\ q.prog \in Commands /\ "call" \in Replies
  BY Before DEF Processes
<1>2. CASE q.prog = "app"
  <2>1. \/ Put(p, Fresh("segv", "app")) \/ Put(p, Fresh("crash", "app"))
        \/ \E ret \in Codes : Put(p, Done(q, "call", ret))
    BY <1>2 DEF Set, Del, Stats, Get, Segv, Crash, Result, Codes
  <2>2. Fresh("segv", "app").prog = "app" /\ Fresh("crash", "app").prog = "app"
    BY DEF Fresh
  <2>3. \A ret \in Codes : Done(q, "call", ret).prog = "app"
    BY <1>1, <1>2, LooksAt DEF Looks
  <2> QED
    BY <2>1, <2>2, <2>3 DEF ToolOK
<1>3. CASE q.prog # "app"
  <2>1. PICK call \in {"set", "del", "stats", "get", "get_by_ver", "get_all_ver"} :
             /\ May(p, call)
             /\ \/ call = "set" /\ Set(p)
                \/ call = "del" /\ Del(p)
                \/ call = "stats" /\ Stats(p)
                \/ call \in {"get", "get_by_ver", "get_all_ver"} /\ Get(p, call)
    BY DEF Set, Del, Stats, Get
  <2>2. /\ Mapped(q) /\ call \in Program(q.prog).calls
        /\ q.mode = Program(q.prog).mode
    BY <1>3, <2>1, ToolCalls
  <2>3. call \in {"set", "del"} => q.mode = "rw"
    BY <1>1, <2>2 DEF Program, Opens, Commands
  <2>4. Crash(p) \/ \E ret \in Codes : Result(p, ret)
    <3>1. CASE Set(p) /\ call = "set"
      BY <2>2, <2>3, <3>1 DEF Set, Codes
    <3>2. CASE Del(p) /\ call = "del"
      BY <2>2, <2>3, <3>2 DEF Del, Codes
    <3>3. CASE Stats(p)
      BY <2>2, <3>3 DEF Stats, Codes
    <3>4. CASE Get(p, call)
      BY <2>2, <3>4 DEF Get, Codes
    <3> QED
      BY <2>1, <3>1, <3>2, <3>3, <3>4
  <2>5. CASE Crash(p)
    <3>1. Put(p, Fresh("crash", q.prog))
      BY <2>5 DEF Crash
    <3>2. Fresh("crash", q.prog).pc = "crash" /\ Fresh("crash", q.prog).last = "none"
      BY DEF Fresh
    <3> QED
      BY <3>1, <3>2 DEF ToolOK, Initialising
  <2>6. CASE \E ret \in Codes : Result(p, ret)
    <3>1. PICK ret \in Codes : Put(p, Done(q, "call", ret))
      BY <2>6 DEF Result
    <3>2. q.init
      BY <2>2 DEF Mapped
    <3> DEFINE r == Done(q, "call", ret)
    <3>3. Looks(r, q, "call", ret) /\ r.init = q.init /\ r.mode = q.mode
      BY <1>1, <3>1, LooksAt
    <3> HIDE DEF r
    <3>4. ToolOK(r)
      BY <2>2, <3>2, <3>3 DEF ToolOK, Looks, Initialising
    <3> QED
      BY <3>1, <3>4 DEF r
  <2> QED
    BY <2>4, <2>5, <2>6
<1> QED
  BY <1>2, <1>3

(* pupa_init, up to the header, and pupa_fini. *)
LEMMA ToolInitStep ==
    ASSUME LifeInv, Serial, ToolInv, NEW p \in Procs,
           \/ InitAgain(p)
           \/ \E mode \in {"ro", "rw"}, n \in KeyCounts \cup {0, 2, BenchCount} :
                 InitBegin(p, mode, n)
           \/ Open(p) \/ OpenFails(p) \/ Fstat(p) \/ FstatFails(p)
           \/ Ftruncate(p) \/ FtruncateFails(p) \/ Mmap(p) \/ MmapFails(p)
           \/ WriteHeader(p) \/ Fini(p)
    PROVE  \E r : Put(p, r) /\ ToolOK(r)
<1> DEFINE q == proc[p]
           d == Done(q, "init", "OK")
<1>1. /\ q \in Processes /\ ToolOK(q)
      /\ "init" \in Replies /\ "fini" \in Replies /\ "OK" \in Codes /\ "ERROR" \in Codes
      /\ Closed(q) \in Processes /\ Closed(q).prog = q.prog /\ Closed(q).last = q.last
      /\ Closed(q).mode = q.mode
  BY Before, ClosedIs DEF ToolInv, Closed, Processes, Is
<1>2. ASSUME NEW r, NEW last \in {"init", "fini"}, NEW ret, Looks(r, q, last, ret),
             last = "init" => ret = "ERROR"
      PROVE  ToolOK(r)
  BY <1>2 DEF ToolOK, Looks, Initialising
<1>3. CASE \/ InitAgain(p) \/ OpenFails(p) \/ FstatFails(p) \/ FtruncateFails(p)
           \/ MmapFails(p) \/ Fini(p)
           \/ (Open(p) /\ q.mode = "ro" /\ ~file.there)
           \/ (Fstat(p) /\ q.mode = "ro" /\ file.size = 0)
  <2>1. \/ Put(p, Done(q, "init", "ERROR"))
        \/ Put(p, Unmapped(q, "init", "ERROR"))
        \/ Put(p, Unmapped(Closed(q), "init", "ERROR"))
        \/ Put(p, [Unmapped(q, "init", "ERROR") EXCEPT !.leaked = @ + 1])
        \/ Put(p, Unmapped(q, "fini", "OK"))
    BY <1>3 DEF InitAgain, OpenFails, FstatFails, FtruncateFails, MmapFails, Fini, Open, Fstat
  <2>2. /\ Looks(Done(q, "init", "ERROR"), q, "init", "ERROR")
        /\ Looks(Unmapped(q, "init", "ERROR"), q, "init", "ERROR")
        /\ Looks(Unmapped(Closed(q), "init", "ERROR"), q, "init", "ERROR")
        /\ Looks([Unmapped(q, "init", "ERROR") EXCEPT !.leaked = @ + 1], q, "init", "ERROR")
        /\ Looks(Unmapped(q, "fini", "OK"), q, "fini", "OK")
    BY <1>1, LooksAt
  <2>3. /\ ToolOK(Done(q, "init", "ERROR"))
        /\ ToolOK(Unmapped(q, "init", "ERROR"))
        /\ ToolOK(Unmapped(Closed(q), "init", "ERROR"))
        /\ ToolOK([Unmapped(q, "init", "ERROR") EXCEPT !.leaked = @ + 1])
        /\ ToolOK(Unmapped(q, "fini", "OK"))
    BY <1>2, <2>2
  <2> QED
    BY <2>1, <2>3
<1>4. ASSUME NEW mode \in {"ro", "rw"}, NEW n, InitBegin(p, mode, n)
      PROVE  \E r : Put(p, r) /\ ToolOK(r)
  <2> DEFINE size == IF mode = "rw" THEN FileSize(n) ELSE q.size
             r == [q EXCEPT !.pc = "open", !.mode = mode, !.count = n, !.size = size]
  <2>1. /\ Put(p, r) /\ May(p, "init")
        /\ q.prog # "app" => mode = Program(q.prog).mode
    BY <1>4 DEF InitBegin
  <2>2. r.pc = "open" /\ r.mode = mode /\ r.prog = q.prog /\ r.last = q.last
    BY <1>1 DEF Processes
  <2>3. q.prog # "app" => q.last = "none"
    BY <1>1, <2>1 DEF May, Program, Opens, Commands, Processes
  <2> HIDE DEF r
  <2>4. ToolOK(r)
    BY <2>1, <2>2, <2>3 DEF ToolOK
  <2> QED
    BY <2>1, <2>4
<1>5. CASE \/ (Open(p) /\ ~(q.mode = "ro" /\ ~file.there))
           \/ (Fstat(p) /\ ~(q.mode = "ro" /\ file.size = 0))
           \/ Ftruncate(p) \/ Mmap(p)
  <2>1. ASSUME NEW r, Put(p, r), q.pc \in Initialising, r.pc \in Initialising,
               r.prog = q.prog, r.last = q.last, r.mode = q.mode
        PROVE  \E s : Put(p, s) /\ ToolOK(s)
    BY <1>1, <2>1 DEF ToolOK, Initialising
  <2>2. CASE Open(p) /\ ~(q.mode = "ro" /\ ~file.there)
    <3> DEFINE r == [q EXCEPT !.pc = "fstat", !.fds = @ + 1]
    <3>1. Put(p, r) /\ q.pc = "open"
      BY <2>2 DEF Open
    <3>2. r.pc = "fstat" /\ r.prog = q.prog /\ r.last = q.last /\ r.mode = q.mode
      BY <1>1, Zenon DEF Processes
    <3> HIDE DEF r
    <3> QED
      BY <2>1, <3>1, <3>2 DEF Initialising
  <2>3. CASE Fstat(p) /\ ~(q.mode = "ro" /\ file.size = 0)
    <3> DEFINE r == [q EXCEPT !.pc = "mmap", !.size = file.size, !.exists = TRUE]
               s == [q EXCEPT !.pc = "ftruncate", !.exists = FALSE]
    <3>1. (Put(p, r) \/ Put(p, s)) /\ q.pc = "fstat"
      BY <2>3 DEF Fstat
    <3>2. r.pc = "mmap" /\ r.prog = q.prog /\ r.last = q.last /\ r.mode = q.mode
      BY <1>1, Zenon DEF Processes
    <3>3. s.pc = "ftruncate" /\ s.prog = q.prog /\ s.last = q.last /\ s.mode = q.mode
      BY <1>1, Zenon DEF Processes
    <3> HIDE DEF r, s
    <3> QED
      BY <2>1, <3>1, <3>2, <3>3 DEF Initialising
  <2>4. CASE Ftruncate(p)
    <3> DEFINE r == [q EXCEPT !.pc = "mmap"]
    <3>1. Put(p, r) /\ q.pc = "ftruncate"
      BY <2>4 DEF Ftruncate
    <3>2. r.pc = "mmap" /\ r.prog = q.prog /\ r.last = q.last /\ r.mode = q.mode
      BY <1>1, Zenon DEF Processes
    <3> HIDE DEF r
    <3> QED
      BY <2>1, <3>1, <3>2 DEF Initialising
  <2>5. CASE Mmap(p)
    <3> DEFINE c == Closed(q)
               r == [c EXCEPT !.pc = "header"]
    <3>1. Put(p, r) /\ q.pc = "mmap"
      BY <2>5 DEF Mmap
    <3>2. /\ c \in Processes
          /\ c.prog = q.prog /\ c.last = q.last /\ c.mode = q.mode
      BY <1>1
    <3> HIDE DEF c
    <3>3. r.pc = "header" /\ r.prog = c.prog /\ r.last = c.last /\ r.mode = c.mode
      BY <3>2, Zenon DEF Processes
    <3> HIDE DEF r
    <3> QED
      BY <2>1, <3>1, <3>2, <3>3 DEF Initialising
  <2> QED
    BY <1>5, <2>2, <2>3, <2>4, <2>5
<1>6. CASE WriteHeader(p)
  <2> DEFINE r == [d EXCEPT !.init = TRUE]
  <2>1. Put(p, r) /\ q.pc = "header"
    BY <1>6 DEF WriteHeader
  <2>2. q \in Processes /\ "init" \in Replies /\ "OK" \in Codes
    BY <1>1
  <2>3. Looks(r, q, "init", "OK")
    BY <2>2, LooksAt
  <2>4. r.init /\ r.mode = q.mode
    <3>1. d \in Processes
      BY <2>2, DoneIs DEF Is
    <3>2. d.mode = q.mode
      BY <2>2, LooksAt
    <3> HIDE DEF d
    <3> QED
      BY <3>1, <3>2 DEF Processes
  <2> HIDE DEF r
  <2>5. ToolOK(r)
    BY <1>1, <2>1, <2>3, <2>4 DEF ToolOK, Looks, Initialising
  <2> QED
    BY <2>1, <2>5
<1> QED
  BY <1>3, <1>4, <1>5, <1>6

LEMMA ToolStep ==
    ASSUME LifeInv, Serial, ToolInv, NEW p \in Procs,
           \/ \E g \in Commands : Start(p, g)
           \/ Step(p)
           \/ Kill(p)
    PROVE  ToolInv'
<1>1. \E r : Put(p, r) /\ ToolOK(r)
  <2>1. CASE Exit(p) \/ Kill(p)
    BY <2>1 DEF Exit, Kill, ToolOK, Fresh
  <2>2. CASE \E g \in Commands : Start(p, g)
    <3>1. PICK g \in Commands : Put(p, Fresh("call", g))
      BY <2>2 DEF Start
    <3>2. Fresh("call", g).pc = "call" /\ Fresh("call", g).last = "none"
      BY DEF Fresh
    <3> QED
      BY <3>1, <3>2 DEF ToolOK, Initialising
  <2> QED
    BY <2>1, <2>2, ToolInitStep, ToolCallStep DEF Step
<1> QED
  BY <1>1, ToolKeep

(* With the sizes the code has, pupa_store_dump stays within the file of a   *)
(* store for up to 21 keys, however many of them are taken: the benchmark's  *)
(* 10 keys and the 2 of `pupa_tool del` among them.                          *)
THEOREM SmallStoresDumpInside ==
    ASSUME MaxVer = 3, HdrSlots = 8, KeyAvg = 4, ValAvg = 16,
           NEW n \in 1 .. 21, NEW used \in 1 .. n
    PROVE  DumpEnd(n, used) <= StoreSize(n)
<1> DEFINE i == used - 1
           x == i * used
<1>1. n \in Nat /\ n <= 21 /\ i \in Nat /\ used = i + 1 /\ i <= n - 1 /\ i <= 20
  OBVIOUS
<1>2. DumpEnd(n, used) = n + 12 + 4 * (x \div 2)
  BY <1>1 DEF DumpEnd, DumpItem, ItemSlots, ItemSection, Section, ItemArea
<1>3. StoreSize(n) = 42 * n + 14
  BY DEF StoreSize, ItemArea, KeyArea, ValueArea
<1>4. x \in Nat /\ x <= 20 * n
  BY <1>1
<1> HIDE DEF x
<1>5. x \div 2 \in Nat /\ 2 * (x \div 2) <= x
  BY <1>4
<1> QED
  BY <1>1, <1>2, <1>3, <1>4, <1>5

LEMMA ToolInit == Init => ToolInv
BY DEF Init, ToolInv, ToolOK, Fresh

LEMMA ToolNext ==
    ASSUME Serial
    PROVE  LifeInv /\ ToolInv /\ [Next]_vars => ToolInv'
<1> SUFFICES ASSUME LifeInv, ToolInv, [Next]_vars PROVE ToolInv'
  OBVIOUS
<1>1. CASE UNCHANGED vars
  BY <1>1 DEF vars, ToolInv
<1>2. CASE Next
  BY <1>2, ToolStep DEF Next
<1> QED
  BY <1>1, <1>2

(* If read-write initialisations are made in turn, no command of pupa_tool   *)
(* and no process of the benchmark calls the library but on a store that is  *)
(* mapped for it, whole and within the file, and mapped for writing if the   *)
(* call may write: whatever state of the file it meets, whatever fails,      *)
(* whoever is killed or crashes and whatever other programs do.  (Where the  *)
(* store's own code then faults is left open here, and told by PupaStore.)   *)
THEOREM ToolsFindStoreMapped ==
    ASSUME Serial
    PROVE  Spec => []ToolsCallOnMapped
<1>1. ToolInv => ToolsCallOnMapped
  BY DEF ToolInv, ToolOK, ToolsCallOnMapped
<1> QED
  BY <1>1, ToolInit, ToolNext, LifeInvariant, PTL DEF Spec
=============================================================================
