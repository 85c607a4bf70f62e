# Verification of pupa

pupa is a key-value library in C. A store is one file that every process maps:
a header, an index of items, the keys and the values, with two areas each for
the index, the keys and the values. One process at a time writes, others read
without a lock. This directory holds TLA+ modules of that code, the TLC
configurations that check them, and theorems that TLAPS proves for every value
of the constants.

Paths such as `pupa_store.c:527` are below `src/src/`; `README.md:22` is the
repository's `src/README.md`, `src/README.md:19` the C SDK's
`src/src/README.md`.

## 1. Inventory

| Part | Source | State | Operations |
|---|---|---|---|
| Layout and header | `pupa_store_init`, `pupa_store.h` | per section (items, keys, values): which area is current, size, used, where the two areas start | lay out a new file; current area, snapshot area, free address |
| Order and search | `_pupa_store_item_compare`, `pupa_bsearch`, `pupa_sort`, the C library's `bsearch` | none | find a key; sort the last item in |
| Writes | `pupa_store_set`, `pupa_store_del` and what they call | the mapped file; `store_items`, `store_items_snapshot` of the process | add, replace, delete, compaction of keys and values |
| Reads | `pupa_store_get`, `pupa_store_get_values` | `store_items` | a value by version, all values |
| API, life of a process | `pupa.c`, `pupa_shm.c` | `pupa_ctx`: init switch, mapping, descriptor | init (read-write, read-only), fini, msync |
| `pupa_store_stats`, `_dump` | `pupa_store.c:534-627` | a static buffer | print the header and the items |
| pupa_tool | `tools/pupa_tool.c` | none | one init, one call, one fini |
| benchmark | `benchmark/bench.c` | the children's pids, their number, pending signals | fork one writer and many readers, reap them, kill them on an interrupt |
| bindings | `sdk/go`, `lua`, `php`, `java` | none | convert arguments and results |

**How they interact.** The API calls the store; the store reads and writes the
shared file through plain pointers (no function guards an area's end); shared
memory is the only channel between processes, and a write becomes visible by
one assignment, the switch of the index area's id (`pupa_store.c:216`, `262`).
Callers serialise writes (`README.md:87`, `src/README.md:5`); readers take no
lock and get pointers into the value area. The file itself is the only sign of
whether a store exists: `pupa_shm_init` looks at its length and nothing else.
pupa_tool and the benchmark are programs on top of the API.

**What is hard here.** What a reader or a restarted process finds between two
stores of a write; a read whose own loads fall between them; the process-local
`store_items`, which only some calls refresh; areas that fill, are compacted
into each other and switched; counts that are changed in other places than they
are checked in; pointer arithmetic that counts structs in some places and bytes
in others; an unsigned bound and an int32_t that wrap; failures (malloc, msync,
mmap, ftruncate, fork, a kill) after part of the work is done; a file that is
long and has no header yet; calls without a successful `pupa_init`; signals that
do not queue. `PROJECT.json` lists each of these at its line under `hazards`.

**What makes each part correct.** *Layout*: areas do not overlap, items fit.
*Order*: the index is sorted and searches find what is there. *Writes*: each
takes effect as a whole or not at all, as the map of `PupaKV` does; the area
readers search is not written to; counts stay within sizes; stored values are
not written over; a call ends. *Reads*: the versions of a key, newest first, as
of a moment of the read. *Life of a process*: who is initialised has the whole
store mapped; a store that exists is kept; what was written is there after a
restart. *Tools*: they call the library only on a store that is mapped for them.
*Benchmark*: it ends when its children have, and has reaped them all.

## 2. Modules

| Module | Models | Extends / instantiates |
|---|---|---|
| `PupaLayout` | `pupa_store_init`, the macros of `pupa_store.h`, the strides of `pupa_store_dump` | |
| `PupaSort` | `bsearch` and `pupa_bsearch`, as functions of how elements compare | |
| `PupaInsertion` | `pupa_sort` alone: an index built in every order | `PupaSort` |
| `PupaStore` | the writes, step by step, of two processes in turn; reads in one step; failures, kill and restart | `PupaLayout`, `PupaSort` |
| `PupaKV` | abstract: the map the README promises | |
| `PupaStoreProperties` | the properties, and the refinement of `PupaKV` by `PupaStore` | `PupaStore`, instance of `PupaKV` |
| `PupaReaders` | the writers of `PupaStore` and lock-free readers, whose reads are steps too | `PupaStoreProperties` |
| `PupaLifecycle` | `pupa_init`, `pupa_shm_init`, `pupa_fini` step by step; the calls seen from outside; the commands of pupa_tool and the benchmark's children as programs | `PupaLayout` |
| `PupaLifecycleProperties` | its properties | `PupaLifecycle` |
| `PupaBench` | the parent of the benchmark, with its children and others on one file | `PupaLifecycle` |
| `MC_store`, `MC_readers`, `MC_processes` | texts, readers and processes for TLC | the above |
| `PupaSortProofs` | theorems about the two searches | `PupaSort` |
| `PupaInsertionProofs` | theorems about `pupa_sort` | `PupaInsertion`, `PupaSortProofs` |
| `PupaStoreProofs` | theorems about the layout, and about the store whatever callers do | `PupaStoreProperties` |
| `PupaIndexProofs` | lemmas: what it is for an index to hold a map, and what the operators do to it | `PupaStoreProofs`, `PupaSortProofs` |
| `PupaRulesProofs` | theorems about the store for callers that keep to the rules | `PupaIndexProofs` |
| `PupaReadersProofs` | theorems about lock-free reads while such callers write | `PupaReaders`, `PupaRulesProofs` |
| `PupaLifecycleProofs` | theorems about the processes | `PupaLifecycleProperties` |
| `PupaBenchProofs` | theorems about the benchmark | `PupaBench`, `PupaLifecycleProofs` |

### PupaStore and the code

State. `item_section`, `key_section` and `value_section` are the three sections
of `pupa_store_hdr_t`, `mem` is everything behind the header. These are the
mapped file and survive the process. `store_items` and `store_items_snapshot`
are the pointers of `pupa_ctx_t` of the process whose turn it is, `other` is the
`store_items` of the one that waits. `w` is the call under way: its program
counter, arguments, the item of the snapshot it writes to and the loop counters
of a compaction; between calls it holds what the last one returned. `shown` and
`calls` are history: what the store showed when the call began, and how many
writes have begun.

Actions. A write is the sequence of its stores to the shared file:

| Step | Code |
|---|---|
| `SetNew`, `SetExisting`, `DelMissing`, `DelExisting` | make the snapshot, search it; for a deletion also move items in it (`pupa_store.c:165-200`, `227-260`) |
| `ItemsFull`, `AppendKey`, `StartKeyCompaction` | the index or the keys have no room, or the key is written (`284-311`) |
| `CompactKey`, `CompactKeyFault`, `CompactKeyFull`, `CompactKeyDone` | `pupa_store_key_compaction`, one key a step, and the key written after it |
| `AppendValue`, `StartValueCompaction`, `CompactValue...` | the same for values, in `pupa_store_item_add` and `pupa_store_item_replace` (`313-344`, `358-399`) with `pupa_store_value_compaction` |
| `CountItem`, `SortItem`, `SortNoMemory`, `SortFault`, `FlipItems`, `UncountItem`, `Sync` | the end of set and delete (`206-224`, `262-271`) |
| `Get`, `Fini`, `InitAgain`, `Kill`, `TakeTurn` | reads refresh `store_items`; the process ends or is killed and is started again; the other process takes over |

Here a read is one step: `GetVersion`, `Versions` and `View` are what
`pupa_store_get` and `pupa_store_get_values` return in a state of the file.
`View` is evaluated in every state, those in the middle of a write included.

### PupaReaders and the code

`reader[r]` is the call of a reading process: what it asks, the base of the
index and the number of items it took, the bounds of its `bsearch`, the item
found and the pointers it has got. A step is one load or one probe:

| Step | Code |
|---|---|
| `TakeBase`, `TakeUsed` | the base of the current index, then `used` (`pupa_store.c:74`, `90`; `pupa_store_get_values` alike) |
| `Probe` | one comparison of `bsearch`, with the bytes that are there now |
| `CheckItem` | key length and number of versions of the item found (`94-105`) |
| `GetValue`, `GetNextValue` | a pointer into the value area; all versions one by one (`107-111`, `151-162`) |
| `Drop` | the caller is through with what it got |
| `Write` | a step of `PupaStore` |

`writes` and `items` are history: how many writes overlap the read (at most
two), and how many items the index at `base` had when the reader took it.

### PupaLifecycle and the code

`file` is the store file from outside: whether it is there, its length, the
`size` (0: zeros) and `used` of its item section. `proc[p]` is a process: where
it is in `pupa_init`, its program and what that has called last with what
result, and of `pupa_ctx` the mode, the init switch, the mapped length, with
the descriptors open. `cut` is history: a creation was broken off.

| Step | Code |
|---|---|
| `InitAgain`, `InitBegin` | `pupa.c:14-28`: already initialised; how and for how many keys it opens. `FileSize` is the offset of `pupa_store_init` through its int32_t |
| `Open`, `OpenFails` | `pupa_shm.c:21-27`, `53-57` |
| `Fstat`, `FstatFails` | `34-46`, `59-66`: an empty file is an error read-only and is created read-write; any other exists |
| `Ftruncate`, `FtruncateFails` | `68-74` |
| `Mmap`, `MmapFails` | `76-88` with the close of the descriptor |
| `WriteHeader` | `pupa.c:30-44` |
| `Set`, `Del`, `Get`, `Stats` | a call that returns, and what then; or touches what is not mapped, or not for writing (`Segv`); or ends in a fault of the store's own code on a store that is mapped (`Crash`) |
| `Fini`, `Start`, `Exit`, `Kill` | the process |

`Program(g)` says how a command opens the store, its call and what it does with
results (`pupa_tool.c:41-156`, `bench.c:115-203`); `May` is what it may do next.
`app` is a program of its own that calls the API in any order, as one in any of
the languages with a binding could.

The two faults are kept apart because they are different parts' matter. `Segv`
(state `segv`) is what `pupa_init` and the order of calls decide: nothing, too
little, or not the right thing is mapped. `Crash` (state `crash`) may befall any
call on a store that has items: the endless recursion of `pupa_bsearch`
(`pupa_store.c:663`; `pupa_tool set b`, then `set a`, or the benchmark's writer,
whose keys come in random order), copies of the compactions from wild offsets
(`461`, `497`), and pointers to values that these have made wild
(`pupa_tool.c:139`, `150`). When exactly is what `PupaStore` says (`SortFault`,
`CompactKeyFault`, `CompactValueFault`); here the call may or may not end so, and a
set that does may have counted its item. On an empty index none of them happens,
which TLC confirmed on `PupaStore`.

### PupaBench and the code

`parent` is the parent of `bench.c`: the child it is at, the number of `live`
children, those forked and reaped, pending signals and the stack of handlers
running. `Fork`, `ForkFails` are `make_process`; `Made` sets the count; signals
are blocked but in `sigsuspend` (`CatchSigchld`, `CatchSigint`), where either
handler may interrupt the other; `Reap` is a `waitpid`, `KillChild` a `kill` of
`signal_handler`; `End` leaves the loop of `main`. The children take the steps
of `PupaLifecycle`, and their ends make SIGCHLD pending, once.

### Abstractions

- Memory is counted in slots of 16 bytes, the size of both structs of the
  index; the header is 8 slots. Texts take whole slots, their terminating zero
  included. Every offset the code computes is then a whole slot, and a copy
  that starts at a wrong struct, or runs over an area's end, does here what it
  does in the file: areas are one flat memory.
- A slot is a struct (offset, length, and the int that is `val_cnt` in an item's
  header) or a piece of a text. Text read as a length or count is `Wild`, larger
  than everything; as an offset it addresses nothing and the process faults.
- What the code reads back, the model reads back: the length that
  `pupa_store_item_add` adds to the key section (`pupa_store.c:311`) and that the
  compactions add to what they have copied (`465`, `501`) are those in memory
  after the copy, which a text may have gone over (`WriteKey`, `Moved`). The
  value's length is counted right after it is written (`338-342`, `395-397`),
  behind the copy of the text.
- A text fills its slots: the bytes behind it in its last one are not kept apart.
  Where it lies over an item, all of that item's slot is text.
- All slots of a text rank alike, so `memcmp` decides on the first slot
  that differs. Shorter keys come first, as in the code.
- Writes between the end of the file and the end of its last page are dropped
  (no one reads them), beyond that page they fault.
- `memcpy` with overlapping ranges copies as `memmove` does; `pupa_store_del`
  and `pupa_store_item_replace` do overlap, and the C library could do otherwise.
- A recursion of `pupa_bsearch` without end is a fault (`SortFault`); its first
  probe before the array reads the header (`AtOrHeader`) or what lies before the
  second area.
- The copy of the index into the snapshot and one probe of `bsearch` are one
  step each; loads and stores are taken to be seen by all processes in the order
  of the program, although the code has no fences that would make it so.
- In `PupaLifecycle` the store is no more than its numbers of keys and items: a
  set replaces or adds, and a call may fault as said above. A call is
  one step there; its own steps are `PupaStore`'s. A mapping is counted to the
  byte, although it reaches to the end of a page: no call goes between.

## 3. Runs

`Rules` says what callers keep to. The code asks none of it; the rules are what
is needed for the README's promise to hold, found by weakening them until it
does not:

- `"one"`: only one process writes, all the time. Without it two processes take
  turns between calls.
- `"fresh"`: write only when `store_items` is current, for instance by reading
  first. Replacements and deletions leave it stale, and so do the writes of
  another process.
- `"order"`: add keys in ascending order, delete only the greatest.
- `"room"`: no write that fills an area; no compaction, then, and no more items
  than an item area holds (`ItemCapacity`, about a quarter of `key_count`).

`Faults` says what may fail. In `PupaStore`: `"msync"`, `"malloc"`, `"kill"` (a
kill between any two steps but those between the count of a new item and the
switch of the index) and `"kill_add"` (those too; no run has it, because the
index then counts an item that is not there). In `PupaLifecycle`: a failing
open, fstat, ftruncate or mmap, and a kill anywhere.

| Run | Checks | Bounds | Shows |
|---|---|---|---|
| `store_rules` | `NoFault`, `ReplaceAndDeleteAtomic`, `LiveItemsStay`, `KVSpec`, `CallsTakeEffect` | all rules; malloc and msync fail; 3 keys, values of 1 and 3 slots, 3 versions, 3 items fit, 5 writes | the store implements the map of the README, each call has the effect it was asked for, with values that differ through the fourth of a key, where the oldest is dropped, and at every step of a replacement or deletion there is the map before or after it |
| `store_crash` | `KVSpec` | all rules but one; kill; two writers, 2 keys, 2 items fit, 5 writes | a killed write is there as a whole or not at all, whichever process goes on |
| `store_any` | `TypeOK`, `UsedBounded`, `KeyOverrunNeedsItemOverrun`, `StoredValuesStay`, `CallsEnd` | no rules; malloc and msync fail; 3 keys, key area of 9 slots, value area of 6, 1 item fits, 4 writes | what holds whatever callers do, in and beyond the item area |
| `sort` | `Sorted`, `DivergesOnlyOnMinimum`, `bsearchExact` | every order of up to 11 keys | insertion is right whenever it ends, and when it does not |
| `readers` | `ReadsCurrent`, `HeldValuesStay`, `ReadsEnd` | all rules; kill; a reader, 2 keys, all versions or the second, 3 writes | a read that one write overlaps gets what is before or after it, what a reader holds stays, and no read waits |
| `processes` | `LifecycleTypeOK`, `WholeStoreMapped`, `WriterFindsHeader`, `DescriptorsClosed`, `ToolsCallOnMapped`, `NoChildLeft`, `HeaderKept`, `ParentEnds` | a parent, one writing and one reading child, a third process with any program; every failure, one interrupt; stores for 1, 2 and 3 keys, of which the last is over the bound of the int32_t; one descriptor lost a process | the processes on one file from its creation on, and the supervision of the benchmark |
| `reader_add` | `LockFreeReads` violated | as `readers`, no kill | `README.md:10`, `src/README.md:3` against `pupa_store.c:208` |
| `stale_snapshot` | `SnapshotIsReadingArea` violated | rules but fresh | `README.md:22` against `pupa_store.c:527` |
| `delete_unsorted` | `DeleteRemovesItsKey` violated | rules but order | `src/README.md:19` against `pupa_store.c:256` |
| `compaction` | `CompactionCopiesValues` violated | rules but room | `README.md:24`, `26` against `pupa_store.c:456-459` |
| `get_last_value` | `GetReturnsLastValue` violated | all rules | `src/README.md:25` against `pupa.c:75` |
| `sort_minimum` | `SortEnds` violated | as `sort` | `pupa_store.c:667` against `pupa_store.c:663` |

`stale_snapshot`, `delete_unsorted` and `compaction` each lift one rule, which
is how the rules were found: with the rule the property holds, without it the
code breaks what its documentation says. Runs of the store that expect a
violation have the sizes of the code (64 and 256 bytes of average key and value,
3 versions), but for `reader_add`, which is `readers` without kills; the passing
runs of the store have averages of 16 to 48 bytes, so that areas fill within a
few writes. All other numbers follow from `pupa_store_init`.

**Why the bounds are enough.** Five writes reach the fourth value of a key
(eviction), a deletion and re-addition, and three keys in every allowed order.
In `store_rules` the value area holds four values of one key that are not all
the same, so that a wrong order of the versions shows, or a wrong one dropped.
In `store_any` a third key may not fit, the second and the third item do not fit
in the item area, and one value of each length fills the value area, so that
compactions run, fail, read text as offsets and overrun; in four writes every
step but `Kill` is taken. The search for a new smallest key fails to end at 1, 4,
5 and then at 10 items: 11 keys reach these, and the sizes between at which it
does end; `OnlyMinimumDiverges` below is about all others.
In `readers` three writes let a read overlap an add, a replacement and a
deletion, alone and two at a time; readers do not see one another, so one stands
for all. In `processes` two processes may create the file, one after the other
or while readers look at it, and a third may find what they left; `IntLimit` is
2048 instead of 2^31 so that a store of 3 keys is on the other side of it; two
children are enough for signals that merge and handlers that nest.

`CHECK_DEADLOCK FALSE`: the bound on writes stops `PupaInsertion`, in `PupaStore`
a behaviour may end idle, and a process that is out need not be started again.

**Fairness.** `PupaStore`: `WF_vars(Step)`, a call that is under way keeps
executing. A step of a call is always possible until it returns or the process
faults, and the operating system runs the process. `PupaReaders`:
`WF_allVars(ReadStep(r))` for each reader, for the same reason, and none for
the writer. `PupaBench`: `WF_benchVars(ParentStep)`, the parent is run while it
has something to do; a signal that is pending and not blocked is delivered.
Nothing is assumed of callers, children, failures or kills. `CallsEnd`,
`ReadsEnd` and `ParentEnds` are the properties that use it.

**KVSpec.** `PupaKV` is instantiated with `Contents`: between calls, what
`pupa_get_all_ver` returns for each key; during a call, what it returned when
the call began. A call is one step of the map or none: an error after the write
is visible (msync) and a killed write are both covered. `PupaKV` does not know
which key a call is about, and a call without effect is no step of it:
**CallsTakeEffect** says that a write that comes to its end has made exactly the
change it was asked for, and that a refused one has made none. `ReplaceAndDeleteAtomic`
looks inside the call. It does not hold for an add, which counts the item before
the index that has it is current (`pupa_store.c:208`, `216`).

**ReadsCurrent** says for real reads what that means: if no write overlaps a
read it returns what is stored, if one does it returns what is stored before or
after, all versions from the same side. The exception is a read that takes the
index before an add's `used++` and `used` after it: it searches one item more
than the index has (`reader_add`). A read that two writes overlap may find the
index it works in written to, and is promised no particular answer; what it holds stays
all the same (`HeldValuesStay`). The reads modelled are `pupa_get_by_ver`, with
the versions a store may have, and `pupa_get_all_ver`. Not among them is
`pupa_get` with its version 0, which takes the slot behind the item: what it
finds is no value (`get_last_value`), and whether that stays is not asked.

**Serial.** In `processes` read-write initialisations are made in turn, and
readers come at any time. The code needs that: two processes that create the
file at once take each other's zeros for a store or write two headers
(`pupa_shm.c:65`). No document says so; callers that serialise their writes do
not yet serialise this. So `WholeStoreMapped`, `HeaderKept` and
`WriterFindsHeader` are about stores that are created by one process at a time,
and with `Serial = FALSE` TLC finds `HeaderKept` violated: a second process
replaces the first one's header by its own.

**What the passing runs do not say.** A refused write may leave a trace: a key
compaction switches the key areas before the value turns out not to fit, and a
compaction copies before it checks the room. `StoredValuesStay` leaves out the
copying itself for that reason. `NoChildLeft` is about runs of the benchmark in
which every fork succeeds: the code leaves the others' children behind.
`ToolsCallOnMapped` is about what pupa_tool and the benchmark do with
`pupa_init` and its result. It does not say that they never end in a SIGSEGV:
on a store with items they may, see `Crash` above, and in large stores
`pupa_stats` reads past the end of the file (`DumpLeavesFile` below). The rule
room keeps the item areas, which are too small (`ItemAreaTooSmall`), from
overrunning: `LiveItemsStay` and `KVSpec` say nothing of stores where they do.
In `store_any` they do, and the key section then comes to count more than its
size (1004 of 9 slots, say, when a text is read as a length):
`KeyOverrunNeedsItemOverrun` says that nothing else brings it there. What
readers find in such a store is not asked.
The rule fresh keeps two writers from one another's stale `store_items`. Calls
made in turn, all that `README.md:87` asks for, are not enough:
`stale_snapshot` shows it within one process, and without the rule one TLC finds
the same with the second. A malloc that fails in `pupa_sort` does no harm to
callers that add in ascending order; for others the index is out of order
afterwards, and no run looks at the keys that are lost then.

Every property of a passing run has a mutant, an operator next to the definition
it changes, under which TLC finds the property violated.

## 4. Proofs

Each theorem holds for every value of the constants that the named assumptions
allow: any number of keys, values, versions, processes and children, any lengths
and orders. Where callers must keep to something it is a hypothesis of the
theorem.

### The layout

`PupaStoreProofs`: `AreasFollow` (the six areas lie one behind the other,
without gap or overlap, and end the file), `ItemAreaTooSmall` (an item area has
room for fewer than `key_count` items, in every store of more than one key,
although `pupa_store_item_add` lets `key_count` items in; `README.md:35` gives the formula
the code does not use), and for the sizes the code has `DumpLeavesFile` (in a
store for 333 keys or more that has the items its index has room for,
`pupa_store_dump` reads past the end of the file).

### The searches and the sort

`PupaSortProofs` is about a comparison function of an index of any size:
`bsearchFinds` (the C library's `bsearch` returns the place of what is there and
nothing otherwise) and `pupa_bsearchPlaces` (`pupa_bsearch` returns a place that
keeps the order, or does not end, and then the item belongs before all others).

Both are recursive functions of two bounds. Induction over data is out of the
prover's reach as a rule, so the argument is by a least counterexample: the
bounds of a call are closer to one another than those of its caller (`Shortest`,
`CallsShorter`), so a set of bounds on which the result is wrong has a member
with the shortest distance (`Least`, from the well-foundedness of the natural
numbers), and its own recursive call is right.

`PupaInsertionProofs`: `SortKeepsOrder` (`[]Sorted`), `SearchIsExact`
(`[]bsearchExact`) and `OnlyMinimumDiverges` (`[]DivergesOnlyOnMinimum`), from the
invariant that the items are in ascending order. `pupa_bsearchDiverges` gives the
sizes at which a new smallest key may hang: halving the upper bound of an index
of n items leads to the probe of item 1 and then 0, and not straight to 0, only
if n + 2 begins with the binary digits 11.

### The store, whatever callers do

`PupaStoreProofs`, for all rules and failures:

- `TypeCorrect`: `Spec => []TypeOK`. Its content is that area ids alternate
  between 1 and 2, that nothing counted or addressed becomes negative, and that
  every step has the key and value it writes.
- `UsedNeverExceedsSize`: `Spec => []UsedBounded`, of the item and the value
  section, wherever the items lie.
- `KeyOverrunOnlyBeyondItems`: `Spec => KeyOverrunNeedsItemOverrun`. The key
  section is different: it counts a length read back from the item, which the
  key may have gone over. That it then counts more than its size can happen
  (it does in `store_any`), but only in an add whose item does not fit in the item area.

The first two come from `IndInv == TypeOK /\ UsedBounded /\ CallOK`. `UsedBounded`
alone is not inductive: `CountItem` adds an item without looking at the size,
which `ItemsFull` did several steps before, and `UncountItem` subtracts without
looking at zero. `CallOK` carries over what a call found at its beginning: an
add under way found the index not full and nothing has counted since, a deletion
found an item. The third adds `KeyInv`: the key section's areas are where
`pupa_store_init` put them, behind the item areas, and the item being added is
the one behind the last in one of these. An item that fits is then in front of
the first byte a key is written to (`AreasStay`, `NewItem`), what is read back is
what was written (`KeyWrite`), and that was checked (`KeyFits`).
`PupaStoreProofs` has a lemma per operator (reading, copying,
pointing, sections), one per action and one that joins them.

### The store, when callers keep to the rules

`PupaRulesProofs`, all under `CallersKeepToRules`: the rules `"fresh"`,
`"order"` and `"room"`, and no kill inside an add's switch (`"kill_add"`). One
process or two may write, and malloc, msync and kills may happen.

- `CallsNeverFault`: `[]NoFault`;
- `ReplaceAndDeleteShowAtOnce`: `[]ReplaceAndDeleteAtomic`;
- `LiveItemsUntouched`: `LiveItemsStay`;
- `StoredValuesUntouched`: `StoredValuesStay`;
- `StoreIsMap`: `KVSpec`, the store implements the map of `PupaKV`;
- `EveryCallTakesEffect`: `CallsTakeEffect`, and each call makes the change of
  the map that it was asked for.

The proof is in two layers. `PupaIndexProofs` says what it is for n items at an
address to hold a map s (`Holds`): there are n keys in ascending order, those
with a value in s and no others, and item i points to the text of key i among
the keys that are counted, and to the versions of s among the values that are.
Its lemmas carry this through what the code does to memory: a copy of the index
(`IndexCarry`), an item behind the last one (`IndexAppended`), a version pushed
into an item (`PushedVersions`, `IndexReplaced`), the last item left out
(`IndexDropped`); and say what is found in such an index: `SearchIs` from
`bsearchFinds`, `SortPositionIs` from `pupa_bsearchPlaces`, `ViewIs`.

`RulesInv == IndInv /\ InPlace /\ PhaseInv` is the invariant. `InPlace`: the key
and value areas were never switched, the items counted are not more than fit.
`PhaseInv` says for every step a call can be at what the current and the snapshot
index hold: between calls the current one holds what readers see; in an add,
until the count, it holds what was there when the call began (`Adding`) and so it
does between the count and the switch, with one item less than counted (`Added`);
the snapshot holds the same, then, from the step that completes it, the map that
is to be (`Due`); a deletion (`Deleting`) has its key last in the index. None of
the properties is inductive by itself: that a switch shows the new map as a whole
needs to know what the snapshot holds, that in turn needs the areas apart
(`Places`) and the searches exact, and these need the order of the index, which a
switch has to keep. `NoFailure` and the rules exclude `compact_key`,
`compact_value` and `dead` altogether.

For the refinement, `InitKV` is the initial state; `BeginKV` (a call begins:
`Contents` stays what the file shows), `InsideKV` (inside a call it stays),
`WrittenKV` (the last step of a call: `Contents` becomes `Due`, one step of the
map) and `QuietKV` (reads, restarts, a change of turns) are the steps.

### Lock-free readers

`PupaReadersProofs`, under `CallersKeepToRules` as well, for any number of
readers and every interleaving of their loads with the stores of the writers,
whose calls may fail or be killed:

- `ReadersGetCurrent`: `ReadersSpec => []ReadsCurrent`;
- `HeldValuesUntouched`: `ReadersSpec => HeldValuesStay`.

A `Write` of `ReadersSpec` is a step of `PupaStore`, so `RulesInv` holds beside
the readers (`SpecHold`, `SpecFinds`) and the proofs are about what a reader
adds. Neither property is inductive.

`HeldValuesStay` needs `HoldInv`. A read that two writes overlap may be in the
index area that is being written to, with a count from before a deletion, and
still loads structs there: so all versions of every item that fits, in both item
areas, counted or not, must at every step be empty or point to a value that is
counted (`ItemsOK`). A new file satisfies it because its items are zero; the
snapshot because its copies end with the items of the current index; an item
written behind the last, a version pushed into an item and the move of a
deletion keep it one by one (`SnapshotItems`, `WriteItems`, `PushedOK`). `ReadOK`
adds that a read stays within the items that fit of the area it took. What the
pointers lead to is not written to, because texts are only added behind those
that are counted (`TextsStay`).

`ReadsCurrent` needs `FindInv`. Of each read that at most one write overlaps,
`Placed` says where it is: in the current index, until the overlapping write
switches to the other one, with as many items as that index really has. `Finds`
says that there is one map the whole read is an answer from: what is stored if
no write overlaps, else what was stored before the write or what is `Stored`
once its switch, and in a deletion the count after it, is through. While the read is on its way (`Seeks`) the index it took holds
that map, the key is not outside the bounds of its search, the item it has found
is the key's and the pointers are the first of the key's versions; when it is
through (`Answered`) it has all of them, or the one it asked for. The map is
chosen at the start and kept, which is why versions never mix.

- The reader's steps: `TakeBase` takes an index that holds what is stored
  (`LiveShows`), `Probe` halves the bounds in an index that is in order, and the
  others load what `Seeks` says is there.
- The writer's: `CurrentStays`, from `RulesInv`, says that a step before the
  switch leaves the index that is read and the texts that are counted as they
  are, so a read goes on from the same map (`SeesCarry`); after the switch its
  index is the old one and the call that switched does not write there. That the
  call changed what is stored does not matter to a read that overlaps it: the
  map before is one of its two. A second write ends the promise.
- `used` is not in either index. A read that has the base but not yet the count
  when an add counts (`AppendFinds`) is the exception of `ReadsCurrent`, its
  count is more than its index has. When a deletion takes one off after its
  switch (`UncountFinds`), a read that has the base of either index but not yet
  the count searches one item less; that this is what is stored after the
  deletion needs the deleted key to be the
  last of that index (`LastKey`, `IndexDropped`), that is, the rule `"order"`.

`FindInv` was checked with TLC on the model of the run `readers` before it was
proved.

### The processes

`PupaLifecycleProofs`, for any number of processes running any programs, all key
counts and whatever fails:

- `LifecycleTypes`: `Spec => []LifecycleTypeOK`, which includes that the header
  never counts more items than keys;
- `NoDescriptorLost`: `Spec => []DescriptorsClosed`;
- for initialisations in turn (`ASSUME Serial`), `InitMapsAll`
  (`[]WholeStoreMapped`), `InitFindsHeader` (`[]WriterFindsHeader`) and
  `HeaderIsKept` (`HeaderKept`);
- `ToolsFindStoreMapped`: `Serial` implies `[]ToolsCallOnMapped`;
- `SmallStoresDumpInside`: with the sizes of the code `pupa_store_dump` stays
  within the file of a store for up to 21 keys, whatever it holds (the
  benchmark's 10 and the 2 of `pupa_tool del` among them), as it does not in
  large ones (`DumpLeavesFile`);
- `FileSizeExactOrNegative`: below twice the bound of the int32_t, the size
  asked of `ftruncate` is the exact one or negative, according to the bound.

The invariant is `LifeInv == TypeInv /\ (Serial => SerialInv)`. `TypeInv` adds
to the types that a process has one descriptor open exactly between open and
close, besides those it has lost. `SerialInv` says what `pupa_init` relies on
from one step to the next: a creator's size is that of its count; from
`ftruncate` to the header it is the only creator and the file's length is what
its header will say; whoever has found a file has the whole of it; and a file
without a header is being made by someone or was given up (`cut`). None of the
three properties is inductive without the last two: a writer that finds zeros in
`Fstat` would otherwise have no reason to find a header later. The step lemmas
are grouped by how a step ends: `Rest` for all that fail, return or leave the
process between two calls, `Keep` for the others that do not touch the header,
and `FtruncateKeeps` and `WriteHeaderKeeps` for the two that do.

`ToolsFindStoreMapped` adds `ToolInv`: a command that is past a successful
`pupa_init`, or past a call, is initialised and in the mode its program asks
for. With `LifeInv` it has the whole store mapped, so its calls return or end in
a `Crash`, which is not theirs.

### The benchmark

`PupaBenchProofs`, for any number of children:

- `ParentReapsAll`: `BenchSpec => []NoChildLeft`. The invariant `FamilyOK` says
  that the children are forked in their order, that only forked ones are reaped,
  that handlers run in `sigsuspend` alone, and that there `live` is the number of
  children less those reaped. A `live` of 0 then means that all are, because the
  children are as many as `Children` is long (`KidsCount`).
- `BenchIsLifecycle`: `BenchSpec => Spec` of `PupaLifecycle`, when kills are among
  its faults (the parent's are). A `Fork` is a `Start` because nothing runs in
  the place of a child that is not forked yet (`PlacesKept`).
- `BenchClosesDescriptors`, `BenchKeepsFile` and `BenchFindsStoreMapped` follow:
  the properties of the lifecycle hold of `BenchSpec`, which is the system the run
  `processes` checks.

### Assumptions, and what is not proved

`LayoutAssumption`, `StoreAssumption`, `OrderAssumption`, `ReadersAssumption`,
`LifecycleAssumption`, `BenchAssumption` and `OrdersAssumption` say of what kind
the constants are (sizes and lengths are positive, the marks for no text are no
texts, no two keys of one length rank alike, readers ask for all versions or one
that a store may have, programs are known ones, each child is a process of its
own that may run its role). `CountAssumption` is the one with content: no caller
asks for so many keys (6.38 million) that the sum passes twice the int32_t.
Integers are unbounded otherwise.

Model-checked only:

- `StoredValuesStay` without rules (`store_any`): it is proved for callers that
  keep to the rules, where no compaction runs. Without them items may run into
  the keys and a compaction copy by lengths it reads there; the run shows the
  property for its sizes only;
- liveness (`CallsEnd`, `ReadsEnd`, `ParentEnds`), which needs fairness and
  ENABLED and is beyond the prover.

## 5. Not modelled, and what is left

- The bindings. Each function converts its arguments, makes one call of the C
  API and converts the result; they keep no state of their own. A process that
  uses one is an `app` of `PupaLifecycle`. That they drop a value's length and
  rely on its terminating zero is not looked at.
- Text: what `pupa_store_stats` and `pupa_store_dump` print, debug logging, the
  options of the command lines (a command, a key count, a version are chosen
  freely), a `key_count` of zero.
- msync in `PupaLifecycle` (it is in `PupaStore`), a kill between an add's count
  and its switch (`"kill_add"`), pids that the system uses again while the
  benchmark's parent still holds them, memory reordered by the processor.

Worth proving next: `StoredValuesStay` for callers that keep to no rule, which
needs to say what survives once items have run into the keys; the rules without
`"room"` for texts but with it for items, where a compaction is right as long as
lengths and slots agree; and, for `"kill_add"`, which keys a restarted process
still finds when the index counts an item it is without.
