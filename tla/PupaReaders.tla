----------------------------- MODULE PupaReaders -----------------------------
(***************************************************************************)
(* The processes of PupaStore that write, and processes that read without  *)
(* a lock.  A read is the sequence of its loads from the shared file,      *)
(* between which the writer makes its stores.                              *)
(***************************************************************************)
EXTENDS PupaStoreProperties, SequencesExt

CONSTANTS
    Readers,    \* the processes that read
    Asked       \* the versions they ask for, All of them included

All == 0

ASSUME ReadersAssumption == Asked \subseteq All .. MaxVer

VARIABLE reader     \* each reader's call

allVars == <<vars, reader>>

-----------------------------------------------------------------------------
(* A read: what is asked, the index and number of items it took, the bounds *)
(* of bsearch, the item found, and pointers to the values got so far.       *)
(* writes and items are history: the writes that overlap the read, at most  *)
(* Two, and how many items the index at base had when the read took it.     *)

Two == 2

NoRead ==
    [pc |-> "idle", key |-> NoText, ver |-> All, base |-> 0, n |-> 0, low |-> 0,
     high |-> 0, item |-> 0, got |-> <<>>, ret |-> "OK", writes |-> 0, items |-> 0]

Be(r, call) == reader' = [reader EXCEPT ![r] = call]

(* An add under way may have counted an item that the index is without. *)
Indexed == item_section.used - (IF w.op = "add" /\ w.pc \in {"sort", "flip"} THEN 1 ELSE 0)

(* pupa_store_get and pupa_store_get_values begin alike: the base of the *)
(* current index ...                                                     *)
TakeBase(r, k, ver) ==
    /\ reader[r].pc = "idle"
    /\ Be(r, [NoRead EXCEPT !.pc = "used", !.key = k, !.ver = ver, !.base = Live,
                            !.writes = IF Running THEN 1 ELSE 0, !.items = Indexed])
    /\ UNCHANGED vars

(* ... and the number of items, in a load of its own. *)
TakeUsed(r) ==
    /\ reader[r].pc = "used"
    /\ Be(r, [reader[r] EXCEPT !.pc = "probe", !.n = item_section.used,
                               !.high = item_section.used])
    /\ UNCHANGED vars

Done(q, ret) == [q EXCEPT !.pc = "done", !.ret = ret]

(* Mutant: the upper half begins with the probed item again. *)
ProbeStuck(r) ==
    LET q    == reader[r]
        mid  == (q.low + q.high) \div 2
        item == ItemAt(q.base, mid)
        c    == Compare(mem, TextLen[q.key],
                        [x \in 0 .. TextLen[q.key] - 1 |-> TextCell(q.key, x)],
                        At(mem, item))
    IN  /\ q.pc = "probe"
        /\ \/ q.low >= q.high /\ Be(r, Done(q, "NOT_FOUND"))
           \/ /\ q.low < q.high
              /\ Be(r, CASE c = 0 -> [q EXCEPT !.pc = "check", !.item = item]
                         [] c < 0 -> [q EXCEPT !.high = mid]
                         [] c > 0 -> [q EXCEPT !.low = mid])
        /\ UNCHANGED vars

(* bsearch, one probe a step. *)
Probe(r) ==
    LET q    == reader[r]
        mid  == (q.low + q.high) \div 2
        item == ItemAt(q.base, mid)
        c    == Compare(mem, TextLen[q.key],
                        [x \in 0 .. TextLen[q.key] - 1 |-> TextCell(q.key, x)],
                        At(mem, item))
    IN  /\ q.pc = "probe"
        /\ \/ q.low >= q.high /\ Be(r, Done(q, "NOT_FOUND"))
           \/ /\ q.low < q.high
              /\ Be(r, CASE c = 0 -> [q EXCEPT !.pc = "check", !.item = item]
                         [] c < 0 -> [q EXCEPT !.high = mid]
                         [] c > 0 -> [q EXCEPT !.low = mid + 1])
        /\ UNCHANGED vars

(* The found item is looked at again, as it is now. *)
CheckItem(r) ==
    LET q == reader[r]
        c == At(mem, q.item)
    IN  /\ q.pc = "check"
        /\ Be(r, CASE c.len = 0 -> Done(q, "ERROR")
                   [] c.len # 0 /\ q.ver # All /\ c.cnt < q.ver -> Done(q, "NOT_FOUND_VALUE")
                   [] OTHER -> [q EXCEPT !.pc = "value"])
        /\ UNCHANGED vars

(* The caller gets a pointer into the value area: one of pupa_store_get, ... *)
GetValue(r) ==
    LET q == reader[r]
    IN  /\ q.pc = "value" /\ q.ver # All
        /\ Be(r, Done([q EXCEPT !.got = <<At(mem, VersionSlot(q.item, q.ver))>>], "OK"))
        /\ UNCHANGED vars

(* ... and one a step of pupa_store_get_values, newest first, until there  *)
(* are as many as the item says it has.                                    *)
GetNextValue(r) ==
    LET q    == reader[r]
        next == Len(q.got) + 1
    IN  /\ q.pc = "value" /\ q.ver = All
        /\ Be(r, IF next <= At(mem, q.item).cnt
                 THEN [q EXCEPT !.got = Append(@, At(mem, VersionSlot(q.item, next)))]
                 ELSE Done(q, "OK"))
        /\ UNCHANGED vars

(* The caller is through with what it got. *)
Drop(r) ==
    /\ reader[r].pc = "done"
    /\ Be(r, NoRead)
    /\ UNCHANGED vars

-----------------------------------------------------------------------------
(* The processes that write go on. *)
Write ==
    /\ Next
    /\ reader' = [r \in Readers |->
                     IF calls' = calls \/ reader[r].pc = "idle" \/ reader[r].writes = Two
                     THEN reader[r]
                     ELSE [reader[r] EXCEPT !.writes = @ + 1]]

ReadStep(r) == TakeUsed(r) \/ Probe(r) \/ CheckItem(r) \/ GetValue(r) \/ GetNextValue(r)

ReadersInit ==
    /\ Init
    /\ reader = [r \in Readers |-> NoRead]

ReadersNext ==
    \/ Write
    \/ \E r \in Readers :
          \/ \E k \in Keys, ver \in Asked : TakeBase(r, k, ver)
          \/ ReadStep(r)
          \/ Drop(r)

ReadersSpec ==
    /\ ReadersInit
    /\ [][ReadersNext]_allVars
    /\ \A r \in Readers : WF_allVars(ReadStep(r))

-----------------------------------------------------------------------------
(* The read of a key with the versions s, newest first, answers so. *)
Answers(q, s) ==
    LET texts == [i \in DOMAIN q.got |-> Bytes(q.got[i])]
    IN  CASE s = <<>>                       -> q.ret = "NOT_FOUND"
          [] s # <<>> /\ q.ver = All        -> q.ret = "OK" /\ texts = s
          [] q.ver \in 1 .. Len(s)          -> q.ret = "OK" /\ texts = <<s[q.ver]>>
          [] s # <<>> /\ q.ver > Len(s)     -> q.ret = "NOT_FOUND_VALUE"

(* What the write that began last makes of the store. *)
After ==
    CASE ~Running                -> View
      [] Running /\ w.op = "del" -> KV!Without(shown, w.key)
      [] Running /\ w.op # "del" -> KV!With(shown, w.key, w.val)

(* A read that no write overlaps returns what is stored, and one that a    *)
(* single write overlaps, wherever its loads fall, what was stored before  *)
(* the write or what is after it, all versions from the same side.         *)
ReturnsCurrent(q) ==
    /\ q.writes = 0 => Answers(q, View[q.key])
    /\ q.writes = 1 => Answers(q, shown[q.key]) \/ Answers(q, After[q.key])

(* A lock-free read returns what is current, unless it counts an item that *)
(* its index is without: TakeBase before an add's used++ (pupa_store.c:208)*)
(* and TakeUsed after it.                                                  *)
ReadsCurrent ==
    \A r \in Readers :
        reader[r].pc = "done" /\ reader[r].n <= reader[r].items => ReturnsCurrent(reader[r])

(* README.md:10 "Multi-Reader & Single-Writer without lock": with a single *)
(* writer, which keeps to the rules, every read returns what is current.   *)
LockFreeReads ==
    \A r \in Readers : reader[r].pc = "done" => ReturnsCurrent(reader[r])

(* The values a reader holds stay what they were while it holds them, *)
(* whatever writes follow: pupa_get copies nothing.                   *)
HeldValuesStay ==
    [][ \A r \in Readers :
            reader[r].pc = "done" =>
                \A c \in ToSet(reader[r].got) : Bytes(c)' = Bytes(c) ]_allVars

(* A read ends, whatever the writer does: it waits for nobody. *)
ReadsEnd ==
    \A r \in Readers : reader[r].pc \notin {"idle", "done"} ~> reader[r].pc = "done"
=============================================================================
