--------------------------- MODULE PupaBenchProofs ---------------------------
(***************************************************************************)
(* What is proved of PupaBench: the benchmark is one of the systems that   *)
(* PupaLifecycle describes, so all that is proved there holds of it, and   *)
(* the parent counts its children right, whatever the signals do.          *)
(***************************************************************************)
EXTENDS PupaBench, PupaLifecycleProofs, FiniteSetTheorems

(* Children 1 to n. *)
First(n) == {Children[k] : k \in 1 .. n}

LEMMA FirstKids ==
    /\ First(0) = {}
    /\ First(Len(Children)) = Kids
    /\ Len(Children) \in Nat \ {0}
    /\ \A i \in 1 .. Len(Children) :
          /\ Children[i] \in Kids \ First(i - 1)
          /\ First(i) = First(i - 1) \cup {Children[i]}
    /\ Kids \subseteq Procs
<1>1. /\ Len(Children) \in Nat \ {0}
      /\ DOMAIN Children = 1 .. Len(Children)
      /\ \A i \in 1 .. Len(Children) : Children[i] \in Procs
  BY BenchAssumption
<1>2. Kids = First(Len(Children)) /\ Kids \subseteq Procs
  BY <1>1 DEF Kids, ToSet, First
<1>3. First(0) = {}
  BY DEF First
<1>4. ASSUME NEW i \in 1 .. Len(Children)
      PROVE  /\ Children[i] \in Kids \ First(i - 1)
             /\ First(i) = First(i - 1) \cup {Children[i]}
  <2>1. 1 .. i = (1 .. i - 1) \cup {i} /\ 1 .. i - 1 \subseteq 1 .. Len(Children)
        /\ i \notin 1 .. i - 1
    BY <1>1
  <2>2. First(i) = First(i - 1) \cup {Children[i]}
    BY <2>1 DEF First
  <2>3. Children[i] \notin First(i - 1)
    BY <1>1, <2>1, BenchAssumption DEF IsInjective, First
  <2> QED
    BY <1>1, <1>2, <2>2, <2>3 DEF First
<1> QED
  BY <1>1, <1>2, <1>3, <1>4

(* As many children as the parent waits for. *)
LEMMA KidsCount == IsFiniteSet(Kids) /\ Cardinality(Kids) = Len(Children)
<1> DEFINE n == Len(Children)
<1>1. n \in Nat /\ DOMAIN Children = 1 .. n /\ Children \in [1 .. n -> Kids]
  BY BenchAssumption DEF Kids, ToSet
<1>2. Children \in Bijection(1 .. n, Kids)
  BY <1>1, BenchAssumption
     DEF IsInjective, Kids, ToSet, Bijection, Injection, Surjection
<1>3. IsFiniteSet(1 .. n) /\ Cardinality(1 .. n) = n
  <2>1. IsFiniteSet(1 .. n) /\ Cardinality(1 .. n) = IF 1 > n THEN 0 ELSE n - 1 + 1
    BY <1>1, FS_Interval
  <2> QED
    BY <1>1, <2>1
<1> QED
  BY <1>2, <1>3, FS_Bijection DEF ExistsBijection

------------------------------------------------------------------------------
(* The parent alone. *)

Parents ==
    [pc : {"fork", "made", "suspend", "ended"}, i : 1 .. Len(Children), failed : BOOLEAN,
     live : Int, forked : SUBSET Kids, reaped : SUBSET Kids, chld : BOOLEAN,
     int : {"no", "pending", "handled"}, handlers : Seq({"reap", "kill"})]

(* The children are forked in their order, and in sigsuspend live is how     *)
(* many of them have not been reaped; no handler runs anywhere else.         *)
FamilyOK(q) ==
    /\ q \in Parents
    /\ q.reaped \subseteq q.forked
    /\ q.pc # "suspend" => q.handlers = <<>>
    /\ q.pc \in {"fork", "made"} => q.reaped = {}
    /\ q.pc = "fork" => /\ q.forked \subseteq First(q.i - 1)
                        /\ ~q.failed => q.forked = First(q.i - 1)
    /\ q.pc = "made" /\ ~q.failed => q.forked = Kids
    /\ q.pc = "suspend" => /\ ~q.failed
                           /\ q.live = Len(Children) - Cardinality(q.reaped)
                           /\ q.forked = Kids
    /\ q.pc = "ended" /\ ~q.failed => q.reaped = Kids

LEMMA FamilyInit == ParentInit => FamilyOK(parent)
BY FirstKids DEF ParentInit, FamilyOK, Parents

(* What else the parent remembers of signals does not change its count. *)
LEMMA SameFamily ==
    ASSUME NEW q, FamilyOK(q), NEW r \in Parents,
           r.pc = q.pc, r.failed = q.failed, r.live = q.live,
           r.forked = q.forked, r.reaped = q.reaped,
           q.pc = "suspend" \/ (r.i = q.i /\ r.handlers = q.handlers)
    PROVE  FamilyOK(r)
BY DEF FamilyOK

LEMMA SigchldSame ==
    ASSUME NEW q, FamilyOK(q)
    PROVE  FamilyOK(WithSigchld(q))
<1> DEFINE b == q.chld \/ \E c \in Kids : proc[c].pc # proc'[c].pc /\ ~Running(c)'
           r == [q EXCEPT !.chld = b]
<1>1. b \in BOOLEAN
  BY DEF FamilyOK, Parents
<1>2. WithSigchld(q) = r
  BY DEF WithSigchld
<1>3. q \in Parents
  BY DEF FamilyOK
<1> HIDE DEF b
<1>4. r \in Parents
  BY <1>1, <1>3 DEF Parents
<1>5. /\ r.pc = q.pc /\ r.failed = q.failed /\ r.live = q.live
      /\ r.forked = q.forked /\ r.reaped = q.reaped
      /\ r.i = q.i /\ r.handlers = q.handlers
  BY <1>3 DEF Parents
<1> QED
  BY <1>2, <1>4, <1>5, SameFamily

LEMMA NextChild ==
    ASSUME FamilyOK(parent), parent.pc = "fork"
    PROVE  LET q == Next_i(parent)
           IN  /\ q \in Parents
               /\ q.reaped = {} /\ q.handlers = <<>> /\ q.failed = parent.failed
               /\ q.forked = parent.forked
               /\ \/ q.pc = "made" /\ parent.i = Len(Children)
                  \/ q.pc = "fork" /\ q.i - 1 = parent.i
<1>1. /\ parent \in Parents /\ parent.reaped = {} /\ parent.handlers = <<>>
      /\ parent.i \in 1 .. Len(Children) /\ Len(Children) \in Nat
  BY FirstKids DEF FamilyOK, Parents
<1>2. CASE parent.i = Len(Children)
  BY <1>1, <1>2 DEF Next_i, Parents
<1>3. CASE parent.i # Len(Children)
  <2>1. parent.i + 1 \in 1 .. Len(Children) /\ (parent.i + 1) - 1 = parent.i
    BY <1>1, <1>3
  <2> DEFINE q == [parent EXCEPT !.i = @ + 1]
  <2>2. q \in Parents /\ q.i = parent.i + 1
    BY <1>1, <2>1 DEF Parents
  <2>3. q.reaped = {} /\ q.handlers = <<>> /\ q.failed = parent.failed
        /\ q.forked = parent.forked /\ q.pc = "fork"
    BY <1>1 DEF Parents
  <2> QED
    BY <1>3, <2>1, <2>2, <2>3 DEF Next_i
<1> QED
  BY <1>2, <1>3

LEMMA ForkKeeps ==
    ASSUME FamilyOK(parent), Fork \/ ForkFails \/ Made
    PROVE  FamilyOK(parent')
<1>1. /\ parent \in Parents /\ parent.i \in 1 .. Len(Children)
      /\ parent.reaped \subseteq parent.forked /\ parent.forked \subseteq Kids
  BY DEF FamilyOK, Parents
<1>2. CASE Fork
  <2> DEFINE c == Children[parent.i]
             q == Next_i(parent)
             r == [q EXCEPT !.forked = @ \cup {c}]
  <2>1. parent.pc = "fork" /\ parent' = r
    BY <1>2 DEF Fork
  <2>2. /\ q \in Parents /\ q.reaped = {} /\ q.handlers = <<>>
        /\ q.failed = parent.failed /\ q.forked = parent.forked
        /\ \/ q.pc = "made" /\ parent.i = Len(Children)
           \/ q.pc = "fork" /\ q.i - 1 = parent.i
    BY <2>1, NextChild
  <2>3. /\ c \in Kids
        /\ First(parent.i) = First(parent.i - 1) \cup {c}
        /\ First(Len(Children)) = Kids
    BY <1>1, FirstKids
  <2>4. /\ parent.forked \subseteq First(parent.i - 1)
        /\ ~parent.failed => parent.forked = First(parent.i - 1)
    BY <2>1 DEF FamilyOK
  <2> HIDE DEF q, c
  <2>5. /\ r \in Parents /\ r.forked = parent.forked \cup {c}
    BY <1>1, <2>2, <2>3 DEF Parents
  <2>6. /\ r.reaped = {} /\ r.handlers = <<>> /\ r.failed = parent.failed
        /\ r.pc = q.pc /\ r.i = q.i
    BY <2>2 DEF Parents
  <2> HIDE DEF r
  <2>7. FamilyOK(r)
    BY <2>2, <2>3, <2>4, <2>5, <2>6 DEF FamilyOK
  <2> QED
    BY <2>1, <2>7
<1>3. CASE ForkFails
  <2> DEFINE q == IF parent.i = 1 THEN [parent EXCEPT !.pc = "made"] ELSE Next_i(parent)
             r == [q EXCEPT !.failed = TRUE]
  <2>1. parent.pc = "fork" /\ parent' = r
    BY <1>3 DEF ForkFails
  <2>2. /\ q \in Parents /\ q.reaped = {} /\ q.handlers = <<>>
        /\ q.forked = parent.forked
        /\ \/ q.pc = "made"
           \/ q.pc = "fork" /\ q.i - 1 = parent.i
    <3>1. CASE parent.i = 1
      BY <1>1, <2>1, <3>1 DEF FamilyOK, Parents
    <3>2. CASE parent.i # 1
      BY <2>1, <3>2, NextChild
    <3> QED
      BY <3>1, <3>2
  <2>3. First(parent.i - 1) \subseteq First(parent.i)
    BY <1>1, FirstKids
  <2>4. parent.forked \subseteq First(parent.i - 1)
    BY <2>1 DEF FamilyOK
  <2> HIDE DEF q
  <2>5. /\ r \in Parents /\ r.failed /\ r.forked = q.forked
        /\ r.reaped = {} /\ r.handlers = <<>> /\ r.pc = q.pc /\ r.i = q.i
    BY <2>2 DEF Parents
  <2> HIDE DEF r
  <2>6. FamilyOK(r)
    BY <2>2, <2>3, <2>4, <2>5 DEF FamilyOK
  <2> QED
    BY <2>1, <2>6
<1>4. CASE Made
  <2>1. parent.pc = "made" /\ parent.handlers = <<>> /\ parent.reaped = {}
    BY <1>4 DEF Made, FamilyOK
  <2>2. CASE parent.failed
    <3> DEFINE r == [parent EXCEPT !.pc = "ended"]
    <3>1. r \in Parents /\ r.failed /\ r.pc = "ended" /\ r.reaped = {} /\ r.handlers = <<>>
      BY <1>1, <2>1, <2>2 DEF Parents
    <3>2. parent' = r
      BY <1>4, <2>2 DEF Made
    <3> HIDE DEF r
    <3> QED
      BY <3>1, <3>2 DEF FamilyOK
  <2>3. CASE ~parent.failed
    <3> DEFINE r == [parent EXCEPT !.pc = "suspend", !.live = Len(Children)]
    <3>1. Len(Children) \in Int
      BY FirstKids
    <3>2. r \in Parents /\ r.live = Len(Children)
      BY <1>1, <3>1 DEF Parents
    <3>3. r.failed = parent.failed /\ r.pc = "suspend" /\ r.reaped = parent.reaped
          /\ r.handlers = parent.handlers /\ r.forked = parent.forked
      BY <1>1 DEF Parents
    <3>4. parent' = r
      BY <1>4, <2>3 DEF Made
    <3>5. parent.forked = Kids
      BY <2>1, <2>3 DEF FamilyOK
    <3>6. Cardinality({}) = 0
      BY FS_EmptySet
    <3> HIDE DEF r
    <3>7. FamilyOK(r)
      BY <2>1, <2>3, <3>1, <3>2, <3>3, <3>5, <3>6 DEF FamilyOK
    <3> QED
      BY <3>4, <3>7
  <2> QED
    BY <2>2, <2>3
<1> QED
  BY <1>2, <1>3, <1>4

(* A handler begins or ends, and the parent is told of a signal. *)
LEMMA SignalKeeps ==
    ASSUME FamilyOK(parent), Sigint \/ CatchSigchld \/ CatchSigint
    PROVE  FamilyOK(parent')
<1>1. /\ parent \in Parents /\ Len(Children) \in Nat \ {0}
      /\ parent.handlers \in Seq({"reap", "kill"})
  BY FirstKids DEF FamilyOK, Parents
<1>2. CASE Sigint
  <2> DEFINE r == [parent EXCEPT !.int = "pending"]
  <2>1. parent' = r
    BY <1>2 DEF Sigint
  <2>2. /\ r \in Parents
        /\ r.pc = parent.pc /\ r.failed = parent.failed /\ r.live = parent.live
        /\ r.forked = parent.forked /\ r.reaped = parent.reaped
        /\ r.i = parent.i /\ r.handlers = parent.handlers
    BY <1>1 DEF Parents
  <2> HIDE DEF r
  <2> QED
    BY <2>1, <2>2, SameFamily
<1>3. CASE CatchSigchld
  <2> DEFINE h == <<"reap">> \o parent.handlers
             r == [parent EXCEPT !.chld = FALSE, !.handlers = h]
  <2>1. parent' = r /\ parent.pc = "suspend"
    BY <1>3 DEF CatchSigchld
  <2>2. h \in Seq({"reap", "kill"})
    BY <1>1
  <2> HIDE DEF h
  <2>3. /\ r \in Parents
        /\ r.pc = parent.pc /\ r.failed = parent.failed /\ r.live = parent.live
        /\ r.forked = parent.forked /\ r.reaped = parent.reaped
    BY <1>1, <2>2 DEF Parents
  <2> HIDE DEF r
  <2> QED
    BY <2>1, <2>3, SameFamily
<1>4. CASE CatchSigint
  <2> DEFINE h == <<"kill">> \o parent.handlers
             r == [parent EXCEPT !.int = "handled", !.i = 1, !.handlers = h]
  <2>1. parent' = r /\ parent.pc = "suspend"
    BY <1>4 DEF CatchSigint
  <2>2. h \in Seq({"reap", "kill"}) /\ 1 \in 1 .. Len(Children)
    BY <1>1
  <2> HIDE DEF h
  <2>3. /\ r \in Parents
        /\ r.pc = parent.pc /\ r.failed = parent.failed /\ r.live = parent.live
        /\ r.forked = parent.forked /\ r.reaped = parent.reaped
    BY <1>1, <2>2 DEF Parents
  <2> HIDE DEF r
  <2> QED
    BY <2>1, <2>3, SameFamily
<1> QED
  BY <1>2, <1>3, <1>4

LEMMA LeaveKeeps ==
    ASSUME FamilyOK(parent), parent.handlers # <<>>
    PROVE  FamilyOK(Leave(parent))
<1> DEFINE h == Tail(parent.handlers)
           r == [parent EXCEPT !.handlers = h]
<1>1. /\ parent \in Parents /\ parent.pc = "suspend"
      /\ parent.handlers \in Seq({"reap", "kill"})
  BY DEF FamilyOK, Parents
<1>2. h \in Seq({"reap", "kill"})
  BY <1>1
<1>3. Leave(parent) = r
  BY DEF Leave
<1> HIDE DEF h
<1>4. /\ r \in Parents
      /\ r.pc = parent.pc /\ r.failed = parent.failed /\ r.live = parent.live
      /\ r.forked = parent.forked /\ r.reaped = parent.reaped
  BY <1>1, <1>2 DEF Parents
<1> HIDE DEF r
<1> QED
  BY <1>1, <1>3, <1>4, SameFamily

(* Each child that waitpid returns was forked and not reaped before. *)
LEMMA ReapKeeps ==
    ASSUME FamilyOK(parent), Reap
    PROVE  FamilyOK(parent')
<1>1. /\ parent \in Parents /\ parent.handlers # <<>> /\ parent.pc = "suspend"
      /\ parent.live \in Int /\ parent.reaped \subseteq parent.forked
      /\ parent.forked \subseteq Kids /\ Len(Children) \in Nat
  BY FirstKids DEF Reap, InHandler, FamilyOK, Parents
<1>2. CASE Zombies = {}
  BY <1>1, <1>2, LeaveKeeps DEF Reap
<1>3. CASE Zombies # {}
  <2>1. PICK c \in Zombies :
            parent' = [parent EXCEPT !.reaped = @ \cup {c}, !.live = @ - 1]
    BY <1>3 DEF Reap
  <2>2. c \in parent.forked \ parent.reaped
    BY DEF Zombies
  <2> DEFINE gone == parent.reaped \cup {c}
             left == parent.live - 1
             r == [parent EXCEPT !.reaped = gone, !.live = left]
  <2>3. gone \in SUBSET Kids /\ left \in Int
    BY <1>1, <2>2
  <2>5. IsFiniteSet(parent.reaped) /\ Cardinality(parent.reaped) \in Nat
    BY <1>1, KidsCount, FS_Subset, FS_CardinalityType
  <2>6. Cardinality(parent.reaped \cup {c}) = Cardinality(parent.reaped) + 1
    BY <2>2, <2>5, FS_AddElement
  <2>7. parent' = r
    BY <2>1
  <2> HIDE DEF gone, left
  <2>4. /\ r \in Parents /\ r.reaped = gone /\ r.live = left
        /\ r.pc = parent.pc /\ r.failed = parent.failed /\ r.forked = parent.forked
    BY <1>1, <2>3 DEF Parents
  <2> HIDE DEF r
  <2>8. /\ ~parent.failed /\ parent.forked = Kids
        /\ parent.live = Len(Children) - Cardinality(parent.reaped)
    BY <1>1 DEF FamilyOK
  <2>9. r.live = Len(Children) - Cardinality(r.reaped)
    BY <1>1, <2>4, <2>5, <2>6, <2>8 DEF gone, left
  <2>10. FamilyOK(r)
    BY <1>1, <2>2, <2>4, <2>8, <2>9 DEF FamilyOK, gone
  <2> QED
    BY <2>7, <2>10
<1> QED
  BY <1>2, <1>3

LEMMA KillKeeps ==
    ASSUME FamilyOK(parent), KillChild
    PROVE  FamilyOK(parent')
<1> DEFINE q == IF parent.i = Len(Children) THEN Leave(parent)
                                            ELSE [parent EXCEPT !.i = @ + 1]
<1>1. /\ parent \in Parents /\ parent.handlers # <<>> /\ parent.pc = "suspend"
      /\ parent.i \in 1 .. Len(Children) /\ Len(Children) \in Nat
  BY FirstKids DEF KillChild, InHandler, FamilyOK, Parents
<1>2. FamilyOK(q)
  <2>1. CASE parent.i = Len(Children)
    BY <1>1, <2>1, LeaveKeeps
  <2>2. CASE parent.i # Len(Children)
    <3> DEFINE r == [parent EXCEPT !.i = @ + 1]
    <3>1. parent.i + 1 \in 1 .. Len(Children)
      BY <1>1, <2>2
    <3>2. /\ r \in Parents
          /\ r.pc = parent.pc /\ r.failed = parent.failed /\ r.live = parent.live
          /\ r.forked = parent.forked /\ r.reaped = parent.reaped
      BY <1>1, <3>1 DEF Parents
    <3>3. q = r
      BY <2>2
    <3> HIDE DEF r
    <3>4. FamilyOK(r)
      BY <1>1, <3>2, SameFamily
    <3> QED
      BY <3>3, <3>4
  <2> QED
    BY <2>1, <2>2
<1>3. parent' = q \/ parent' = WithSigchld(q)
  BY DEF KillChild
<1> HIDE DEF q
<1> QED
  BY <1>2, <1>3, SigchldSame

(* When live is 0 all are reaped. *)
LEMMA EndKeeps ==
    ASSUME FamilyOK(parent), End
    PROVE  FamilyOK(parent')
<1> DEFINE r == [parent EXCEPT !.pc = "ended"]
<1>1. /\ parent \in Parents /\ parent.pc = "suspend" /\ parent.handlers = <<>>
      /\ parent.live = 0 /\ parent.reaped \subseteq parent.forked
      /\ parent.forked = Kids /\ ~parent.failed
      /\ parent.live = Len(Children) - Cardinality(parent.reaped)
      /\ Len(Children) \in Nat
  BY FirstKids DEF End, FamilyOK
<1>2. Cardinality(parent.reaped) \in Nat
  BY <1>1, KidsCount, FS_Subset, FS_CardinalityType
<1>3. Cardinality(parent.reaped) = Cardinality(Kids)
  BY <1>1, <1>2, KidsCount
<1>4. parent.reaped = Kids
  BY <1>1, <1>3, KidsCount, FS_Subset
<1>5. /\ r \in Parents /\ r.pc = "ended" /\ r.handlers = parent.handlers
      /\ r.reaped = parent.reaped /\ r.forked = parent.forked
  BY <1>1 DEF Parents
<1>6. parent' = r
  BY DEF End
<1> HIDE DEF r
<1> QED
  BY <1>1, <1>4, <1>5, <1>6 DEF FamilyOK

Family == FamilyOK(parent)

LEMMA FamilyNext == Family /\ [BenchNext]_benchVars => Family'
<1> SUFFICES ASSUME FamilyOK(parent), [BenchNext]_benchVars PROVE FamilyOK(parent')
  BY DEF Family
<1>1. CASE ParentStep
  BY <1>1, ForkKeeps, SignalKeeps, ReapKeeps, KillKeeps, EndKeeps DEF ParentStep
<1>2. CASE Sigint
  BY <1>2, SignalKeeps
<1>3. CASE parent' = parent \/ parent' = WithSigchld(parent)
  BY <1>3, SigchldSame
<1>4. parent' = parent \/ parent' = WithSigchld(parent) \/ ParentStep \/ Sigint
  BY DEF BenchNext, benchVars
<1> QED
  BY <1>1, <1>2, <1>3, <1>4

(* The parent never ends with a child that it has not reaped, unless a fork  *)
(* failed: SIGCHLDs that are merged into one, that come while the handler    *)
(* runs, or beside a SIGINT, cost no child, and live is 0 only after all.    *)
THEOREM ParentReapsAll == BenchSpec => []NoChildLeft
<1>1. Family => NoChildLeft
  BY DEF Family, FamilyOK, NoChildLeft
<1>2. ParentInit => Family
  BY FamilyInit DEF Family
<1> QED
  BY <1>1, <1>2, FamilyNext, PTL DEF BenchSpec, BenchInit

------------------------------------------------------------------------------
(* The parent and all the processes. *)

(* Nothing runs in the place of a child that is not forked yet. *)
PlacesKept == \A c \in Kids \ parent.forked : ~Running(c)

BenchInv == LifeInv /\ Family /\ PlacesKept

(* Who steps was running, and no other process changes. *)
LEMMA StepIs ==
    ASSUME NEW p \in Procs, Step(p)
    PROVE  Running(p) /\ \E r : Put(p, r)
<1>1. CASE InitAgain(p) \/ Fini(p) \/ Exit(p)
  BY <1>1 DEF InitAgain, Fini, Exit, May, Between, Running
<1>2. CASE \E mode \in {"ro", "rw"}, n \in KeyCounts \cup {0, 2, BenchCount} :
              InitBegin(p, mode, n)
  BY <1>2 DEF InitBegin, May, Between, Running
<1>3. CASE Open(p) \/ OpenFails(p) \/ Fstat(p) \/ FstatFails(p)
  BY <1>3 DEF Open, OpenFails, Fstat, FstatFails, Running
<1>4. CASE Ftruncate(p) \/ FtruncateFails(p) \/ Mmap(p) \/ MmapFails(p) \/ WriteHeader(p)
  BY <1>4 DEF Ftruncate, FtruncateFails, Mmap, MmapFails, WriteHeader, Running
<1>5. CASE Set(p) \/ Del(p) \/ Stats(p)
  BY <1>5 DEF Set, Del, Stats, May, Between, Running, Segv, Crash, Result
<1>6. CASE \E call \in {"get", "get_by_ver", "get_all_ver"} : Get(p, call)
  BY <1>6 DEF Get, May, Between, Running, Segv, Crash, Result
<1> QED
  BY <1>1, <1>2, <1>3, <1>4, <1>5, <1>6 DEF Step

LEMMA ForkedSame == ASSUME NEW q \in Parents PROVE WithSigchld(q).forked = q.forked
BY DEF WithSigchld, Parents

(* Forked is forked, and a child is forked by Fork. *)
LEMMA ForkedGrows ==
    ASSUME Family, BenchNext
    PROVE  parent.forked \subseteq parent'.forked
<1>1. parent \in Parents
  BY DEF Family, FamilyOK
<1>2. CASE Fork
  <2>1. parent.pc = "fork" /\ parent'.forked = Next_i(parent).forked \cup {Children[parent.i]}
    <3>1. /\ parent.pc = "fork"
          /\ parent' = [Next_i(parent) EXCEPT !.forked = @ \cup {Children[parent.i]}]
      BY <1>2 DEF Fork
    <3>2. Next_i(parent) \in Parents
      BY <3>1, NextChild DEF Family
    <3> QED
      BY <3>1, <3>2 DEF Parents
  <2> QED
    BY <2>1, NextChild DEF Family
<1>3. CASE ForkFails
  <2> DEFINE q == IF parent.i = 1 THEN [parent EXCEPT !.pc = "made"] ELSE Next_i(parent)
  <2>1. parent.pc = "fork" /\ parent' = [q EXCEPT !.failed = TRUE]
    BY <1>3 DEF ForkFails
  <2>2. q \in Parents /\ q.forked = parent.forked
    <3>1. CASE parent.i = 1
      BY <1>1, <3>1 DEF Parents
    <3>2. CASE parent.i # 1
      BY <2>1, <3>2, NextChild DEF Family
    <3> QED
      BY <3>1, <3>2
  <2> HIDE DEF q
  <2> QED
    BY <2>1, <2>2 DEF Parents
<1>4. CASE Made \/ End \/ Sigint \/ CatchSigchld \/ CatchSigint
  BY <1>1, <1>4 DEF Made, End, Sigint, CatchSigchld, CatchSigint, Parents
<1>5. CASE Reap
  BY <1>1, <1>5 DEF Reap, Leave, Parents
<1>6. CASE KillChild
  <2> DEFINE q == IF parent.i = Len(Children) THEN Leave(parent)
                                              ELSE [parent EXCEPT !.i = @ + 1]
  <2>1. parent' = q \/ parent' = WithSigchld(q)
    BY <1>6 DEF KillChild
  <2>2. q \in Parents
    <3>1. parent.handlers # <<>> /\ parent.i \in 1 .. Len(Children) /\ Len(Children) \in Nat
      BY <1>1, <1>6, FirstKids DEF KillChild, InHandler, Parents
    <3>2. CASE parent.i = Len(Children)
      BY <3>1, <3>2, LeaveKeeps DEF Family, FamilyOK
    <3>3. CASE parent.i # Len(Children)
      <4>1. parent.i + 1 \in 1 .. Len(Children)
        BY <3>1, <3>3
      <4> QED
        BY <1>1, <3>3, <4>1 DEF Parents
    <3> QED
      BY <3>2, <3>3
  <2>3. q.forked = parent.forked
    BY <1>1 DEF Leave, Parents
  <2> HIDE DEF q
  <2> QED
    BY <2>1, <2>2, <2>3, ForkedSame
<1>7. CASE parent' = parent \/ parent' = WithSigchld(parent)
  BY <1>1, <1>7, ForkedSame
<1> QED
  BY <1>2, <1>3, <1>4, <1>5, <1>6, <1>7 DEF BenchNext, ParentStep

(* What the benchmark does to the file and to the processes, a lifecycle     *)
(* does: fork is the start of a program, SIGKILL is a kill.                  *)
LEMMA BenchStep ==
    ASSUME BenchInv, [BenchNext]_benchVars, "kill" \in Faults
    PROVE  [Next]_vars
<1>1. CASE Fork
  <2> DEFINE c == Children[parent.i]
  <2>1. /\ parent.pc = "fork" /\ Put(c, Fresh("call", Role(c)))
        /\ UNCHANGED <<file, cut>>
    BY <1>1 DEF Fork
  <2>2. /\ parent.i \in 1 .. Len(Children)
        /\ parent.forked \subseteq First(parent.i - 1)
    BY <2>1 DEF BenchInv, Family, FamilyOK, Parents
  <2>3. c \in Kids \ parent.forked /\ c \in Procs
    BY <2>2, FirstKids
  <2>4. ~Running(c) /\ Role(c) \in Programs[c] /\ Role(c) \in Commands
    BY <2>3, BenchAssumption DEF BenchInv, PlacesKept, Role, Commands
  <2>5. Start(c, Role(c))
    BY <2>1, <2>4 DEF Start
  <2> QED
    BY <2>3, <2>4, <2>5 DEF Next
<1>2. CASE KillChild
  <2>1. parent.i \in 1 .. Len(Children)
    BY DEF BenchInv, Family, FamilyOK, Parents
  <2>2. Children[parent.i] \in Procs
    BY <2>1, FirstKids
  <2> QED
    BY <1>2, <2>2 DEF KillChild, Next
<1>3. CASE ForkFails \/ Made \/ CatchSigchld \/ CatchSigint \/ Reap \/ End \/ Sigint
  BY <1>3 DEF ForkFails, Made, CatchSigchld, CatchSigint, Reap, End, Sigint
<1>4. CASE \E p \in Procs :
              \/ \E g \in Commands : Start(p, g)
              \/ Step(p)
              \/ "kill" \in Faults /\ Kill(p)
  BY <1>4 DEF Next
<1>5. CASE UNCHANGED benchVars
  BY <1>5 DEF benchVars
<1> QED
  BY <1>1, <1>2, <1>3, <1>4, <1>5 DEF BenchNext, ParentStep

LEMMA PlacesStep ==
    ASSUME BenchInv, [BenchNext]_benchVars
    PROVE  PlacesKept'
<1> SUFFICES ASSUME NEW c \in Kids, c \notin parent'.forked
             PROVE  ~Running(c)'
  BY DEF PlacesKept
<1>1. CASE UNCHANGED benchVars
  BY <1>1 DEF benchVars, vars, BenchInv, PlacesKept, Running
<1>2. CASE BenchNext
  <2>1. ~Running(c) /\ c \in Procs /\ proc \in [Procs -> Processes]
    BY <1>2, ForkedGrows, FirstKids
       DEF BenchInv, PlacesKept, LifeInv, TypeInv, LifecycleTypeOK
  <2>2. ASSUME NEW p \in Procs, p # c, NEW r, Put(p, r)
        PROVE  ~Running(c)'
    BY <2>1, <2>2 DEF Put, Running
  <2>3. ASSUME NEW p \in Procs, Kill(p)
        PROVE  ~Running(c)'
    <3>1. CASE p # c
      BY <2>2, <2>3, <3>1 DEF Kill
    <3>2. CASE p = c
      BY <2>1, <2>3, <3>2 DEF Kill
    <3> QED
      BY <3>1, <3>2
  <2>4. CASE Fork
    <3> DEFINE k == Children[parent.i]
               n == Next_i(parent)
    <3>1. /\ parent.pc = "fork" /\ Put(k, Fresh("call", Role(k)))
          /\ parent' = [n EXCEPT !.forked = @ \cup {k}]
      BY <2>4 DEF Fork
    <3>2. n \in Parents
      BY <3>1, NextChild DEF BenchInv, Family
    <3>3. k \in Procs
      BY FirstKids DEF BenchInv, Family, FamilyOK, Parents
    <3> HIDE DEF k, n
    <3>4. k \in parent'.forked
      BY <3>1, <3>2 DEF Parents
    <3> QED
      BY <2>2, <3>1, <3>3, <3>4
  <2>5. CASE KillChild
    <3>1. Children[parent.i] \in Procs
      BY FirstKids DEF BenchInv, Family, FamilyOK, Parents
    <3>2. CASE UNCHANGED vars
      BY <2>1, <3>2 DEF vars, Running
    <3>3. CASE Kill(Children[parent.i])
      BY <2>3, <3>1, <3>3
    <3> QED
      BY <2>5, <3>2, <3>3 DEF KillChild
  <2>6. CASE ForkFails \/ Made \/ CatchSigchld \/ CatchSigint \/ Reap \/ End \/ Sigint
    <3>1. UNCHANGED vars
      BY <2>6 DEF ForkFails, Made, CatchSigchld, CatchSigint, Reap, End, Sigint
    <3> QED
      BY <2>1, <3>1 DEF vars, Running
  <2>7. CASE \E p \in Procs : \/ p \notin Kids /\ \E g \in Commands : Start(p, g)
                              \/ Step(p)
    <3>1. PICK p \in Procs : \/ p \notin Kids /\ \E g \in Commands : Start(p, g)
                             \/ Step(p)
      BY <2>7
    <3>2. p # c /\ \E r : Put(p, r)
      BY <2>1, <3>1, StepIs DEF Start
    <3> QED
      BY <2>2, <3>2
  <2>8. CASE \E p \in Procs : Kill(p)
    BY <2>3, <2>8
  <2> QED
    BY <1>2, <2>4, <2>5, <2>6, <2>7, <2>8 DEF BenchNext, ParentStep
<1> QED
  BY <1>1, <1>2

LEMMA BenchStart == BenchInit => BenchInv
<1>1. ASSUME Init PROVE PlacesKept
  BY <1>1, FirstKids DEF Init, PlacesKept, Running, Fresh
<1> QED
  BY <1>1, LifeInit, FamilyInit DEF BenchInit, BenchInv, Family

(* The benchmark, with whatever runs beside it, is one of the systems that   *)
(* PupaLifecycle describes (the SIGKILL of its parent is one of the kills    *)
(* that Faults names): fork puts no process where one runs.                  *)
THEOREM BenchIsLifecycle ==
    ASSUME "kill" \in Faults
    PROVE  BenchSpec => Spec
<1>1. BenchInv /\ [BenchNext]_benchVars => [Next]_vars
  BY BenchStep
<1>2. BenchInv /\ [BenchNext]_benchVars => BenchInv'
  BY <1>1, LifeNext, FamilyNext, PlacesStep DEF BenchInv
<1>3. BenchInit => Init
  BY DEF BenchInit
<1> QED
  BY <1>1, <1>2, <1>3, BenchStart, PTL DEF BenchSpec, Spec

(* So what is proved of a lifecycle holds of the benchmark, beside whatever  *)
(* else uses its file: no child and no other process has a descriptor open   *)
(* between two calls, but those of failed ftruncates.                        *)
THEOREM BenchClosesDescriptors ==
    ASSUME "kill" \in Faults
    PROVE  BenchSpec => []LifecycleTypeOK /\ []DescriptorsClosed
BY BenchIsLifecycle, LifecycleTypes, NoDescriptorLost, PTL

(* When read-write initialisations are made in turn, whoever the parent      *)
(* kills in the middle of one: who is initialised has the whole store        *)
(* mapped, a writer finds a header, and a header stays.                      *)
THEOREM BenchKeepsFile ==
    ASSUME "kill" \in Faults, Serial
    PROVE  BenchSpec => []WholeStoreMapped /\ []WriterFindsHeader /\ HeaderKept
BY BenchIsLifecycle, InitMapsAll, InitFindsHeader, HeaderIsKept, PTL

(* The children of the benchmark, and commands of pupa_tool beside them,     *)
(* call the library only on a store that is mapped for them, when read-write *)
(* initialisations are made in turn.                                         *)
THEOREM BenchFindsStoreMapped ==
    ASSUME "kill" \in Faults, Serial
    PROVE  BenchSpec => []ToolsCallOnMapped
BY BenchIsLifecycle, ToolsFindStoreMapped, PTL
=============================================================================
