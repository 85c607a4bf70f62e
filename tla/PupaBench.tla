------------------------------ MODULE PupaBench ------------------------------
(***************************************************************************)
(* benchmark/bench.c: a parent that forks one writing and several reading  *)
(* children on one store file, waits for their ends in a signal handler    *)
(* and kills them all on SIGINT; beside it, other processes on that file.  *)
(***************************************************************************)
EXTENDS PupaLifecycle, Sequences, SequencesExt, FiniteSetsExt

CONSTANTS
    Children,   \* the processes the parent forks, the writing one first
    ForkFaults  \* whether fork may fail

Kids == ToSet(Children)

Role(c) == IF c = Children[1] THEN "write" ELSE "read"

ASSUME BenchAssumption ==
    /\ Children \in Seq(Procs) /\ IsInjective(Children) /\ Len(Children) > 0
    /\ \A c \in Kids : Role(c) \in Programs[c]
    /\ ForkFaults \in BOOLEAN

VARIABLE parent     \* the parent: see ParentInit

benchVars == <<vars, parent>>

Dead(c) == ~Running(c)

(* main up to make_process: SIGCHLD and SIGINT are blocked, and pending     *)
(* (chld, int) once they are sent; handlers is the stack of those running. *)
ParentInit ==
    parent = [pc |-> "fork", i |-> 1, failed |-> FALSE, live |-> 0,
              forked |-> {}, reaped |-> {}, chld |-> FALSE, int |-> "no",
              handlers |-> <<>>]

Zombies == {c \in parent.forked \ parent.reaped : Dead(c)}

(* The kernel tells the parent that a child has ended; signals do not queue. *)
WithSigchld(q) ==
    [q EXCEPT !.chld = @ \/ \E c \in Kids : proc[c].pc # proc'[c].pc /\ ~Running(c)']

-----------------------------------------------------------------------------
(* make_process: the children one after the other.  Without a writing one  *)
(* there are no readers.                                                   *)
Next_i(q) == IF q.i = Len(Children) THEN [q EXCEPT !.pc = "made"] ELSE [q EXCEPT !.i = @ + 1]

Fork ==
    /\ parent.pc = "fork"
    /\ LET c == Children[parent.i]
       IN  /\ Put(c, Fresh("call", Role(c)))
           /\ parent' = [Next_i(parent) EXCEPT !.forked = @ \cup {c}]
    /\ UNCHANGED <<file, cut>>

ForkFails ==
    /\ ForkFaults
    /\ parent.pc = "fork"
    /\ parent' = [(IF parent.i = 1 THEN [parent EXCEPT !.pc = "made"] ELSE Next_i(parent))
                     EXCEPT !.failed = TRUE]
    /\ UNCHANGED vars

(* Mutant: the writing child is not counted. *)
MadeReaders ==
    /\ parent.pc = "made"
    /\ parent' = IF parent.failed THEN [parent EXCEPT !.pc = "ended"]
                 ELSE [parent EXCEPT !.pc = "suspend", !.live = Len(Children) - 1]
    /\ UNCHANGED vars

(* A child that could not be forked ends main, the others go on. *)
Made ==
    /\ parent.pc = "made"
    /\ parent' = IF parent.failed THEN [parent EXCEPT !.pc = "ended"]
                 ELSE [parent EXCEPT !.pc = "suspend", !.live = Len(Children)]
    /\ UNCHANGED vars

(* Someone presses ^C, once. *)
Sigint ==
    /\ parent.pc # "ended"
    /\ parent.int = "no"
    /\ parent' = [parent EXCEPT !.int = "pending"]
    /\ UNCHANGED vars

(* Mutant: the signals are not blocked while the children are forked. *)
CatchSigchldAnytime ==
    /\ parent.pc \in {"fork", "made", "suspend"}
    /\ parent.chld /\ "reap" \notin ToSet(parent.handlers)
    /\ parent' = [parent EXCEPT !.chld = FALSE, !.handlers = <<"reap">> \o @]
    /\ UNCHANGED vars

(* sigsuspend: a handler begins, the other one's included, but not its own. *)
CatchSigchld ==
    /\ parent.pc = "suspend"
    /\ parent.chld /\ "reap" \notin ToSet(parent.handlers)
    /\ parent' = [parent EXCEPT !.chld = FALSE, !.handlers = <<"reap">> \o @]
    /\ UNCHANGED vars

CatchSigint ==
    /\ parent.pc = "suspend"
    /\ parent.int = "pending"
    /\ parent' = [parent EXCEPT !.int = "handled", !.i = 1, !.handlers = <<"kill">> \o @]
    /\ UNCHANGED vars

InHandler(h) == parent.handlers # <<>> /\ Head(parent.handlers) = h

Leave(q) == [q EXCEPT !.handlers = Tail(@)]

(* Mutant: one child is reaped for each signal. *)
ReapOne ==
    /\ InHandler("reap")
    /\ parent' \in IF Zombies = {} THEN {Leave(parent)}
                   ELSE {[Leave(parent) EXCEPT !.reaped = @ \cup {c}, !.live = @ - 1] :
                            c \in Zombies}
    /\ UNCHANGED vars

(* waitpid until there is no more to reap. *)
Reap ==
    /\ InHandler("reap")
    /\ parent' \in IF Zombies = {} THEN {Leave(parent)}
                   ELSE {[parent EXCEPT !.reaped = @ \cup {c}, !.live = @ - 1] :
                            c \in Zombies}
    /\ UNCHANGED vars

(* SIGKILL for every child, whether it is still there or not. *)
KillChild ==
    /\ InHandler("kill")
    /\ LET c == Children[parent.i]
           q == IF parent.i = Len(Children) THEN Leave(parent)
                                            ELSE [parent EXCEPT !.i = @ + 1]
       IN  IF Running(c)
           THEN Kill(c) /\ parent' = WithSigchld(q)
           ELSE parent' = q /\ UNCHANGED vars

(* while (live_process). *)
End ==
    /\ parent.pc = "suspend" /\ parent.handlers = <<>>
    /\ parent.live = 0
    /\ parent' = [parent EXCEPT !.pc = "ended"]
    /\ UNCHANGED vars

ParentStep ==
    \/ Fork \/ ForkFails \/ Made
    \/ CatchSigchld \/ CatchSigint \/ Reap \/ KillChild
    \/ End

BenchInit == Init /\ ParentInit

BenchNext ==
    \/ ParentStep
    \/ Sigint
    \/ \E p \in Procs :
          \/ p \notin Kids /\ (\E g \in Commands : Start(p, g)) /\ UNCHANGED parent
          \/ Step(p) /\ parent' = WithSigchld(parent)
          \/ "kill" \in Faults /\ Kill(p) /\ parent' = WithSigchld(parent)

BenchSpec == BenchInit /\ [][BenchNext]_benchVars /\ WF_benchVars(ParentStep)

-----------------------------------------------------------------------------
(* The parent ends once all its children have, and once it is interrupted, *)
(* wherever the signals fall: none of its waits is for a signal that was   *)
(* handled before (sigprocmask at bench.c:266, sigsuspend at 280).         *)
ParentEnds ==
    \/ parent.int = "pending"
    \/ parent.pc = "suspend" /\ \A c \in Kids : Dead(c)
    ~> parent.pc = "ended"

(* It leaves no child behind: each has been reaped, but when a fork failed. *)
NoChildLeft ==
    parent.pc = "ended" /\ ~parent.failed => parent.reaped = Kids

=============================================================================
