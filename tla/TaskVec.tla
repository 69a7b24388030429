------------------------------ MODULE TaskVec -------------------------------
(***************************************************************************)
(* The dynamic array of tasks of task/task_vec.c, one instance of it: the  *)
(* allocation it points to, cell by cell, and its length and capacity.     *)
(* Indices count from 1.  The model ends where the behaviour of the code   *)
(* is undefined, or where a call has made the next access undefined.       *)
(***************************************************************************)
EXTENDS Naturals, Sequences

CONSTANTS
    TaskIds, Groups,   \* the ids and process groups of the tasks
    Garbage,           \* what an uninitialised cell holds
    Uses,              \* the ways a program may use a vector
    MaxCap,            \* the most tasks whose size in bytes is a size_t
    MaxLen             \* bound: the length

Tasks == [task_id : TaskIds, process_group : Groups]

(* The capacity a vector is made with, 0 for tvec_new; the capacities that *)
(* tvec_shrink_to is asked for, {} if none of the shrinking calls is used; *)
(* and whether malloc and realloc may return NULL.                         *)
ASSUME UsesAssumption ==
    Uses \subseteq [cap : Nat, shrinks : SUBSET Nat, fails : BOOLEAN]
ASSUME MaxCapAssumption == MaxCap \in Nat

VARIABLES
    mem,    \* the cells of the allocation buf points to, <<>> for NULL
    len, cap,
    st      \* "ok", "dropped", or how it went wrong: "broken", a store
            \* outside of the allocation; "cut", shorter than its length;
            \* "dangling", buf was freed and is kept
VARIABLE use    \* how the program uses this vector

vars == <<mem, len, cap, st>>
allVars == <<vars, use>>

(* realloc, or malloc when m is empty.                                     *)
Realloc(m, n) == [i \in 1..n |-> IF i <= Len(m) THEN m[i] ELSE Garbage]

(* tvec_new, tvec_with_cap.                                                *)
Init ==
    /\ use \in Uses /\ cap = use.cap
    /\ mem = Realloc(<<>>, cap)
    /\ len = 0 /\ st = "ok"

-----------------------------------------------------------------------------
(* Adding a task.                                                          *)

IsAtMaxCap == len = cap

(* Variant: growth by a quarter.                                           *)
GrownByQuarter == IF cap # 0 THEN cap + cap \div 4 ELSE 2

(* Half of a capacity of 1 is 0.                                           *)
Grown == IF cap # 0 THEN cap + cap \div 2 ELSE 2

(* Cell i becomes t, the cells from i up to the length move up by one.     *)
(* Variant: the cell displaced goes to the end, as removal fills its gap.  *)
PutSwapped(m, i, t) ==
    [k \in 1..Len(m) |->
        IF k = i THEN t ELSE IF k = len + 1 THEN m[i] ELSE m[k]]
Put(m, i, t) ==
    [k \in 1..Len(m) |->
        IF k = i THEN t ELSE IF i < k /\ k <= len + 1 THEN m[k - 1] ELSE m[k]]

(* The task is stored in m, at place i: behind the end of m if m is full.  *)
Store(m, c, i, t) ==
    /\ cap' = c /\ len' = len + 1
    /\ IF len < Len(m)
       THEN mem' = Put(m, i, t) /\ UNCHANGED st
       ELSE mem' = m /\ st' = "broken"

AddInPlace(t, i) ==
    /\ st = "ok" /\ ~IsAtMaxCap
    /\ Store(mem, cap, i, t)

AddGrown(t, i) ==
    /\ st = "ok" /\ IsAtMaxCap /\ len < MaxLen
    /\ Grown <= MaxCap
    /\ Store(Realloc(mem, Grown), Grown, i, t)

(* The new size overflows: the "smaller" size of the retry is never one    *)
(* that the loop goes on with, and the call returns false.                 *)
AddRefused ==
    /\ st = "ok" /\ IsAtMaxCap
    /\ Grown > MaxCap
    /\ UNCHANGED vars

(* All five attempts fail, each for the same size: NULL becomes the buffer *)
(* and is stored to.                                                       *)
AddNoMemory ==
    /\ st = "ok" /\ IsAtMaxCap /\ Grown <= MaxCap
    /\ use.fails
    /\ mem' = <<>> /\ cap' = Grown /\ len' = len + 1
    /\ st' = "broken"

Add(t, i) == AddInPlace(t, i) \/ AddGrown(t, i) \/ AddRefused \/ AddNoMemory

Push(t) == Add(t, len + 1)
InsertAt(t, i) == i \in 1..(len + 1) /\ Add(t, i)

-----------------------------------------------------------------------------
(* Removing one.  The cells behind the new length keep what they held.     *)

Shorten(m) == len' = len - 1 /\ mem' = m /\ UNCHANGED <<cap, st>>

(* Variant: no look at the length.                                         *)
PopUnchecked == st = "ok" /\ Shorten(mem)
Pop == st = "ok" /\ len # 0 /\ Shorten(mem)

RmAt(i) ==
    /\ st = "ok" /\ i \in 1..len
    /\ Shorten([mem EXCEPT ![i] = mem[len]])

RmOrdAt(i) ==
    /\ st = "ok" /\ i \in 1..len
    /\ Shorten([k \in 1..Len(mem) |->
                    IF i <= k /\ k < len THEN mem[k + 1] ELSE mem[k]])

(* The first place of an id, as tvec_search_by_tid finds it.               *)
IsFirst(i, tid) ==
    /\ i \in 1..len /\ mem[i].task_id = tid
    /\ \A j \in 1..(i - 1) : mem[j].task_id # tid

RmByTid(tid) == st = "ok" /\ \E i \in 1..len : IsFirst(i, tid) /\ RmOrdAt(i)

-----------------------------------------------------------------------------
(* Shrinking, and the end.                                                 *)

(***************************************************************************)
(* realloc to n tasks.  For n = 0 it frees the buffer and returns NULL     *)
(* (glibc), which is taken for a failure that changed nothing.             *)
(***************************************************************************)
(* Variant: the capacity is not updated.                                   *)
ResizeKeepsCap(n) ==
    /\ st = "ok" /\ ~IsAtMaxCap
    /\ n # 0
    /\ mem' = Realloc(mem, n) /\ st' = (IF n < len THEN "cut" ELSE "ok")
    /\ UNCHANGED <<len, cap>>
Resize(n) ==
    /\ st = "ok" /\ ~IsAtMaxCap
    /\ IF n = 0
       THEN mem' = <<>> /\ st' = "dangling" /\ UNCHANGED <<len, cap>>
       ELSE /\ mem' = Realloc(mem, n) /\ cap' = n
            /\ st' = (IF n < len THEN "cut" ELSE "ok")
            /\ UNCHANGED len

ShrinkToFit == Resize(len)
ShrinkTo(c) == Resize(IF len < c THEN len ELSE c)

Drop ==
    /\ st = "ok"
    /\ st' = "dropped" /\ UNCHANGED <<mem, len, cap>>

(* A call that finds nothing to do, or whose realloc fails, returns.       *)
NothingDone == st = "ok" /\ UNCHANGED vars

Call ==
    \/ \E t \in Tasks : Push(t) \/ \E i \in 1..(len + 1) : InsertAt(t, i)
    \/ Pop
    \/ \E i \in 1..len : RmAt(i) \/ RmOrdAt(i)
    \/ \E tid \in TaskIds : RmByTid(tid)
    \/ use.shrinks # {} /\ ShrinkToFit
    \/ \E c \in use.shrinks : ShrinkTo(c)
    \/ Drop
    \/ NothingDone

Next == Call /\ UNCHANGED use

Spec == Init /\ [][Next]_allVars

-----------------------------------------------------------------------------
(* Properties.                                                             *)

States == {"ok", "dropped", "broken", "cut", "dangling"}

(* The variables hold values of their types.                               *)
TypeOK ==
    /\ mem \in Seq(Tasks \cup {Garbage})
    /\ len \in Nat /\ cap \in Nat /\ st \in States /\ use \in Uses

(* While the vector is intact the capacity is that of the allocation, the  *)
(* length is within it, and no cell within the length is garbage: growth,  *)
(* shrinking and every move of cells leave no hole.                        *)
LiveCells ==
    st = "ok" =>
        /\ cap = Len(mem) /\ len <= cap
        /\ \A i \in 1..len : mem[i] \in Tasks

(***************************************************************************)
(* Made with any capacity but 1, never shrunk and with memory to be had,   *)
(* no vector stores outside of its allocation: wherever it is full, growth *)
(* makes room for the task before it is stored.  argus makes its one       *)
(* vector with tvec_new and never shrinks it (server.c:219-221).  The      *)
(* declaration of tvec_push (task_vec.h:219-224) asks for none of the      *)
(* conditions, and where memory runs out it says false is returned; the    *)
(* code falls short of it in both (AddNoMemory, and Grown of 1).           *)
(***************************************************************************)
NeverBroken ==
    use.cap # 1 /\ use.shrinks = {} /\ ~use.fails => st # "broken"
=============================================================================
