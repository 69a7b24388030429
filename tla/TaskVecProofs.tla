--------------------------- MODULE TaskVecProofs ----------------------------
(***************************************************************************)
(* Proofs about TaskVec, for every capacity, every set of tasks and every  *)
(* sequence of calls.  TypeOK and LiveCells are inductive together.  The   *)
(* second half proves that TaskVec implements TaskSeq: the cells up to the *)
(* length are the sequence, and each call changes it as one step of        *)
(* TaskSeq or not at all.                                                  *)
(***************************************************************************)
EXTENDS MCTaskVec, Integers, TLAPS

Cells == Tasks \cup {Garbage}

(* TypeOK, but for the use of the vector, which no call changes.           *)
VecOK ==
    /\ mem \in Seq(Cells)
    /\ len \in Nat /\ cap \in Nat /\ st \in States

Inv == VecOK /\ LiveCells

LEMMA SeqOfFunction ==
    ASSUME NEW S, NEW n \in Nat, NEW f \in [1..n -> S]
    PROVE  f \in Seq(S) /\ Len(f) = n
OBVIOUS

(* A reallocation keeps the cells that fit and fills up with garbage.      *)
LEMMA ReallocKeeps ==
    ASSUME NEW m \in Seq(Cells), NEW n \in Nat
    PROVE  /\ Realloc(m, n) \in Seq(Cells) /\ Len(Realloc(m, n)) = n
           /\ \A i \in 1..n : i <= Len(m) => Realloc(m, n)[i] = m[i]
<1>1. \A i \in 1..n : (IF i <= Len(m) THEN m[i] ELSE Garbage) \in Cells
  BY DEF Cells
<1>2. Realloc(m, n) \in [1..n -> Cells]
  BY <1>1 DEF Realloc
<1>3. \A i \in 1..n : i <= Len(m) => Realloc(m, n)[i] = m[i]
  BY DEF Realloc
<1> QED
  BY <1>2, <1>3, SeqOfFunction

(* Put fills the cells up to the new length from those up to the old.      *)
LEMMA PutFills ==
    ASSUME NEW m \in Seq(Cells), NEW t \in Tasks, NEW i \in 1..(len + 1),
           len \in Nat, len < Len(m), \A k \in 1..len : m[k] \in Tasks
    PROVE  /\ Put(m, i, t) \in Seq(Cells) /\ Len(Put(m, i, t)) = Len(m)
           /\ \A k \in 1..(len + 1) : Put(m, i, t)[k] \in Tasks
<1> DEFINE p == Put(m, i, t)
<1>1. \A k \in 1..Len(m) :
         p[k] = IF k = i THEN t ELSE IF i < k /\ k <= len + 1 THEN m[k - 1] ELSE m[k]
  BY DEF Put
<1>2. ASSUME NEW k \in 1..Len(m), k # i, i < k, k <= len + 1
      PROVE  k - 1 \in 1..len
  BY <1>2
<1>3. ASSUME NEW k \in 1..(len + 1), k # i, ~(i < k)
      PROVE  k \in 1..len
  BY <1>3
<1> HIDE DEF p
<1>4. \A k \in 1..Len(m) : m[k] \in Cells
  OBVIOUS
<1>5. \A k \in 1..(len + 1) : k \in 1..Len(m)
  OBVIOUS
<1>6. \A k \in 1..(len + 1) : p[k] \in Tasks
  <2> TAKE k \in 1..(len + 1)
  <2>1. CASE k = i
    BY <2>1, <1>1, <1>5
  <2>2. CASE k # i /\ i < k
    BY <2>2, <1>1, <1>2, <1>5
  <2>3. CASE k # i /\ ~(i < k)
    BY <2>3, <1>1, <1>3, <1>5
  <2> QED
    BY <2>1, <2>2, <2>3
<1>7. \A k \in 1..Len(m) : p[k] \in Cells
  <2> TAKE k \in 1..Len(m)
  <2>1. CASE k <= len + 1
    BY <2>1, <1>6 DEF Cells
  <2>2. CASE ~(k <= len + 1)
    BY <2>2, <1>1, <1>4
  <2> QED
    BY <2>1, <2>2
<1>8. p \in [1..Len(m) -> Cells]
  BY <1>7 DEF p, Put
<1> QED
  BY <1>6, <1>8, SeqOfFunction DEF p

(* A store into an intact allocation of the right size keeps Inv.          *)
LEMMA StoreKeepsInv ==
    ASSUME Inv, st = "ok", NEW m \in Seq(Cells), NEW t \in Tasks,
           NEW i \in 1..(len + 1),
           \A k \in 1..len : k <= Len(m) /\ m[k] \in Tasks, Store(m, Len(m), i, t)
    PROVE  Inv'
<1>1. len \in Nat /\ Len(m) \in Nat
  BY DEF Inv, VecOK
<1>2. cap' = Len(m) /\ len' = len + 1
  BY DEF Store
<1>3. CASE len < Len(m)
  <2>1. mem' = Put(m, i, t) /\ st' = "ok"
    BY <1>3 DEF Store
  <2>2. /\ Put(m, i, t) \in Seq(Cells) /\ Len(Put(m, i, t)) = Len(m)
        /\ \A k \in 1..(len + 1) : Put(m, i, t)[k] \in Tasks
    BY <1>1, <1>3, PutFills
  <2> QED
    BY <1>1, <1>2, <1>3, <2>1, <2>2 DEF Inv, VecOK, LiveCells, States, Cells
<1>4. CASE ~(len < Len(m))
  <2>1. mem' = m /\ st' = "broken"
    BY <1>4 DEF Store
  <2> QED
    BY <1>1, <1>2, <2>1 DEF Inv, VecOK, LiveCells, States, Cells
<1> QED
  BY <1>3, <1>4

LEMMA GrownIsNat == cap \in Nat => Grown \in Nat /\ cap <= Grown /\ (cap # 1 => cap < Grown)
BY DEF Grown

LEMMA AddKeepsInv ==
    ASSUME Inv, NEW t \in Tasks, NEW i \in 1..(len + 1), Add(t, i)
    PROVE  Inv'
<1>1. st = "ok" /\ mem \in Seq(Cells) /\ len \in Nat /\ cap \in Nat
  BY DEF Inv, VecOK, Add, AddInPlace, AddGrown, AddRefused, AddNoMemory, Cells
<1>2. cap = Len(mem) /\ len <= cap /\ \A k \in 1..len : mem[k] \in Tasks
  BY <1>1 DEF Inv, LiveCells
<1>3. CASE AddInPlace(t, i)
  BY <1>1, <1>2, <1>3, StoreKeepsInv DEF AddInPlace
<1>4. CASE AddGrown(t, i)
  <2> DEFINE m == Realloc(mem, Grown)
  <2>1. Grown \in Nat /\ len <= Grown
    BY <1>1, <1>2, GrownIsNat
  <2>2. /\ m \in Seq(Cells) /\ Len(m) = Grown
        /\ \A k \in 1..Grown : k <= Len(mem) => m[k] = mem[k]
    BY <1>1, <2>1, ReallocKeeps
  <2>3. Store(m, Len(m), i, t)
    BY <1>4, <2>2 DEF AddGrown
  <2> HIDE DEF m
  <2>4. \A k \in 1..len : k <= Len(m) /\ m[k] \in Tasks
    BY <1>1, <1>2, <2>1, <2>2
  <2> QED
    BY <1>1, <2>2, <2>3, <2>4, StoreKeepsInv
<1>5. CASE AddRefused
  BY <1>5 DEF AddRefused, vars, Inv, VecOK, LiveCells
<1>6. CASE AddNoMemory
  BY <1>1, <1>6, GrownIsNat DEF AddNoMemory, Inv, VecOK, LiveCells, States
<1> QED
  BY <1>3, <1>4, <1>5, <1>6 DEF Add

(* Shortening onto cells that are as good as the old ones keeps Inv.       *)
LEMMA ShortenKeepsInv ==
    ASSUME Inv, st = "ok", len # 0, NEW m \in Seq(Cells), Len(m) = Len(mem),
           \A k \in 1..(len - 1) : m[k] \in Tasks, Shorten(m)
    PROVE  Inv'
<1>1. len \in Nat /\ cap = Len(mem) /\ len <= cap /\ cap \in Nat
  BY DEF Inv, VecOK, LiveCells
<1> QED
  BY <1>1 DEF Shorten, Inv, VecOK, LiveCells, States, Cells

LEMMA RemoveKeepsInv ==
    ASSUME Inv, Pop \/ \E i \in 1..len : RmAt(i) \/ RmOrdAt(i)
    PROVE  Inv'
<1>1. st = "ok" /\ mem \in Seq(Cells) /\ len \in Nat /\ len # 0
  <2>1. len \in Nat /\ mem \in Seq(Cells)
    BY DEF Inv, VecOK, Cells
  <2>2. CASE Pop
    BY <2>1, <2>2 DEF Pop
  <2>3. ASSUME NEW i \in 1..len, RmAt(i) \/ RmOrdAt(i)
        PROVE  st = "ok" /\ len # 0
    BY <2>1, <2>3 DEF RmAt, RmOrdAt
  <2> QED
    BY <2>1, <2>2, <2>3
<1>2. cap = Len(mem) /\ len <= Len(mem) /\ \A k \in 1..len : mem[k] \in Tasks
  BY <1>1 DEF Inv, LiveCells
<1>3. CASE Pop
  BY <1>1, <1>2, <1>3, ShortenKeepsInv DEF Pop
<1>4. ASSUME NEW i \in 1..len, RmAt(i)
      PROVE  Inv'
  <2> DEFINE m == [mem EXCEPT ![i] = mem[len]]
  <2>1. m \in Seq(Cells) /\ Len(m) = Len(mem)
    BY <1>1, <1>2
  <2>2. \A k \in 1..(len - 1) : m[k] \in Tasks
    BY <1>1, <1>2
  <2> QED
    BY <1>1, <1>4, <2>1, <2>2, ShortenKeepsInv DEF RmAt
<1>5. ASSUME NEW i \in 1..len, RmOrdAt(i)
      PROVE  Inv'
  <2> DEFINE m == [k \in 1..Len(mem) |->
                      IF i <= k /\ k < len THEN mem[k + 1] ELSE mem[k]]
  <2>1. \A k \in 1..Len(mem) :
           (IF i <= k /\ k < len THEN mem[k + 1] ELSE mem[k]) \in Cells
    BY <1>1, <1>2
  <2>2. m \in [1..Len(mem) -> Cells]
    BY <2>1
  <2>3. m \in Seq(Cells) /\ Len(m) = Len(mem)
    BY <1>1, <2>2, SeqOfFunction
  <2>4. \A k \in 1..(len - 1) : m[k] \in Tasks
    BY <1>1, <1>2
  <2>5. Shorten(m)
    BY <1>5 DEF RmOrdAt
  <2> HIDE DEF m
  <2> QED
    BY <1>1, <2>3, <2>4, <2>5, ShortenKeepsInv
<1> QED
  BY <1>3, <1>4, <1>5

LEMMA ResizeKeepsInv ==
    ASSUME Inv, NEW n \in Nat, Resize(n)
    PROVE  Inv'
<1>1. st = "ok" /\ mem \in Seq(Cells) /\ len \in Nat /\ cap \in Nat
  BY DEF Inv, VecOK, Resize, Cells
<1>2. cap = Len(mem) /\ len <= cap /\ \A k \in 1..len : mem[k] \in Tasks
  BY <1>1 DEF Inv, LiveCells
<1>3. CASE n = 0
  BY <1>1, <1>3 DEF Resize, Inv, VecOK, LiveCells, States
<1>4. CASE n # 0
  <2>1. /\ Realloc(mem, n) \in Seq(Cells) /\ Len(Realloc(mem, n)) = n
        /\ \A i \in 1..n : i <= Len(mem) => Realloc(mem, n)[i] = mem[i]
    BY <1>1, ReallocKeeps
  <2>2. /\ mem' = Realloc(mem, n) /\ cap' = n /\ len' = len
        /\ st' = IF n < len THEN "cut" ELSE "ok"
    BY <1>4 DEF Resize
  <2>3. VecOK'
    BY <1>1, <2>1, <2>2 DEF VecOK, States, Cells
  <2>4. CASE n < len
    BY <2>2, <2>3, <2>4 DEF Inv, LiveCells
  <2>5. CASE ~(n < len)
    <3>1. \A i \in 1..len : mem'[i] = mem[i]
      BY <1>1, <1>2, <2>1, <2>2, <2>5
    <3> QED
      BY <1>1, <1>2, <2>1, <2>2, <2>3, <2>5, <3>1 DEF Inv, LiveCells
  <2> QED
    BY <2>4, <2>5
<1> QED
  BY <1>3, <1>4

LEMMA InitInv == Init => Inv
<1> SUFFICES ASSUME Init PROVE Inv
  OBVIOUS
<1>1. cap \in Nat /\ mem = Realloc(<<>>, cap) /\ len = 0 /\ st = "ok"
  BY UsesAssumption DEF Init
<1>2. mem \in Seq(Cells) /\ Len(mem) = cap
  <2>1. <<>> \in Seq(Cells)
    OBVIOUS
  <2> QED
    BY <1>1, <2>1, ReallocKeeps
<1> QED
  BY <1>1, <1>2 DEF Inv, VecOK, LiveCells, States, Cells

(* The use of a vector is one of those admitted, and stays what it is.     *)
UseOK == use \in Uses

LEMMA UseStays == (Init => UseOK) /\ (UseOK /\ [Next]_allVars => UseOK')
BY DEF Init, Next, allVars, UseOK

LEMMA NextInv == Inv /\ UseOK /\ [Next]_allVars => Inv'
<1> SUFFICES ASSUME Inv, UseOK, [Next]_allVars PROVE Inv'
  OBVIOUS
<1>0. len \in Nat
  BY DEF Inv, VecOK
<1>1. ASSUME NEW t \in Tasks, Push(t)
      PROVE  Inv'
  BY <1>0, <1>1, AddKeepsInv DEF Push
<1>2. ASSUME NEW t \in Tasks, NEW i \in 1..(len + 1), InsertAt(t, i)
      PROVE  Inv'
  BY <1>2, AddKeepsInv DEF InsertAt
<1>3. CASE Pop
  BY <1>3, RemoveKeepsInv
<1>4. ASSUME NEW i \in 1..len, RmAt(i) \/ RmOrdAt(i)
      PROVE  Inv'
  BY <1>4, RemoveKeepsInv
<1>5. ASSUME NEW tid \in TaskIds, RmByTid(tid)
      PROVE  Inv'
  BY <1>5, RemoveKeepsInv DEF RmByTid
<1>6. CASE ShrinkToFit
  BY <1>0, <1>6, ResizeKeepsInv DEF ShrinkToFit
<1>7. ASSUME NEW c \in use.shrinks, ShrinkTo(c)
      PROVE  Inv'
  <2>1. c \in Nat /\ (IF len < c THEN len ELSE c) \in Nat
    BY <1>0, UsesAssumption DEF UseOK
  <2> QED
    BY <1>7, <2>1, ResizeKeepsInv DEF ShrinkTo
<1>8. CASE Drop
  BY <1>8 DEF Drop, Inv, VecOK, LiveCells, States
<1>9. CASE NothingDone
  BY <1>9 DEF NothingDone, vars, Inv, VecOK, LiveCells
<1>10. CASE UNCHANGED allVars
  BY <1>10 DEF allVars, vars, Inv, VecOK, LiveCells
<1> QED
  BY <1>1, <1>2, <1>3, <1>4, <1>5, <1>6, <1>7, <1>8, <1>9, <1>10 DEF Next, Call, allVars

THEOREM InvHolds == Spec => [](Inv /\ UseOK)
BY InitInv, NextInv, UseStays, PTL DEF Spec

(* Every variable of the vector holds a value of its type.                 *)
THEOREM TypeCorrect == Spec => []TypeOK
<1>1. Inv /\ UseOK => TypeOK
  BY DEF Inv, VecOK, TypeOK, Cells, UseOK
<1> QED
  BY <1>1, InvHolds, PTL

(* As long as nothing undefined has happened, the capacity is the size of  *)
(* the allocation, the length is within it and each cell within the length *)
(* holds a task that was put there.                                        *)
THEOREM CellsAreLive == Spec => []LiveCells
<1>1. Inv => LiveCells
  BY DEF Inv
<1> QED
  BY <1>1, InvHolds, PTL

-----------------------------------------------------------------------------
(* What it takes to store outside of the allocation.                       *)

LEMMA StoreBreaks ==
    ASSUME NEW m, NEW c, NEW i, NEW t, st = "ok", Store(m, c, i, t), st' = "broken"
    PROVE  ~(len < Len(m))
BY DEF Store

LEMMA AddBreaks ==
    ASSUME Inv, NEW t \in Tasks, NEW i \in 1..(len + 1), Add(t, i), st' = "broken"
    PROVE  len = cap /\ (cap = 1 \/ (use.fails /\ mem' = <<>>))
<1>1. st = "ok" /\ mem \in Seq(Cells) /\ len \in Nat /\ cap \in Nat
  BY DEF Inv, VecOK, Add, AddInPlace, AddGrown, AddRefused, AddNoMemory, Cells
<1>2. cap = Len(mem) /\ len <= cap
  BY <1>1 DEF Inv, LiveCells
<1>3. CASE AddInPlace(t, i)
  <2>1. ~(len < Len(mem)) /\ len # cap
    BY <1>1, <1>3, StoreBreaks DEF AddInPlace, IsAtMaxCap
  <2> QED
    BY <1>1, <1>2, <2>1
<1>4. CASE AddGrown(t, i)
  <2>1. Grown \in Nat /\ (cap # 1 => cap < Grown)
    BY <1>1, GrownIsNat
  <2>2. Len(Realloc(mem, Grown)) = Grown
    BY <1>1, <2>1, ReallocKeeps
  <2>3. ~(len < Grown) /\ len = cap
    BY <1>1, <1>4, <2>2, StoreBreaks DEF AddGrown, IsAtMaxCap
  <2> QED
    BY <1>1, <2>1, <2>3
<1>5. CASE AddRefused
  BY <1>1, <1>5 DEF AddRefused, vars
<1>6. CASE AddNoMemory
  BY <1>6 DEF AddNoMemory, IsAtMaxCap
<1> QED
  BY <1>3, <1>4, <1>5, <1>6 DEF Add

(***************************************************************************)
(* What the declaration of tvec_push promises (task_vec.h:219-224) holds   *)
(* of the code under three conditions: allocations do not fail, no vector  *)
(* is made with a capacity of 1, and none is shrunk.  argus meets the last *)
(* two: it calls tvec_new only (server.c:219-221), and never shrinks.      *)
(***************************************************************************)
Frugal == use.cap # 1 /\ use.shrinks = {} /\ ~use.fails
Roomy == st \in {"ok", "dropped"} /\ cap # 1

LEMMA AddKeepsRoomy ==
    ASSUME Inv, Roomy, Frugal, NEW t \in Tasks, NEW i \in 1..(len + 1), Add(t, i)
    PROVE  Roomy'
<1>1. st' # "broken"
  BY AddBreaks DEF Roomy, Frugal
<1>2. st' = st \/ st' = "broken"
  BY DEF Add, AddInPlace, AddGrown, AddRefused, AddNoMemory, Store, vars
<1>3. cap \in Nat
  BY DEF Inv, VecOK
<1>4. Grown # 1
  BY <1>3 DEF Grown, Roomy
<1>5. cap' # 1
  BY <1>4 DEF Add, AddInPlace, AddGrown, AddRefused, AddNoMemory, Store, vars, Roomy
<1> QED
  BY <1>1, <1>2, <1>5 DEF Roomy

LEMMA CallKeepsRoomy ==
    ASSUME Inv, Roomy, Frugal, Call
    PROVE  Roomy'
<1>0. len \in Nat
  BY DEF Inv, VecOK
<1>1. ASSUME NEW t \in Tasks, Push(t)
      PROVE  Roomy'
  BY <1>0, <1>1, AddKeepsRoomy DEF Push
<1>2. ASSUME NEW t \in Tasks, NEW i \in 1..(len + 1), InsertAt(t, i)
      PROVE  Roomy'
  BY <1>2, AddKeepsRoomy DEF InsertAt
<1>3. CASE Pop
  BY <1>3 DEF Pop, Shorten, Roomy
<1>4. ASSUME NEW i, RmAt(i) \/ RmOrdAt(i)
      PROVE  Roomy'
  BY <1>4 DEF RmAt, RmOrdAt, Shorten, Roomy
<1>5. ASSUME NEW tid, RmByTid(tid)
      PROVE  Roomy'
  BY <1>4, <1>5 DEF RmByTid
<1>6. CASE Drop
  BY <1>6 DEF Drop, Roomy
<1>7. CASE NothingDone
  BY <1>7 DEF NothingDone, vars, Roomy
<1>8. use.shrinks = {}
  BY DEF Frugal
<1> QED
  BY <1>1, <1>2, <1>3, <1>4, <1>5, <1>6, <1>7, <1>8 DEF Call

LEMMA NextRoomy ==
    ASSUME Inv, Frugal => Roomy, [Next]_allVars
    PROVE  (Frugal => Roomy)'
<1>1. Frugal' <=> Frugal
  BY DEF Frugal, Next, allVars
<1>2. CASE Call
  BY <1>1, <1>2, CallKeepsRoomy
<1>3. CASE UNCHANGED allVars
  BY <1>1, <1>3 DEF Roomy, allVars, vars
<1> QED
  BY <1>2, <1>3 DEF Next

(* A vector made and used as argus does never stores out of bounds while   *)
(* allocations succeed.                                                    *)
THEOREM NeverBrokenWithMemory == Spec => []NeverBroken
<1>1. Init => (Frugal => Roomy)
  BY DEF Init, Frugal, Roomy
<1>2. Inv /\ (Frugal => Roomy) /\ [Next]_allVars => (Frugal => Roomy)'
  BY NextRoomy
<1>3. (Frugal => Roomy) => NeverBroken
  BY DEF Frugal, Roomy, NeverBroken
<1> QED
  BY <1>1, <1>2, <1>3, InvHolds, PTL DEF Spec

-----------------------------------------------------------------------------
(* The first n cells of m, as a sequence.                                  *)
Live(m, n) == [k \in 1..n |-> m[k]]

LEMMA LiveIsSeq ==
    ASSUME NEW n \in Nat, NEW m, \A k \in 1..n : m[k] \in Tasks
    PROVE  /\ Live(m, n) \in Seq(Tasks) /\ Len(Live(m, n)) = n
           /\ \A k \in 1..n : Live(m, n)[k] = m[k]
<1>1. Live(m, n) \in [1..n -> Tasks]
  BY DEF Live
<1> QED
  BY <1>1, SeqOfFunction DEF Live

(* Sequences with the same length and the same elements are equal.         *)
LEMMA SameSeq ==
    ASSUME NEW s \in Seq(Tasks), NEW t \in Seq(Tasks), Len(s) = Len(t),
           \A k \in 1..Len(s) : s[k] = t[k]
    PROVE  s = t
OBVIOUS

-----------------------------------------------------------------------------
(* The operators of TaskSeq, element by element.                           *)

LEMMA ConcatElements ==
    ASSUME NEW S, NEW u \in Seq(S), NEW v \in Seq(S)
    PROVE  /\ u \o v \in Seq(S) /\ Len(u \o v) = Len(u) + Len(v)
           /\ \A k \in 1..Len(u) : (u \o v)[k] = u[k]
           /\ \A k \in 1..Len(v) : (u \o v)[Len(u) + k] = v[k]
OBVIOUS

(* r is s with t put in at place i.                                        *)
Inserts(r, s, i, t) ==
    /\ r \in Seq(Tasks) /\ Len(r) = Len(s) + 1
    /\ \A k \in 1..(Len(s) + 1) :
         r[k] = IF k < i THEN s[k] ELSE IF k = i THEN t ELSE s[k - 1]

LEMMA InsertedElements ==
    ASSUME NEW s \in Seq(Tasks), NEW i \in 1..(Len(s) + 1), NEW t \in Tasks
    PROVE  Inserts(AbstractSeq!InsertAt(s, i, t), s, i, t)
<1> DEFINE a == SubSeq(s, 1, i - 1)  z == SubSeq(s, i, Len(s))
           b == a \o <<t>>  r == b \o z
<1>1. /\ a \in Seq(Tasks) /\ Len(a) = i - 1 /\ \A k \in 1..(i - 1) : a[k] = s[k]
      /\ z \in Seq(Tasks) /\ Len(z) = Len(s) - i + 1
      /\ \A k \in 1..(Len(s) - i + 1) : z[k] = s[k + i - 1]
      /\ Len(s) \in Nat /\ i \in Nat
  OBVIOUS
<1> HIDE DEF a, z
<1>2. /\ b \in Seq(Tasks) /\ Len(b) = i
      /\ \A k \in 1..i : b[k] = IF k < i THEN s[k] ELSE t
  BY <1>1
<1> HIDE DEF b
<1>3. /\ r \in Seq(Tasks) /\ Len(r) = Len(s) + 1
      /\ \A k \in 1..i : r[k] = b[k]
      /\ \A k \in 1..(Len(s) - i + 1) : r[i + k] = z[k]
  <2>1. /\ r \in Seq(Tasks) /\ Len(r) = Len(b) + Len(z)
        /\ \A k \in 1..Len(b) : r[k] = b[k]
        /\ \A k \in 1..Len(z) : r[Len(b) + k] = z[k]
    BY <1>1, <1>2, ConcatElements
  <2> HIDE DEF r
  <2> QED
    BY <1>1, <1>2, <2>1
<1>4. r = AbstractSeq!InsertAt(s, i, t)
  BY DEF AbstractSeq!InsertAt, a, z, b
<1> HIDE DEF r
<1>5. ASSUME NEW k \in 1..(Len(s) + 1)
      PROVE  r[k] = IF k < i THEN s[k] ELSE IF k = i THEN t ELSE s[k - 1]
  <2>1. CASE k <= i
    BY <1>1, <1>2, <1>3, <2>1
  <2>2. CASE i < k
    <3>1. k - i \in 1..(Len(s) - i + 1) /\ i + (k - i) = k
      BY <1>1, <2>2
    <3>2. r[k] = z[k - i]
      BY <1>3, <3>1
    <3>3. z[k - i] = s[(k - i) + i - 1] /\ (k - i) + i - 1 = k - 1
      BY <1>1, <3>1
    <3> QED
      BY <1>1, <2>2, <3>2, <3>3
  <2>3. k <= i \/ i < k
    BY <1>1
  <2> QED
    BY <2>1, <2>2, <2>3
<1> QED
  BY <1>3, <1>4, <1>5 DEF Inserts

LEMMA RemovedElements ==
    ASSUME NEW s \in Seq(Tasks), NEW i \in 1..Len(s)
    PROVE  LET r == AbstractSeq!RemoveAt(s, i) IN
           /\ r \in Seq(Tasks) /\ Len(r) = Len(s) - 1
           /\ \A k \in 1..(Len(s) - 1) : r[k] = IF k < i THEN s[k] ELSE s[k + 1]
<1> DEFINE a == SubSeq(s, 1, i - 1)  z == SubSeq(s, i + 1, Len(s))  r == a \o z
<1>1. /\ a \in Seq(Tasks) /\ Len(a) = i - 1 /\ \A k \in 1..(i - 1) : a[k] = s[k]
      /\ z \in Seq(Tasks) /\ Len(z) = Len(s) - i
      /\ \A k \in 1..(Len(s) - i) : z[k] = s[k + i]
      /\ Len(s) \in Nat /\ i \in Nat
  OBVIOUS
<1> HIDE DEF a, z
<1>2. r \in Seq(Tasks) /\ Len(r) = Len(s) - 1
  BY <1>1
<1>3. \A k \in 1..(Len(s) - 1) : r[k] = IF k < i THEN s[k] ELSE s[k + 1]
  BY <1>1
<1> QED
  BY <1>2, <1>3 DEF AbstractSeq!RemoveAt, a, z

LEMMA SwappedElements ==
    ASSUME NEW s \in Seq(Tasks), NEW i \in 1..Len(s)
    PROVE  LET r == AbstractSeq!Front(AbstractSeq!ReplaceAt(s, i, AbstractSeq!Last(s))) IN
           /\ r \in Seq(Tasks) /\ Len(r) = Len(s) - 1
           /\ \A k \in 1..(Len(s) - 1) : r[k] = IF k = i THEN s[Len(s)] ELSE s[k]
<1> DEFINE x == [s EXCEPT ![i] = s[Len(s)]]  r == SubSeq(x, 1, Len(x) - 1)
<1>1. /\ x \in Seq(Tasks) /\ Len(x) = Len(s) /\ Len(s) \in Nat /\ Len(s) # 0
      /\ \A k \in 1..Len(s) : x[k] = IF k = i THEN s[Len(s)] ELSE s[k]
  OBVIOUS
<1> HIDE DEF x
<1>2. /\ r \in Seq(Tasks) /\ Len(r) = Len(s) - 1
      /\ \A k \in 1..(Len(s) - 1) : r[k] = x[k]
  BY <1>1
<1> QED
  BY <1>1, <1>2
  DEF AbstractSeq!Front, AbstractSeq!ReplaceAt, AbstractSeq!Last, x

-----------------------------------------------------------------------------
(* The steps.                                                              *)

LEMMA Intact ==
    ASSUME Inv, st = "ok"
    PROVE  /\ len \in Nat /\ cap = Len(mem) /\ len <= Len(mem) /\ mem \in Seq(Cells)
           /\ Contents = Live(mem, len) /\ Contents \in Seq(Tasks) /\ Len(Contents) = len
           /\ \A k \in 1..len : Contents[k] = mem[k] /\ mem[k] \in Tasks
<1>1. /\ len \in Nat /\ cap = Len(mem) /\ len <= Len(mem) /\ mem \in Seq(Cells)
      /\ \A k \in 1..len : mem[k] \in Tasks
  BY DEF Inv, VecOK, LiveCells, Cells
<1>2. Contents = Live(mem, len)
  BY DEF Contents, Live
<1> QED
  BY <1>1, <1>2, LiveIsSeq

(* What a step that leaves the vector intact has to show.                  *)
LEMMA ContentsAre ==
    ASSUME Inv', st' = "ok", NEW s \in Seq(Tasks), Len(s) = len',
           \A k \in 1..len' : mem'[k] = s[k]
    PROVE  Contents' = s
<1>1. /\ Contents' = Live(mem', len')
  BY DEF Contents, Live
<1>2. len' \in Nat /\ \A k \in 1..len' : mem'[k] \in Tasks
  BY DEF Inv, VecOK, LiveCells
<1>3. /\ Live(mem', len') \in Seq(Tasks) /\ Len(Live(mem', len')) = len'
      /\ \A k \in 1..len' : Live(mem', len')[k] = mem'[k]
  BY <1>2, LiveIsSeq
<1> QED
  BY <1>1, <1>3, SameSeq

(* Any step out of the intact states is an end of the sequence.            *)
LEMMA EndsSeq ==
    ASSUME st = "ok", st' # "ok"
    PROVE  AbstractSeq!Next
BY DEF AbstractSeq!Next, AbstractSeq!End, Contents

LEMMA SameSeqStays ==
    ASSUME st = "ok", st' = "ok", Contents' = Contents
    PROVE  UNCHANGED AbstractSeq!seqVars
BY DEF AbstractSeq!seqVars

LEMMA InsertStep ==
    ASSUME Inv, Inv', NEW t \in Tasks, NEW i \in 1..(len + 1), Add(t, i)
    PROVE  AbstractSeq!Next \/ UNCHANGED AbstractSeq!seqVars
<1>1. st = "ok"
  BY DEF Add, AddInPlace, AddGrown, AddRefused, AddNoMemory
<1>2. /\ len \in Nat /\ cap = Len(mem) /\ len <= Len(mem) /\ mem \in Seq(Cells)
      /\ Contents \in Seq(Tasks) /\ Len(Contents) = len
      /\ \A k \in 1..len : Contents[k] = mem[k]
  BY <1>1, Intact
<1>3. ASSUME NEW m \in Seq(Cells), NEW c, Store(m, c, i, t),
             \A k \in 1..len : k <= Len(m) => m[k] = mem[k]
      PROVE  AbstractSeq!Next
  <2> DEFINE s == AbstractSeq!InsertAt(Contents, i, t)
  <2>1. CASE len < Len(m)
    <3>1. mem' = Put(m, i, t) /\ len' = len + 1 /\ st' = "ok"
      BY <1>1, <1>3, <2>1 DEF Store
    <3>2. /\ s \in Seq(Tasks) /\ Len(s) = len + 1
          /\ \A k \in 1..(len + 1) :
               s[k] = IF k < i THEN Contents[k] ELSE IF k = i THEN t ELSE Contents[k - 1]
      <4>1. Contents \in Seq(Tasks) /\ i \in 1..(Len(Contents) + 1) /\ t \in Tasks
        BY <1>2
      <4>2. Inserts(s, Contents, i, t)
        BY <4>1, InsertedElements
      <4> HIDE DEF s
      <4> QED
        BY <1>2, <4>2 DEF Inserts
    <3>3. \A k \in 1..(len + 1) :
             mem'[k] = IF k = i THEN t ELSE IF i < k THEN m[k - 1] ELSE m[k]
      BY <1>2, <2>1, <3>1 DEF Put
    <3> HIDE DEF s
    <3>4. \A k \in 1..(len + 1) : mem'[k] = s[k]
      <4> TAKE k \in 1..(len + 1)
      <4>1. CASE k = i
        BY <3>2, <3>3, <4>1
      <4>2. CASE k < i
        <5>1. k \in 1..len /\ ~(i < k) /\ k # i /\ k <= Len(m)
          BY <1>2, <2>1, <4>2
        <5> QED
          BY <1>2, <1>3, <3>2, <3>3, <4>2, <5>1
      <4>3. CASE i < k
        <5>1. k - 1 \in 1..len /\ ~(k < i) /\ k # i /\ k - 1 <= Len(m)
          BY <1>2, <2>1, <4>3
        <5> QED
          BY <1>2, <1>3, <3>2, <3>3, <4>3, <5>1
      <4> QED
        BY <1>2, <4>1, <4>2, <4>3
    <3>5. Contents' = s
      BY <3>1, <3>2, <3>4, ContentsAre
    <3>6. AbstractSeq!InsertOne
      BY <1>2, <3>5 DEF AbstractSeq!InsertOne, s
    <3> QED
      BY <1>1, <3>1, <3>6 DEF AbstractSeq!Next, AbstractSeq!Change
  <2>2. CASE ~(len < Len(m))
    BY <1>1, <1>3, <2>2, EndsSeq DEF Store
  <2> QED
    BY <2>1, <2>2
<1>4. CASE AddInPlace(t, i)
  BY <1>2, <1>3, <1>4 DEF AddInPlace
<1>5. CASE AddGrown(t, i)
  <2>1. Grown \in Nat
    BY <1>2, GrownIsNat
  <2>2. /\ Realloc(mem, Grown) \in Seq(Cells)
        /\ \A k \in 1..Grown : k <= Len(mem) => Realloc(mem, Grown)[k] = mem[k]
        /\ Len(Realloc(mem, Grown)) = Grown
    BY <1>2, <2>1, ReallocKeeps
  <2>3. Store(Realloc(mem, Grown), Grown, i, t)
    BY <1>5 DEF AddGrown
  <2>4. \A k \in 1..len : k <= Len(Realloc(mem, Grown)) => Realloc(mem, Grown)[k] = mem[k]
    BY <1>2, <2>1, <2>2
  <2> QED
    BY <1>3, <2>2, <2>3, <2>4
<1>6. CASE AddRefused
  BY <1>1, <1>6, SameSeqStays DEF AddRefused, vars, Contents
<1>7. CASE AddNoMemory
  BY <1>1, <1>7, EndsSeq DEF AddNoMemory
<1> QED
  BY <1>4, <1>5, <1>6, <1>7 DEF Add

LEMMA RemoveStep ==
    ASSUME Inv, Inv', Pop \/ \E i \in 1..len : RmAt(i) \/ RmOrdAt(i)
    PROVE  AbstractSeq!Next
<1>1. /\ st = "ok" /\ st' = "ok" /\ len' = len - 1
  BY DEF Pop, RmAt, RmOrdAt, Shorten
<1>2. /\ len \in Nat /\ len <= Len(mem) /\ mem \in Seq(Cells)
      /\ Contents \in Seq(Tasks) /\ Len(Contents) = len
      /\ DOMAIN Contents = 1..len
      /\ \A k \in 1..len : Contents[k] = mem[k]
  BY <1>1, Intact
<1>3. ASSUME AbstractSeq!RemoveOne \/ AbstractSeq!SwapRemove PROVE AbstractSeq!Next
  BY <1>1, <1>3 DEF AbstractSeq!Next, AbstractSeq!Change
<1>4. ASSUME NEW i \in 1..len,
             \A k \in 1..(len - 1) : mem'[k] = IF k < i THEN mem[k] ELSE mem[k + 1]
      PROVE  AbstractSeq!Next
  <2> DEFINE s == AbstractSeq!RemoveAt(Contents, i)
  <2>1. /\ s \in Seq(Tasks) /\ Len(s) = len - 1
        /\ \A k \in 1..(len - 1) : s[k] = IF k < i THEN Contents[k] ELSE Contents[k + 1]
    BY <1>2, RemovedElements
  <2> HIDE DEF s
  <2>2. \A k \in 1..(len - 1) : k \in 1..len /\ k + 1 \in 1..len
    BY <1>2
  <2>3. \A k \in 1..(len - 1) : mem'[k] = s[k]
    BY <1>2, <1>4, <2>1, <2>2
  <2>4. Contents' = s
    BY <1>1, <2>1, <2>3, ContentsAre
  <2> QED
    BY <1>2, <1>3, <2>4 DEF AbstractSeq!RemoveOne, s
<1>5. CASE Pop
  <2>1. len \in 1..len /\ mem' = mem
    BY <1>2, <1>5 DEF Pop, Shorten
  <2>2. \A k \in 1..(len - 1) : k < len
    BY <1>2
  <2> QED
    BY <1>4, <2>1, <2>2
<1>6. ASSUME NEW i \in 1..len, RmOrdAt(i) PROVE AbstractSeq!Next
  <2>1. mem' = [k \in 1..Len(mem) |->
                   IF i <= k /\ k < len THEN mem[k + 1] ELSE mem[k]]
    BY <1>6 DEF RmOrdAt, Shorten
  <2>2. \A k \in 1..(len - 1) :
           k \in 1..Len(mem) /\ k < len /\ (i <= k <=> ~(k < i))
    BY <1>2
  <2>3. \A k \in 1..(len - 1) : mem'[k] = IF k < i THEN mem[k] ELSE mem[k + 1]
    BY <2>1, <2>2
  <2> QED
    BY <1>4, <2>3
<1>7. ASSUME NEW i \in 1..len, RmAt(i) PROVE AbstractSeq!Next
  <2> DEFINE s == AbstractSeq!Front(
                     AbstractSeq!ReplaceAt(Contents, i, AbstractSeq!Last(Contents)))
  <2>1. /\ s \in Seq(Tasks) /\ Len(s) = len - 1
        /\ \A k \in 1..(len - 1) : s[k] = IF k = i THEN Contents[len] ELSE Contents[k]
    BY <1>2, SwappedElements
  <2> HIDE DEF s
  <2>2. /\ \A k \in 1..(len - 1) : k \in 1..len /\ k \in DOMAIN mem
        /\ len \in 1..len /\ mem' = [mem EXCEPT ![i] = mem[len]]
    BY <1>2, <1>7 DEF RmAt, Shorten
  <2>3. \A k \in 1..(len - 1) : mem'[k] = IF k = i THEN mem[len] ELSE mem[k]
    BY <2>2
  <2>4. Contents' = s
    BY <1>1, <1>2, <2>1, <2>2, <2>3, ContentsAre
  <2> QED
    BY <1>2, <1>3, <2>4 DEF AbstractSeq!SwapRemove, s
<1> QED
  BY <1>5, <1>6, <1>7

LEMMA ResizeStep ==
    ASSUME Inv, Inv', NEW n \in Nat, Resize(n)
    PROVE  AbstractSeq!Next \/ UNCHANGED AbstractSeq!seqVars
<1>1. st = "ok"
  BY DEF Resize
<1>2. CASE st' # "ok"
  BY <1>1, <1>2, EndsSeq
<1>3. CASE st' = "ok"
  <2>1. mem' = Realloc(mem, n) /\ len' = len /\ ~(n < len)
    BY <1>3 DEF Resize
  <2>2. /\ len \in Nat /\ len <= Len(mem) /\ mem \in Seq(Cells)
        /\ Contents \in Seq(Tasks) /\ Len(Contents) = len
        /\ \A k \in 1..len : Contents[k] = mem[k]
    BY <1>1, Intact
  <2>3. \A k \in 1..len : k \in 1..n /\ k <= Len(mem)
    BY <2>1, <2>2
  <2>4. \A k \in 1..len' : mem'[k] = Contents[k]
    BY <2>1, <2>2, <2>3, ReallocKeeps
  <2>5. Contents' = Contents
    BY <1>3, <2>1, <2>2, <2>4, ContentsAre
  <2> QED
    BY <1>1, <1>3, <2>5, SameSeqStays
<1> QED
  BY <1>2, <1>3

LEMMA StepRefines ==
    ASSUME Inv, Inv', UseOK, [Next]_allVars
    PROVE  AbstractSeq!Next \/ UNCHANGED AbstractSeq!seqVars
<1> DEFINE Goal == AbstractSeq!Next \/ UNCHANGED AbstractSeq!seqVars
<1>0. len \in Nat
  BY DEF Inv, VecOK
<1>1. ASSUME NEW t \in Tasks, Push(t) PROVE Goal
  BY <1>0, <1>1, InsertStep DEF Push
<1>2. ASSUME NEW t \in Tasks, NEW i \in 1..(len + 1), InsertAt(t, i) PROVE Goal
  BY <1>2, InsertStep DEF InsertAt
<1>3. CASE Pop
  BY <1>3, RemoveStep
<1>4. ASSUME NEW i \in 1..len, RmAt(i) \/ RmOrdAt(i) PROVE Goal
  BY <1>4, RemoveStep
<1>5. ASSUME NEW tid \in TaskIds, RmByTid(tid) PROVE Goal
  BY <1>5, RemoveStep DEF RmByTid
<1>6. CASE ShrinkToFit
  BY <1>0, <1>6, ResizeStep DEF ShrinkToFit
<1>7. ASSUME NEW c \in use.shrinks, ShrinkTo(c) PROVE Goal
  <2>1. c \in Nat /\ (IF len < c THEN len ELSE c) \in Nat
    BY <1>0, UsesAssumption DEF UseOK
  <2> QED
    BY <1>7, <2>1, ResizeStep DEF ShrinkTo
<1>8. CASE Drop
  BY <1>8, EndsSeq DEF Drop
<1>9. CASE NothingDone \/ UNCHANGED allVars
  BY <1>9 DEF NothingDone, vars, allVars, Contents, AbstractSeq!seqVars
<1> QED
  BY <1>1, <1>2, <1>3, <1>4, <1>5, <1>6, <1>7, <1>8, <1>9 DEF Next, Call

(* The vector is a sequence to whoever uses it: every call that leaves it  *)
(* intact inserts a task, removes one, puts the last in the place of one,  *)
(* or changes nothing (task_vec.c).                                        *)
THEOREM VecImplementsSeq == Spec => ImplementsSeq
<1>1. Init => AbstractSeq!Init
  <2> SUFFICES ASSUME Init PROVE AbstractSeq!Init
    OBVIOUS
  <2>1. len = 0 /\ st = "ok"
    BY DEF Init
  <2>2. Contents = [k \in 1..0 |-> mem[k]]
    BY <2>1 DEF Contents
  <2>3. Contents = <<>>
    BY <2>2
  <2> QED
    BY <2>1, <2>3 DEF AbstractSeq!Init
<1>2. Inv /\ Inv' /\ UseOK /\ [Next]_allVars => [AbstractSeq!Next]_AbstractSeq!seqVars
  BY StepRefines
<1> QED
  BY <1>1, <1>2, InvHolds, PTL DEF Spec, ImplementsSeq, AbstractSeq!Spec
=============================================================================
