-------------------------- MODULE BufWriterProofs ---------------------------
(***************************************************************************)
(* Proofs about BufWriter, for every capacity and every bound.  The heart  *)
(* of them: what a call sends and what it keeps are two pieces of the      *)
(* stream of accepted bytes that leave no gap between them.                *)
(***************************************************************************)
EXTENDS BufWriter, Integers, TLAPS

(* The bytes a + 1, ..., b of the stream.                                  *)
Piece(a, b) == [i \in 1..(b - a) |-> a + i]

LEMMA SeqOfFunction ==
    ASSUME NEW S, NEW n \in Nat, NEW f \in [1..n -> S]
    PROVE  f \in Seq(S) /\ Len(f) = n
OBVIOUS

LEMMA PieceIsSeq ==
    ASSUME NEW a \in Nat, NEW b \in Nat, a <= b
    PROVE  /\ Piece(a, b) \in Seq(Nat)
           /\ Len(Piece(a, b)) = b - a
           /\ DOMAIN Piece(a, b) = 1..(b - a)
           /\ \A i \in 1..(b - a) : Piece(a, b)[i] = a + i
<1>1. b - a \in Nat /\ Piece(a, b) \in [1..(b - a) -> Nat]
  BY DEF Piece
<1>2. \A i \in 1..(b - a) : Piece(a, b)[i] = a + i
  BY DEF Piece
<1> QED
  BY <1>1, <1>2, SeqOfFunction

(* A sequence is known by its length and its elements.                     *)
LEMMA IsPiece ==
    ASSUME NEW a \in Nat, NEW b \in Nat, a <= b, NEW s \in Seq(Nat),
           Len(s) = b - a, \A i \in 1..(b - a) : s[i] = a + i
    PROVE  s = Piece(a, b)
<1>1. s \in [1..(b - a) -> Nat]
  OBVIOUS
<1> QED
  BY <1>1 DEF Piece

LEMMA ConcatElements ==
    ASSUME NEW s \in Seq(Nat), NEW t \in Seq(Nat)
    PROVE  /\ s \o t \in Seq(Nat) /\ Len(s \o t) = Len(s) + Len(t)
           /\ \A i \in 1..Len(s \o t) :
                (s \o t)[i] = IF i <= Len(s) THEN s[i] ELSE t[i - Len(s)]
OBVIOUS

LEMMA JoinPieces ==
    ASSUME NEW a \in Nat, NEW b \in Nat, NEW c \in Nat, a <= b, b <= c
    PROVE  Piece(a, b) \o Piece(b, c) = Piece(a, c)
<1> DEFINE s == Piece(a, b)  t == Piece(b, c)
<1>1. /\ s \in Seq(Nat) /\ Len(s) = b - a /\ \A i \in 1..(b - a) : s[i] = a + i
      /\ t \in Seq(Nat) /\ Len(t) = c - b /\ \A i \in 1..(c - b) : t[i] = b + i
  BY PieceIsSeq
<1> HIDE DEF s, t
<1> DEFINE u == s \o t
<1>2. /\ u \in Seq(Nat) /\ Len(u) = Len(s) + Len(t)
      /\ \A i \in 1..Len(u) : u[i] = IF i <= Len(s) THEN s[i] ELSE t[i - Len(s)]
  BY <1>1, ConcatElements
<1> HIDE DEF u
<1>3. Len(u) = c - a
  BY <1>1, <1>2
<1>4. ASSUME NEW i \in 1..(c - a) PROVE u[i] = a + i
  <2>1. CASE i <= b - a
    <3>1. u[i] = s[i] /\ i \in 1..(b - a)
      BY <1>1, <1>2, <1>3, <2>1
    <3> QED
      BY <1>1, <3>1
  <2>2. CASE ~(i <= b - a)
    <3>1. u[i] = t[i - (b - a)] /\ i - (b - a) \in 1..(c - b)
      BY <1>1, <1>2, <1>3, <2>2
    <3>2. t[i - (b - a)] = b + (i - (b - a))
      BY <1>1, <3>1
    <3>3. b + (i - (b - a)) = a + i
      OBVIOUS
    <3> QED
      BY <3>1, <3>2, <3>3
  <2> QED
    BY <2>1, <2>2
<1>5. u = Piece(a, c)
  <2>1. a <= c
    OBVIOUS
  <2> QED
    BY <1>2, <1>3, <1>4, <2>1, IsPiece
<1> QED
  BY <1>5 DEF s, t, u

LEMMA SplitPiece ==
    ASSUME NEW a \in Nat, NEW b \in Nat, NEW k \in Nat, a + k <= b
    PROVE  /\ First(Piece(a, b), k) = Piece(a, a + k)
           /\ Rest(Piece(a, b), k) = Piece(a + k, b)
<1> DEFINE s == Piece(a, b)
<1>1. s \in Seq(Nat) /\ Len(s) = b - a /\ \A i \in 1..(b - a) : s[i] = a + i
  BY PieceIsSeq
<1> HIDE DEF s
<1>2. SubSeq(s, 1, k) = Piece(a, a + k)
  <2> DEFINE t == SubSeq(s, 1, k)
  <2>1. t \in Seq(Nat) /\ Len(t) = k /\ \A i \in 1..k : t[i] = s[i]
    BY <1>1
  <2>2. Len(t) = (a + k) - a /\ \A i \in 1..((a + k) - a) : t[i] = a + i
    BY <1>1, <2>1
  <2> HIDE DEF t
  <2>3. t = Piece(a, a + k)
    <3>1. a <= a + k /\ a + k \in Nat
      OBVIOUS
    <3> QED
      BY <2>1, <2>2, <3>1, IsPiece
  <2> QED
    BY <2>3 DEF t
<1>3. SubSeq(s, k + 1, Len(s)) = Piece(a + k, b)
  <2> DEFINE t == SubSeq(s, k + 1, Len(s))
  <2>1. /\ t \in Seq(Nat) /\ Len(t) = b - (a + k)
        /\ \A i \in 1..(b - (a + k)) : t[i] = s[k + i]
    BY <1>1
  <2>2. \A i \in 1..(b - (a + k)) : t[i] = (a + k) + i
    BY <1>1, <2>1
  <2> HIDE DEF t
  <2>3. t = Piece(a + k, b)
    BY <2>1, <2>2, IsPiece
  <2> QED
    BY <2>3 DEF t
<1> QED
  BY <1>2, <1>3 DEF s, First, Rest

-----------------------------------------------------------------------------
(* What the calls plan.                                                    *)

(* The first byte that is in the buffer comes after this one.              *)
Base == acc - Len(buf)

(***************************************************************************)
(* A plan that leaves end bytes accepted sends what follows Base up to e,  *)
(* and keeps what follows k up to the end: k is not beyond e, so nothing   *)
(* falls between the two.                                                  *)
(***************************************************************************)
GoodPlan(plan, end) ==
    \E e, k \in Nat :
        /\ Base <= k /\ k <= e /\ e <= end
        /\ plan.emit = Piece(Base, e) /\ plan.keep = Piece(k, end)

(* The buffer, the new bytes and the newline are pieces of the stream.     *)
LEMMA BufferIsPiece ==
    ASSUME TypeOK, BufferIsTail
    PROVE  /\ acc \in Nat /\ Base \in Nat /\ Base <= acc /\ Len(buf) = acc - Base
           /\ buf = Piece(Base, acc)
<1>1. acc \in Nat /\ Len(buf) \in Nat /\ Len(buf) <= acc /\ buf \in Seq(Nat)
      /\ DOMAIN buf = 1..Len(buf)
  BY DEF TypeOK, BufferIsTail
<1>2. Base \in Nat /\ Base <= acc /\ Len(buf) = acc - Base
  BY <1>1 DEF Base
<1>3. \A i \in 1..(acc - Base) : buf[i] = Base + i
  BY <1>1, <1>2 DEF BufferIsTail, Base
<1>4. buf = Piece(Base, acc)
  BY <1>1, <1>2, <1>3, IsPiece
<1> QED
  BY <1>1, <1>2, <1>4

LEMMA FreshIsPiece ==
    ASSUME acc \in Nat, NEW n \in Nat
    PROVE  Fresh(n) = Piece(acc, acc + n) /\ Len(Fresh(n)) = n
<1>1. (acc + n) - acc = n /\ acc <= acc + n /\ acc + n \in Nat
  OBVIOUS
<1>2. Fresh(n) = Piece(acc, acc + n)
  BY <1>1 DEF Fresh, Piece
<1> QED
  BY <1>1, <1>2, PieceIsSeq

LEMMA NewlineIsPiece ==
    ASSUME NEW a \in Nat
    PROVE  <<a + 1>> = Piece(a, a + 1)
<1>1. <<a + 1>> \in Seq(Nat) /\ Len(<<a + 1>>) = (a + 1) - a
  OBVIOUS
<1>2. \A i \in 1..((a + 1) - a) : <<a + 1>>[i] = a + i
  OBVIOUS
<1>3. a <= a + 1 /\ a + 1 \in Nat
  OBVIOUS
<1> QED
  BY <1>1, <1>2, <1>3, IsPiece

LEMMA EmptyIsPiece ==
    ASSUME NEW a \in Nat
    PROVE  Piece(a, a) = <<>>
<1> DEFINE s == Piece(a, a)
<1>1. s \in Seq(Nat) /\ Len(s) = 0
  BY PieceIsSeq
<1> HIDE DEF s
<1>2. s = <<>>
  BY <1>1
<1> QED
  BY <1>2 DEF s

LEMMA FlushPlanGood ==
    ASSUME TypeOK, BufferIsTail
    PROVE  GoodPlan(FlushPlan, acc)
<1>1. Base \in Nat /\ acc \in Nat /\ Base <= acc /\ buf = Piece(Base, acc)
  BY BufferIsPiece
<1> QED
  BY <1>1 DEF GoodPlan, FlushPlan, Plan

LEMMA WriteCharPlanGood ==
    ASSUME TypeOK, BufferIsTail
    PROVE  GoodPlan(WriteCharPlan, acc + 1)
<1>1. Base \in Nat /\ acc \in Nat /\ Base <= acc /\ buf = Piece(Base, acc)
  BY BufferIsPiece
<1>2. <<acc + 1>> = Piece(acc, acc + 1) /\ <<>> = Piece(Base, Base)
  BY <1>1, NewlineIsPiece, EmptyIsPiece
<1>3. CASE Len(buf) = cap
  <2>1. WriteCharPlan.emit = Piece(Base, acc) /\ WriteCharPlan.keep = Piece(acc, acc + 1)
    BY <1>1, <1>2, <1>3 DEF WriteCharPlan, Plan
  <2> QED
    BY <1>1, <2>1 DEF GoodPlan
<1>4. CASE Len(buf) # cap
  <2>1. Append(buf, acc + 1) = buf \o <<acc + 1>>
    BY DEF TypeOK
  <2>2. Append(buf, acc + 1) = Piece(Base, acc + 1)
    <3>1. acc + 1 \in Nat /\ acc <= acc + 1
      BY <1>1
    <3>2. Piece(Base, acc) \o Piece(acc, acc + 1) = Piece(Base, acc + 1)
      BY <1>1, <3>1, JoinPieces
    <3> QED
      BY <1>1, <1>2, <2>1, <3>2
  <2>3. WriteCharPlan.emit = Piece(Base, Base) /\ WriteCharPlan.keep = Piece(Base, acc + 1)
    BY <1>2, <1>4, <2>2 DEF WriteCharPlan, Plan
  <2> QED
    BY <1>1, <2>3 DEF GoodPlan
<1> QED
  BY <1>3, <1>4

LEMMA WritePlanGood ==
    ASSUME TypeOK, BufferIsTail, st # "overrun", NEW n \in Nat
    PROVE  GoodPlan(WritePlan(n), acc + n)
<1> DEFINE data == Fresh(n)
           e == acc + n
<1>1. /\ Base \in Nat /\ acc \in Nat /\ Base <= acc /\ buf = Piece(Base, acc)
      /\ e \in Nat /\ acc <= e /\ e = acc + n /\ Base <= e
  BY BufferIsPiece
<1>2. data = Piece(acc, e) /\ <<>> = Piece(Base, Base) /\ <<>> = Piece(e, e)
  BY <1>1, FreshIsPiece, EmptyIsPiece
<1>3. buf \o data = Piece(Base, e)
  <2> HIDE DEF data, e
  <2>1. Piece(Base, acc) \o Piece(acc, e) = Piece(Base, e)
    BY <1>1, JoinPieces
  <2> QED
    BY <1>1, <1>2, <2>1
<1>4. Available \in Nat /\ cap \in Nat
  BY CapsAssumption DEF TypeOK, Available
<1>5. CASE n <= Available
  <2>1. WritePlan(n) = Plan(<<>>, buf \o data)
    BY <1>4, <1>5 DEF WritePlan
  <2> HIDE DEF data, e
  <2>2. WritePlan(n).emit = Piece(Base, Base) /\ WritePlan(n).keep = Piece(Base, e)
    BY <1>2, <1>3, <2>1 DEF Plan
  <2> QED
    <3>1. GoodPlan(WritePlan(n), e)
      BY <1>1, <2>2 DEF GoodPlan
    <3> QED
      BY <3>1 DEF e
<1>6. CASE n > Available /\ n > cap
  <2>1. WritePlan(n) = Plan(buf \o data, <<>>)
    BY <1>4, <1>6 DEF WritePlan, Through
  <2> HIDE DEF data, e
  <2>2. WritePlan(n).emit = Piece(Base, e) /\ WritePlan(n).keep = Piece(e, e)
    BY <1>2, <1>3, <2>1 DEF Plan
  <2> QED
    <3>1. GoodPlan(WritePlan(n), e)
      BY <1>1, <2>2 DEF GoodPlan
    <3> QED
      BY <3>1 DEF e
<1>7. CASE n > Available /\ ~(n > cap)
  <2> DEFINE m == acc + Available
  <2>1. WritePlan(n) = Plan(buf \o First(data, Available), Rest(data, Available))
    BY <1>4, <1>7 DEF WritePlan, Spill
  <2>2. m \in Nat /\ acc <= m /\ m <= e /\ Base <= m
    BY <1>1, <1>4, <1>7
  <2>3. First(data, Available) = Piece(acc, m) /\ Rest(data, Available) = Piece(m, e)
    <3> HIDE DEF e, data
    <3> QED
      BY <1>1, <1>2, <1>4, <2>2, SplitPiece
  <2> HIDE DEF data, e, m
  <2>4. Piece(Base, acc) \o Piece(acc, m) = Piece(Base, m)
    BY <1>1, <2>2, JoinPieces
  <2>5. WritePlan(n).emit = Piece(Base, m) /\ WritePlan(n).keep = Piece(m, e)
    BY <1>1, <2>1, <2>3, <2>4 DEF Plan
  <2> QED
    <3>1. GoodPlan(WritePlan(n), e)
      BY <1>1, <2>2, <2>5 DEF GoodPlan
    <3> QED
      BY <3>1 DEF e
<1> QED
  BY <1>4, <1>5, <1>6, <1>7

LEMMA WriteLinePlanGood ==
    ASSUME TypeOK, BufferIsTail, st # "overrun", NEW n \in Nat
    PROVE  GoodPlan(WriteLinePlan(n), acc + n + 1)
<1> DEFINE data == Fresh(n)
           newline == <<acc + n + 1>>
           e == acc + n
           end == acc + n + 1
<1>1. /\ Base \in Nat /\ acc \in Nat /\ Base <= acc /\ buf = Piece(Base, acc)
      /\ e \in Nat /\ acc <= e /\ end \in Nat /\ end = e + 1 /\ Base <= e /\ e <= end
      /\ Base <= end
  BY BufferIsPiece
<1>2. data = Piece(acc, e) /\ <<>> = Piece(Base, Base)
  BY <1>1, FreshIsPiece, EmptyIsPiece
<1>3. newline = Piece(e, end)
  BY <1>1, NewlineIsPiece
<1>4. buf \o data = Piece(Base, e)
  <2> HIDE DEF data, e
  <2>1. Piece(Base, acc) \o Piece(acc, e) = Piece(Base, e)
    BY <1>1, JoinPieces
  <2> QED
    BY <1>1, <1>2, <2>1
<1>5. Available \in Nat /\ cap \in Nat
  BY CapsAssumption DEF TypeOK, Available
<1>6. CASE n < Available
  <2>1. WriteLinePlan(n) = Plan(<<>>, (buf \o data) \o newline)
    BY <1>5, <1>6 DEF WriteLinePlan
  <2> HIDE DEF data, newline, e, end
  <2>2. Piece(Base, e) \o Piece(e, end) = Piece(Base, end)
    BY <1>1, JoinPieces
  <2>3. WriteLinePlan(n).emit = Piece(Base, Base) /\ WriteLinePlan(n).keep = Piece(Base, end)
    BY <1>2, <1>3, <1>4, <2>1, <2>2 DEF Plan
  <2> QED
    <3>1. GoodPlan(WriteLinePlan(n), end)
      BY <1>1, <2>3 DEF GoodPlan
    <3> QED
      BY <3>1 DEF end
<1>7. CASE n = Available \/ (n > Available /\ n > cap)
  <2>1. WriteLinePlan(n) = Plan(buf \o data, newline)
    BY <1>5, <1>7 DEF WriteLinePlan
  <2> HIDE DEF data, newline, e, end
  <2>2. WriteLinePlan(n).emit = Piece(Base, e) /\ WriteLinePlan(n).keep = Piece(e, end)
    BY <1>3, <1>4, <2>1 DEF Plan
  <2> QED
    <3>1. GoodPlan(WriteLinePlan(n), end)
      BY <1>1, <2>2 DEF GoodPlan
    <3> QED
      BY <3>1 DEF end
<1>8. CASE n > Available /\ ~(n > cap)
  <2> DEFINE m == acc + Available
  <2>1. WriteLinePlan(n) =
           Plan(buf \o First(data, Available), Rest(data, Available) \o newline)
    BY <1>5, <1>8 DEF WriteLinePlan
  <2>2. m \in Nat /\ acc <= m /\ m <= e /\ Base <= m /\ m <= end
    BY <1>1, <1>5, <1>8
  <2>3. First(data, Available) = Piece(acc, m) /\ Rest(data, Available) = Piece(m, e)
    <3> HIDE DEF e, data
    <3> QED
      BY <1>1, <1>2, <1>5, <2>2, SplitPiece
  <2> HIDE DEF data, newline, e, end, m
  <2>4. /\ Piece(Base, acc) \o Piece(acc, m) = Piece(Base, m)
        /\ Piece(m, e) \o Piece(e, end) = Piece(m, end)
    BY <1>1, <2>2, JoinPieces
  <2>5. WriteLinePlan(n).emit = Piece(Base, m) /\ WriteLinePlan(n).keep = Piece(m, end)
    BY <1>1, <1>3, <2>1, <2>3, <2>4, SMTT(20) DEF Plan
  <2> QED
    <3>1. GoodPlan(WriteLinePlan(n), end)
      BY <1>1, <2>2, <2>5 DEF GoodPlan
    <3> QED
      BY <3>1 DEF end
<1> QED
  BY <1>5, <1>6, <1>7, <1>8

-----------------------------------------------------------------------------
(* The steps: types and the place of the buffer in the stream.             *)

LEMMA PlanTyped ==
    ASSUME TypeOK, BufferIsTail, NEW plan, NEW end \in Nat, GoodPlan(plan, end)
    PROVE  plan.emit \in Seq(Nat) /\ plan.keep \in Seq(Nat)
<1>1. Base \in Nat
  BY BufferIsPiece
<1>2. PICK e \in Nat, k \in Nat :
         /\ Base <= k /\ k <= e /\ e <= end /\ Base <= e /\ k <= end
         /\ plan.emit = Piece(Base, e) /\ plan.keep = Piece(k, end)
  BY <1>1 DEF GoodPlan
<1> QED
  BY <1>1, <1>2, PieceIsSeq, Zenon

LEMMA WrittenTyped ==
    ASSUME out \in Seq(Nat), NEW bytes \in Seq(Nat), Written(bytes)
    PROVE  out' \in Seq(Nat)
<1>1. CASE MayBeShort /\ bytes # <<>>
  <2>1. PICK k \in 1..Len(bytes) : out' = out \o First(bytes, k)
    BY <1>1 DEF Written
  <2> DEFINE piece == First(bytes, k)
  <2>2. piece \in Seq(Nat)
    BY DEF First
  <2>3. out' = out \o piece
    BY <2>1
  <2> HIDE DEF piece
  <2>4. out \o piece \in Seq(Nat)
    BY <2>2
  <2> QED
    BY <2>3, <2>4
<1>2. CASE ~(MayBeShort /\ bytes # <<>>)
  <2>1. out' = out \o bytes
    BY <1>2 DEF Written
  <2>2. out \o bytes \in Seq(Nat)
    OBVIOUS
  <2> QED
    BY <2>1, <2>2
<1> QED
  BY <1>1, <1>2

LEMMA AcceptKeepsTail ==
    ASSUME TypeOK, BufferIsTail, NEW plan, NEW n \in Nat, GoodPlan(plan, acc + n),
           Accept(plan, n)
    PROVE  TypeOK' /\ BufferIsTail'
<1>1. acc \in Nat /\ acc + n \in Nat /\ cap \in Nat
  BY CapsAssumption DEF TypeOK
<1>2. /\ Written(plan.emit) /\ buf' = plan.keep /\ acc' = acc + n
      /\ st' = (IF Len(plan.keep) > cap THEN "overrun" ELSE st)
      /\ cap' = cap /\ gone' = gone
  BY DEF Accept, Succeeds
<1>3. plan.emit \in Seq(Nat) /\ plan.keep \in Seq(Nat)
  BY <1>1, PlanTyped
<1>4. TypeOK'
  <2>1. out' \in Seq(Nat)
    BY <1>2, <1>3, WrittenTyped DEF TypeOK
  <2>2. Len(plan.keep) \in Nat
    BY <1>3
  <2> QED
    BY <1>1, <1>2, <1>3, <2>1, <2>2 DEF TypeOK, States
<1>5. BufferIsTail'
  <2>1. PICK k \in Nat : k <= acc + n /\ plan.keep = Piece(k, acc + n)
    BY <1>1, BufferIsPiece DEF GoodPlan
  <2> DEFINE end == acc + n
             kept == Piece(k, end)
  <2>a. end \in Nat /\ k <= end
    BY <1>1, <2>1
  <2>b. buf' = kept /\ acc' = end
    BY <1>2, <2>1
  <2> HIDE DEF end
  <2>c. /\ Len(kept) = end - k /\ DOMAIN kept = 1..(end - k)
        /\ \A i \in 1..(end - k) : kept[i] = k + i
    BY <2>a, PieceIsSeq
  <2> HIDE DEF kept
  <2>2. /\ Len(buf') = acc' - k /\ DOMAIN buf' = 1..(acc' - k)
        /\ \A i \in 1..(acc' - k) : buf'[i] = k + i
    BY <2>b, <2>c
  <2>3. acc' - Len(buf') = k /\ Len(buf') <= acc'
    BY <2>a, <2>b, <2>2
  <2> QED
    BY <2>2, <2>3 DEF BufferIsTail
<1> QED
  BY <1>4, <1>5

(* Every call that accepts bytes follows a good plan.                      *)
LEMMA AcceptingStep ==
    ASSUME TypeOK, BufferIsTail,
           NEW n \in 0..MaxWrite, BwWrite(n) \/ BwWriteLine(n) \/ BwWriteChar \/ BwFlush
    PROVE  \E plan : \E m \in Nat : GoodPlan(plan, acc + m) /\ Accept(plan, m)
<1>1. acc \in Nat /\ n \in Nat /\ acc + 0 = acc /\ acc + (n + 1) = acc + n + 1
      /\ n + 1 \in Nat
  BY MaxWriteAssumption DEF TypeOK
<1>2. CASE BwWrite(n)
  BY <1>1, <1>2, WritePlanGood DEF BwWrite, Accept
<1>3. CASE BwWriteLine(n)
  <2>1. GoodPlan(WriteLinePlan(n), acc + (n + 1)) /\ Accept(WriteLinePlan(n), n + 1)
    BY <1>1, <1>3, WriteLinePlanGood DEF BwWriteLine, Accept
  <2> QED
    BY <1>1, <2>1
<1>4. CASE BwWriteChar
  BY <1>4, WriteCharPlanGood DEF BwWriteChar
<1>5. CASE BwFlush
  BY <1>1, <1>5, FlushPlanGood DEF BwFlush
<1> QED
  BY <1>2, <1>3, <1>4, <1>5

LEMMA OtherStepKeepsTail ==
    ASSUME TypeOK, BufferIsTail,
           \/ BwDrop \/ BwClose \/ BwReplaceFile
           \/ \E c \in Caps : BwReplaceBuf(c)
           \/ UNCHANGED vars
    PROVE  TypeOK' /\ BufferIsTail'
<1>1. buf \in Seq(Nat) /\ out \in Seq(Nat) /\ acc \in Nat /\ Len(buf) \in Nat
      /\ cap \in Nat /\ \A i \in DOMAIN buf : buf[i] \in Nat
  BY CapsAssumption DEF TypeOK
<1>2. Written(buf) => out' \in Seq(Nat)
  BY <1>1, WrittenTyped
<1>3. buf' = <<>> => buf' \in Seq(Nat) /\ Len(buf') = 0 /\ DOMAIN buf' = {}
  OBVIOUS
<1>4. CASE BwDrop
  BY <1>1, <1>2, <1>3, <1>4 DEF BwDrop, LastFlush, TypeOK, BufferIsTail, States
<1>5. CASE BwClose
  BY <1>1, <1>2, <1>5 DEF BwClose, LastFlush, TypeOK, BufferIsTail, States
<1>9. ASSUME Discard PROVE gone' \subseteq Nat /\ buf' = <<>>
  BY <1>1, <1>9 DEF Discard, TypeOK
<1>6. CASE BwReplaceFile
  <2>1. /\ gone' \subseteq Nat /\ buf' = <<>> /\ st' = "open"
        /\ cap' = cap /\ acc' = acc /\ out' = out
    BY <1>6, <1>9 DEF BwReplaceFile
  <2> QED
    BY <1>1, <1>3, <2>1 DEF TypeOK, BufferIsTail, States
<1>7. ASSUME NEW c \in Caps, BwReplaceBuf(c) PROVE TypeOK' /\ BufferIsTail'
  <2>1. c \in Nat
    BY CapsAssumption
  <2>2. /\ gone' \subseteq Nat /\ buf' = <<>> /\ st' = st
        /\ cap' = c /\ acc' = acc /\ out' = out
    BY <1>7, <1>9 DEF BwReplaceBuf
  <2> QED
    BY <1>1, <1>3, <2>1, <2>2 DEF TypeOK, BufferIsTail, States
<1>8. CASE UNCHANGED vars
  BY <1>8 DEF vars, TypeOK, BufferIsTail
<1> QED
  BY <1>4, <1>5, <1>6, <1>7, <1>8

-----------------------------------------------------------------------------
(* The types, and the buffer as the tail of the stream.                    *)
THEOREM TailCorrect == Spec => [](TypeOK /\ BufferIsTail)
<1>1. Init => TypeOK /\ BufferIsTail
  BY CapsAssumption DEF Init, TypeOK, BufferIsTail, States
<1>2. TypeOK /\ BufferIsTail /\ [Next]_vars => TypeOK' /\ BufferIsTail'
  <2> SUFFICES ASSUME TypeOK, BufferIsTail, [Next]_vars PROVE TypeOK' /\ BufferIsTail'
    OBVIOUS
  <2>1. ASSUME NEW n \in 0..MaxWrite,
               BwWrite(n) \/ BwWriteLine(n) \/ BwWriteChar \/ BwFlush
        PROVE  TypeOK' /\ BufferIsTail'
    BY <2>1, AcceptingStep, AcceptKeepsTail
  <2>2. 0 \in 0..MaxWrite
    BY MaxWriteAssumption
  <2> QED
    BY <2>1, <2>2, OtherStepKeepsTail DEF Next, Fails
<1> QED
  BY <1>1, <1>2, PTL DEF Spec

THEOREM TypeCorrect == Spec => []TypeOK
BY TailCorrect, PTL
-----------------------------------------------------------------------------
(* Nothing is lost as long as write(2) writes all of what it is given.     *)

LEMMA LaterInFile ==
    ASSUME out \in Seq(Nat), NEW bytes \in Seq(Nat), out' = out \o bytes
    PROVE  /\ \A b : InFile(b) => InFile(b)'
           /\ \A i \in 1..Len(bytes) : \E j \in DOMAIN out' : out'[j] = bytes[i]
<1> DEFINE longer == out \o bytes
<1>1. Len(out) \in Nat /\ Len(bytes) \in Nat
  OBVIOUS
<1>2. /\ longer \in Seq(Nat) /\ Len(longer) = Len(out) + Len(bytes)
      /\ \A i \in 1..Len(longer) :
           longer[i] = IF i <= Len(out) THEN out[i] ELSE bytes[i - Len(out)]
  BY ConcatElements
<1>3. out' = longer
  OBVIOUS
<1> HIDE DEF longer
<1>4. DOMAIN out = 1..Len(out) /\ DOMAIN longer = 1..Len(longer)
  BY <1>2
<1>5. ASSUME NEW b, InFile(b) PROVE InFile(b)'
  <2>1. PICK i \in 1..Len(out) : out[i] = b
    BY <1>4, <1>5 DEF InFile
  <2>2. i \in 1..Len(longer) /\ longer[i] = b
    BY <1>1, <1>2, <2>1
  <2> QED
    BY <1>3, <1>4, <2>2 DEF InFile
<1>6. ASSUME NEW i \in 1..Len(bytes)
      PROVE  \E j \in DOMAIN out' : out'[j] = bytes[i]
  <2> DEFINE j == Len(out) + i
  <2>1. j \in 1..Len(longer) /\ ~(j <= Len(out)) /\ j - Len(out) = i
    BY <1>1, <1>2, SMTT(20)
  <2> HIDE DEF j
  <2>2. longer[j] = bytes[i]
    BY <1>2, <2>1
  <2> QED
    BY <1>3, <1>4, <2>1, <2>2
<1> QED
  BY <1>5, <1>6

LEMMA AcceptLosesNothing ==
    ASSUME MayBeShort = FALSE, TypeOK, BufferIsTail, NothingLost,
           NEW plan, NEW n \in Nat, GoodPlan(plan, acc + n), Accept(plan, n)
    PROVE  NothingLost'
<1> DEFINE end == acc + n
<1>1. /\ acc \in Nat /\ end \in Nat /\ Base \in Nat /\ Base <= acc
      /\ Len(buf) = acc - Base /\ buf = Piece(Base, acc)
  BY BufferIsPiece
<1>2. /\ out' = out \o plan.emit /\ buf' = plan.keep /\ acc' = end /\ gone' = gone
  BY DEF Accept, Succeeds, Written
<1> HIDE DEF end
<1>3. PICK e \in Nat, k \in Nat :
         /\ Base <= k /\ k <= e /\ e <= end
         /\ plan.emit = Piece(Base, e) /\ plan.keep = Piece(k, end)
  BY DEF GoodPlan, end
<1>4. Base <= e /\ k <= end
  BY <1>1, <1>3
<1> DEFINE emit == Piece(Base, e)
           keep == Piece(k, end)
<1>5. /\ emit \in Seq(Nat) /\ Len(emit) = e - Base
      /\ \A i \in 1..(e - Base) : emit[i] = Base + i
      /\ DOMAIN keep = 1..(end - k) /\ \A i \in 1..(end - k) : keep[i] = k + i
  BY <1>1, <1>3, <1>4, PieceIsSeq
<1>6. out' = out \o emit /\ buf' = keep
  BY <1>2, <1>3
<1> HIDE DEF emit, keep
<1>7. /\ \A b : InFile(b) => InFile(b)'
      /\ \A i \in 1..Len(emit) : \E j \in DOMAIN out' : out'[j] = emit[i]
  BY <1>5, <1>6, LaterInFile DEF TypeOK
<1> SUFFICES ASSUME NEW b \in 1..end
             PROVE  InFile(b)' \/ InBuffer(b)' \/ b \in gone'
  BY <1>2 DEF NothingLost
<1>8. CASE b <= Base
  <2> DEFINE tail == Piece(Base, acc)
  <2>a. DOMAIN tail = 1..(acc - Base) /\ \A i \in 1..(acc - Base) : tail[i] = Base + i
    BY <1>1, PieceIsSeq
  <2>b. buf = tail
    BY <1>1
  <2> HIDE DEF tail
  <2>1. b \in 1..acc /\ DOMAIN buf = 1..(acc - Base)
        /\ \A i \in 1..(acc - Base) : buf[i] = Base + i
    BY <1>1, <1>8, <2>a, <2>b
  <2>2. ~InBuffer(b)
    BY <1>1, <1>8, <2>1 DEF InBuffer
  <2>3. InFile(b) \/ b \in gone
    BY <2>1, <2>2 DEF NothingLost
  <2> QED
    BY <1>2, <1>7, <2>3
<1>9. CASE Base < b /\ b <= e
  <2>1. b - Base \in 1..Len(emit) /\ emit[b - Base] = b
    BY <1>1, <1>5, <1>9
  <2> QED
    BY <1>7, <2>1 DEF InFile
<1>10. CASE b > e
  <2>1. b - k \in DOMAIN keep /\ keep[b - k] = b
    BY <1>1, <1>3, <1>5, <1>10
  <2> QED
    BY <1>6, <2>1 DEF InBuffer
<1> QED
  BY <1>1, <1>8, <1>9, <1>10

(* What a flush on the way to an end leaves: every byte is in the file.    *)
LEMMA LastFlushSavesAll ==
    ASSUME MayBeShort = FALSE, TypeOK, NothingLost, LastFlush
    PROVE  /\ \A b \in 1..acc : (\E i \in DOMAIN out' : out'[i] = b) \/ b \in gone
           /\ \A b : InFile(b) => InFile(b)'
<1>1. out \in Seq(Nat) /\ buf \in Seq(Nat) /\ out' = out \o buf
  BY DEF TypeOK, LastFlush, Written
<1>2. /\ \A b : InFile(b) => InFile(b)'
      /\ \A i \in 1..Len(buf) : \E j \in DOMAIN out' : out'[j] = buf[i]
  BY <1>1, LaterInFile
<1>3. DOMAIN buf = 1..Len(buf)
  BY <1>1
<1>4. ASSUME NEW b \in 1..acc
      PROVE  (\E i \in DOMAIN out' : out'[i] = b) \/ b \in gone
  BY <1>2, <1>3, <1>4 DEF NothingLost, InFile, InBuffer
<1> QED
  BY <1>2, <1>4

LEMMA DiscardLosesNothing ==
    ASSUME NothingLost, Discard, UNCHANGED <<acc, out>>
    PROVE  NothingLost'
BY DEF NothingLost, Discard, InFile, InBuffer

(* A byte that some call accepted is in the file, in the buffer or         *)
(* discarded by the caller, in every behaviour without short writes.       *)
THEOREM NothingIsLost ==
    ASSUME MayBeShort = FALSE
    PROVE  Spec => []NothingLost
<1>1. Init => NothingLost
  BY DEF Init, NothingLost
<1>2. TypeOK /\ BufferIsTail /\ NothingLost /\ [Next]_vars => NothingLost'
  <2> SUFFICES ASSUME TypeOK, BufferIsTail, NothingLost, [Next]_vars PROVE NothingLost'
    OBVIOUS
  <2>1. ASSUME NEW n \in 0..MaxWrite,
               BwWrite(n) \/ BwWriteLine(n) \/ BwWriteChar \/ BwFlush
        PROVE  NothingLost'
    BY <2>1, AcceptingStep, AcceptLosesNothing
  <2>2. CASE BwDrop
    BY <2>2, LastFlushSavesAll DEF BwDrop, NothingLost, InFile
  <2>3. CASE BwClose
    BY <2>3, LastFlushSavesAll DEF BwClose, NothingLost, InFile
  <2>4. CASE BwReplaceFile \/ \E c \in Caps : BwReplaceBuf(c)
    BY <2>4, DiscardLosesNothing DEF BwReplaceFile, BwReplaceBuf
  <2>5. CASE UNCHANGED vars
    BY <2>5 DEF vars, NothingLost, InFile, InBuffer
  <2>6. 0 \in 0..MaxWrite
    BY MaxWriteAssumption
  <2> QED
    BY <2>1, <2>2, <2>3, <2>4, <2>5, <2>6 DEF Next, Fails
<1> QED
  BY <1>1, <1>2, TailCorrect, PTL DEF Spec

(* A writer is closed or dropped only when all that it accepted and the    *)
(* caller did not discard is in the file.                                  *)
THEOREM EndsAreFlushed ==
    ASSUME MayBeShort = FALSE
    PROVE  Spec => EndsFlushed
<1> DEFINE Flushed ==
        st' \in {"closed", "dropped"} /\ st' # st =>
            \A b \in 1..acc : (\E i \in DOMAIN out' : out'[i] = b) \/ b \in gone
<1>1. TypeOK /\ NothingLost /\ [Next]_vars => Flushed \/ UNCHANGED vars
  <2> SUFFICES ASSUME TypeOK, NothingLost, [Next]_vars,
                      st' \in {"closed", "dropped"}, st' # st
               PROVE  Flushed
    BY DEF vars
  <2>1. LastFlush
    BY DEF Next, BwWrite, BwWriteLine, BwWriteChar, BwFlush, Accept, BwDrop, BwClose,
           BwReplaceBuf, BwReplaceFile, Fails, vars
  <2> QED
    BY <2>1, LastFlushSavesAll
<1>2. Spec => [][Flushed]_vars
  BY <1>1, TailCorrect, NothingIsLost, PTL DEF Spec
<1> QED
  BY <1>2 DEF EndsFlushed

-----------------------------------------------------------------------------
(* How much a call keeps.                                                  *)

LEMMA FreshIsSeq ==
    ASSUME TypeOK, NEW n \in Nat
    PROVE  Fresh(n) \in Seq(Nat) /\ Len(Fresh(n)) = n
<1>1. acc \in Nat /\ Fresh(n) \in [1..n -> Nat]
  BY DEF TypeOK, Fresh
<1> QED
  BY <1>1, SeqOfFunction

LEMMA RestLength ==
    ASSUME NEW s \in Seq(Nat), NEW k \in Nat, k <= Len(s)
    PROVE  Rest(s, k) \in Seq(Nat) /\ Len(Rest(s, k)) = Len(s) - k
BY DEF Rest

LEMMA PlanKeeps ==
    ASSUME NEW emit, NEW keep
    PROVE  Plan(emit, keep).keep = keep
BY DEF Plan

(* What is left of a write fits; what is left of a line does too, but for  *)
(* the newline of one as long as the capacity that finds the buffer full.  *)
LEMMA KeptLength ==
    ASSUME TypeOK, Len(buf) <= cap, NEW n \in Nat
    PROVE  /\ Len(WritePlan(n).keep) <= cap
           /\ \/ Len(WriteLinePlan(n).keep) <= cap
              \/ Len(buf) = cap /\ n = cap /\ Len(WriteLinePlan(n).keep) = cap + 1
<1> DEFINE data == Fresh(n)
           newline == <<acc + n + 1>>
           rest == Rest(data, Available)
<1>1. Available \in Nat /\ cap \in Nat /\ cap # 0
  BY CapsAssumption DEF TypeOK, Available
<1>2. /\ data \in Seq(Nat) /\ Len(data) = n
      /\ buf \in Seq(Nat) /\ Len(buf) \in Nat /\ Available = cap - Len(buf)
  BY FreshIsSeq DEF TypeOK, Available
<1>3. newline \in Seq(Nat) /\ Len(newline) = 1
  BY DEF TypeOK
<1>4. CASE n < Available
  <2>1. /\ WritePlan(n) = Plan(<<>>, buf \o data)
        /\ WriteLinePlan(n) = Plan(<<>>, (buf \o data) \o newline)
    BY <1>1, <1>4 DEF WritePlan, WriteLinePlan
  <2> HIDE DEF data, newline
  <2>2. WritePlan(n).keep = buf \o data /\ WriteLinePlan(n).keep = (buf \o data) \o newline
    BY <2>1, PlanKeeps
  <2>3. buf \o data \in Seq(Nat) /\ Len(buf \o data) = Len(buf) + n
    BY <1>2, ConcatElements
  <2>4. Len((buf \o data) \o newline) = Len(buf) + n + 1
    BY <1>3, <2>3, ConcatElements
  <2>5. Len(buf) + n + 1 <= cap /\ Len(buf) + n <= cap
    BY <1>1, <1>2, <1>4
  <2> QED
    BY <2>2, <2>3, <2>4, <2>5
<1>5. CASE n = Available
  <2>1. /\ WritePlan(n) = Plan(<<>>, buf \o data)
        /\ WriteLinePlan(n) = Plan(buf \o data, newline)
    BY <1>1, <1>5 DEF WritePlan, WriteLinePlan
  <2> HIDE DEF data, newline
  <2>2. WritePlan(n).keep = buf \o data /\ WriteLinePlan(n).keep = newline
    BY <2>1, PlanKeeps
  <2>3. Len(buf \o data) = Len(buf) + n
    BY <1>2, ConcatElements
  <2>4. 1 <= cap /\ Len(buf) + n <= cap
    BY <1>1, <1>2, <1>5
  <2> QED
    BY <1>3, <2>2, <2>3, <2>4
<1>6. CASE n > Available /\ n > cap
  <2>1. /\ WritePlan(n) = Plan(buf \o data, <<>>)
        /\ WriteLinePlan(n) = Plan(buf \o data, newline)
    BY <1>1, <1>6 DEF WritePlan, WriteLinePlan, Through
  <2> HIDE DEF data, newline
  <2>2. WritePlan(n).keep = <<>> /\ WriteLinePlan(n).keep = newline
    BY <2>1, PlanKeeps
  <2>3. Len(<<>>) <= cap /\ 1 <= cap
    BY <1>1
  <2> QED
    BY <1>3, <2>2, <2>3
<1>7. CASE n > Available /\ ~(n > cap)
  <2>1. /\ WritePlan(n) = Plan(buf \o First(data, Available), rest)
        /\ WriteLinePlan(n) = Plan(buf \o First(data, Available), rest \o newline)
    BY <1>1, <1>7 DEF WritePlan, WriteLinePlan, Spill
  <2> HIDE DEF data, newline
  <2>2. Available <= Len(data)
    BY <1>1, <1>2, <1>7
  <2>3. rest \in Seq(Nat) /\ Len(rest) = Len(data) - Available
    BY <1>1, <1>2, <2>2, RestLength
  <2> HIDE DEF rest
  <2>4. WritePlan(n).keep = rest /\ WriteLinePlan(n).keep = rest \o newline
    BY <2>1, PlanKeeps
  <2>5. Len(rest \o newline) = Len(rest) + 1
    BY <1>3, <2>3, ConcatElements
  <2>6. /\ Len(rest) \in Nat /\ Len(rest) <= cap
        /\ \/ Len(rest) + 1 <= cap
           \/ (Len(rest) = cap /\ n = cap /\ Len(buf) = cap)
    <3>1. Len(rest) = n - (cap - Len(buf))
      BY <1>2, <2>3
    <3>2. cap - Len(buf) <= n /\ n <= cap
      BY <1>1, <1>2, <1>7
    <3> QED
      BY <1>1, <1>2, <3>1, <3>2, SMTT(20)
  <2> QED
    BY <2>4, <2>5, <2>6
<1> QED
  BY <1>1, <1>4, <1>5, <1>6, <1>7

LEMMA CharKeptLength ==
    ASSUME TypeOK, Len(buf) <= cap
    PROVE  Len(WriteCharPlan.keep) <= cap /\ Len(FlushPlan.keep) <= cap
<1>1. /\ buf \in Seq(Nat) /\ Len(buf) \in Nat /\ cap \in Nat /\ cap # 0
      /\ acc + 1 \in Nat
  BY CapsAssumption DEF TypeOK
<1>2. Len(<<acc + 1>>) = 1 /\ Len(Append(buf, acc + 1)) = Len(buf) + 1
  BY <1>1
<1> QED
  BY <1>1, <1>2 DEF WriteCharPlan, FlushPlan, Plan

(* Nothing but the newline of a line as long as the capacity, written into *)
(* a full buffer, is ever stored behind the end, and it is stored one byte *)
(* behind it.                                                              *)
THEOREM OverrunCorrect == Spec => OverrunOnlyOfFull
<1> DEFINE Only ==
        st' = "overrun" /\ st # "overrun" =>
             /\ Len(buf) = cap /\ Len(buf') = cap + 1
             /\ acc' = acc + cap + 1
<1>1. TypeOK /\ [Next]_vars => Only \/ UNCHANGED vars
  <2> SUFFICES ASSUME TypeOK, [Next]_vars, st' = "overrun", st # "overrun"
               PROVE  Only
    BY DEF vars
  <2>1. Len(buf) <= cap /\ cap \in Nat /\ acc \in Nat
    BY CapsAssumption DEF TypeOK
  <2>2. ASSUME NEW plan, NEW n, Accept(plan, n)
        PROVE  /\ buf' = plan.keep /\ acc' = acc + n
               /\ ~(Len(plan.keep) <= cap)
    BY <2>1, <2>2 DEF Accept, Succeeds
  <2>3. ASSUME NEW n \in 0..MaxWrite, BwWrite(n) PROVE Only
    BY <2>1, <2>2, <2>3, KeptLength DEF BwWrite
  <2>4. ASSUME NEW n \in 0..MaxWrite, BwWriteLine(n) PROVE Only
    <3>1. n \in Nat /\ Accept(WriteLinePlan(n), n + 1)
      BY <2>4, MaxWriteAssumption DEF BwWriteLine
    <3>2. /\ buf' = WriteLinePlan(n).keep /\ acc' = acc + (n + 1)
          /\ ~(Len(WriteLinePlan(n).keep) <= cap)
      BY <2>2, <3>1
    <3>3. Len(buf) = cap /\ n = cap /\ Len(WriteLinePlan(n).keep) = cap + 1
      BY <2>1, <3>1, <3>2, KeptLength
    <3> QED
      BY <2>1, <3>2, <3>3
  <2>5. CASE BwWriteChar \/ BwFlush
    BY <2>1, <2>2, <2>5, CharKeptLength DEF BwWriteChar, BwFlush
  <2>6. CASE UNCHANGED vars
    BY <2>6 DEF vars
  <2> QED
    BY <2>3, <2>4, <2>5, <2>6
       DEF Next, BwDrop, BwClose, BwReplaceBuf, BwReplaceFile, Fails
<1>2. Spec => [][Only]_vars
  BY <1>1, TypeCorrect, PTL DEF Spec
<1> QED
  BY <1>2 DEF OverrunOnlyOfFull
-----------------------------------------------------------------------------
(* Nothing overtakes: what a call sends starts where the buffer starts,    *)
(* and all that lies before is in the file already.                        *)

LEMMA BelowBase ==
    ASSUME TypeOK, BufferIsTail, NothingLost, NEW b \in Nat, 1 <= b, b <= Base
    PROVE  InFile(b) \/ b \in gone
<1>1. /\ acc \in Nat /\ Base \in Nat /\ Base <= acc /\ Len(buf) = acc - Base
      /\ DOMAIN buf = 1..Len(buf)
  BY BufferIsPiece DEF TypeOK
<1>2. \A i \in DOMAIN buf : buf[i] = Base + i
  BY <1>1 DEF BufferIsTail, Base
<1>3. ~InBuffer(b)
  BY <1>1, <1>2 DEF InBuffer
<1>4. b \in 1..acc
  BY <1>1
<1> QED
  BY <1>3, <1>4 DEF NothingLost

(* A piece from Base on keeps the file in order.                           *)
LEMMA PieceKeepsOrder ==
    ASSUME TypeOK, BufferIsTail, NothingLost, InOrder,
           NEW e \in Nat, Base <= e, out' = out \o Piece(Base, e), gone' = gone
    PROVE  InOrder'
<1> DEFINE emit == Piece(Base, e)
           longer == out \o emit
<1>1. out \in Seq(Nat) /\ Len(out) \in Nat /\ DOMAIN out = 1..Len(out) /\ Base \in Nat
  BY BufferIsPiece DEF TypeOK
<1>2. /\ emit \in Seq(Nat) /\ Len(emit) = e - Base
      /\ \A i \in 1..(e - Base) : emit[i] = Base + i
  BY <1>1, PieceIsSeq
<1> HIDE DEF emit
<1>3. /\ longer \in Seq(Nat) /\ Len(longer) = Len(out) + Len(emit)
      /\ \A i \in 1..Len(longer) :
           longer[i] = IF i <= Len(out) THEN out[i] ELSE emit[i - Len(out)]
  BY <1>1, <1>2, ConcatElements
<1>4. out' = longer
  BY DEF emit
<1> HIDE DEF longer
<1>5. DOMAIN longer = 1..Len(longer)
  BY <1>3
<1>6. ASSUME NEW j \in 1..Len(out)
      PROVE  j \in DOMAIN longer /\ longer[j] = out[j]
  BY <1>1, <1>2, <1>3, <1>5, SMTT(20)
<1>7. ASSUME NEW i \in 1..(e - Base)
      PROVE  longer[Len(out) + i] = Base + i
  <2>1. /\ Len(out) + i \in 1..Len(longer) /\ ~(Len(out) + i <= Len(out))
        /\ (Len(out) + i) - Len(out) = i
    BY <1>1, <1>2, <1>3, SMTT(20)
  <2>2. longer[Len(out) + i] = emit[i]
    BY <1>3, <2>1
  <2> QED
    BY <1>2, <2>2
<1> SUFFICES ASSUME NEW i \in DOMAIN longer, NEW b \in 1..longer[i]
             PROVE  b \in gone \/ \E j \in 1..i : longer[j] = b
  BY <1>4 DEF InOrder
<1>8. CASE i <= Len(out)
  <2>1. i \in DOMAIN out /\ b \in 1..out[i]
    BY <1>1, <1>5, <1>6, <1>8
  <2>2. b \in gone \/ \E j \in 1..i : out[j] = b
    BY <2>1 DEF InOrder
  <2>3. \A j \in 1..i : j \in 1..Len(out)
    BY <1>1, <2>1
  <2> QED
    BY <1>6, <2>2, <2>3
<1>9. CASE ~(i <= Len(out))
  <2>1. PICK k \in 1..(e - Base) : i = Len(out) + k
    <3>1. i - Len(out) \in 1..(e - Base) /\ i = Len(out) + (i - Len(out))
      BY <1>1, <1>2, <1>3, <1>5, <1>9, SMTT(20)
    <3> QED
      BY <3>1
  <2>2. b \in Nat /\ 1 <= b /\ b <= Base + k
    BY <1>1, <1>7, <2>1
  <2>3. CASE b <= Base
    <3>1. CASE InFile(b)
      <4>1. PICK j \in 1..Len(out) : out[j] = b
        BY <1>1, <3>1 DEF InFile
      <4>2. j \in 1..i
        BY <1>1, <2>1, <4>1
      <4> QED
        BY <1>6, <4>1, <4>2
    <3> QED
      BY <2>2, <2>3, <3>1, BelowBase
  <2>4. CASE ~(b <= Base)
    <3>1. /\ b - Base \in 1..(e - Base) /\ Base + (b - Base) = b
          /\ Len(out) + (b - Base) \in 1..i
      BY <1>1, <2>1, <2>2, <2>4
    <3>2. longer[Len(out) + (b - Base)] = b
      BY <1>7, <3>1
    <3> QED
      BY <3>1, <3>2
  <2> QED
    BY <2>3, <2>4
<1> QED
  BY <1>8, <1>9

LEMMA AcceptKeepsOrder ==
    ASSUME MayBeShort = FALSE, TypeOK, BufferIsTail, NothingLost, InOrder,
           NEW plan, NEW n \in Nat, GoodPlan(plan, acc + n), Accept(plan, n)
    PROVE  InOrder'
<1>1. out' = out \o plan.emit /\ gone' = gone
  BY DEF Accept, Succeeds, Written
<1>2. PICK e \in Nat : Base <= e /\ plan.emit = Piece(Base, e)
  BY BufferIsPiece DEF GoodPlan
<1> QED
  BY <1>1, <1>2, PieceKeepsOrder

LEMMA LastFlushKeepsOrder ==
    ASSUME MayBeShort = FALSE, TypeOK, BufferIsTail, NothingLost, InOrder,
           LastFlush, gone' = gone
    PROVE  InOrder'
<1>1. out' = out \o buf
  BY DEF LastFlush, Written
<1>2. acc \in Nat /\ Base <= acc /\ buf = Piece(Base, acc)
  BY BufferIsPiece
<1>3. out' = out \o Piece(Base, acc)
  BY <1>1, <1>2
<1> QED
  BY <1>2, <1>3, PieceKeepsOrder

(* The file never gets a byte before an earlier one, in every behaviour    *)
(* without short writes, although a flush sends again what it keeps.       *)
THEOREM OrderCorrect ==
    ASSUME MayBeShort = FALSE
    PROVE  Spec => []InOrder
<1>1. Init => InOrder
  BY DEF Init, InOrder
<1>2. TypeOK /\ BufferIsTail /\ NothingLost /\ InOrder /\ [Next]_vars => InOrder'
  <2> SUFFICES ASSUME TypeOK, BufferIsTail, NothingLost, InOrder, [Next]_vars
               PROVE  InOrder'
    OBVIOUS
  <2>1. ASSUME NEW n \in 0..MaxWrite,
               BwWrite(n) \/ BwWriteLine(n) \/ BwWriteChar \/ BwFlush
        PROVE  InOrder'
    BY <2>1, AcceptingStep, AcceptKeepsOrder
  <2>2. CASE BwDrop \/ BwClose
    BY <2>2, LastFlushKeepsOrder DEF BwDrop, BwClose
  <2>3. CASE BwReplaceFile \/ \E c \in Caps : BwReplaceBuf(c)
    BY <2>3 DEF BwReplaceFile, BwReplaceBuf, Discard, InOrder
  <2>4. CASE UNCHANGED vars
    BY <2>4 DEF vars, InOrder
  <2>5. 0 \in 0..MaxWrite
    BY MaxWriteAssumption
  <2> QED
    BY <2>1, <2>2, <2>3, <2>4, <2>5 DEF Next, Fails
<1> QED
  BY <1>1, <1>2, TailCorrect, NothingIsLost, PTL DEF Spec

=============================================================================
