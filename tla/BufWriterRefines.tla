-------------------------- MODULE BufWriterRefines --------------------------
(***************************************************************************)
(* Proof that BufWriter implements ByteStream, for every capacity and any  *)
(* calls, as long as a write takes all that it is given.                   *)
(***************************************************************************)
EXTENDS BufWriterProofs, MCBufWriter

(* The bytes that have left the writer; 0 stands for none of them.         *)
Elements(s) == {s[i] : i \in DOMAIN s}
Reached == {0} \cup gone \cup Elements(out)

(* h is the last of them, and was accepted.                                *)
IsTop(h) == h \in Reached /\ h <= acc /\ \A x \in Reached : x <= h
Topped == \E h \in Nat : IsTop(h)

LEMMA ElementsOf ==
    ASSUME NEW s, NEW x
    PROVE  x \in Elements(s) <=> \E i \in DOMAIN s : x = s[i]
BY Zenon DEF Elements

LEMMA ReachedOf ==
    ASSUME NEW x
    PROVE  x \in Reached <=> x = 0 \/ x \in gone \/ x \in Elements(out)
BY DEF Reached

LEMMA ReachedType == TypeOK => Reached \subseteq Nat
<1> SUFFICES ASSUME TypeOK, NEW x \in Reached PROVE x \in Nat
  OBVIOUS
<1>1. gone \subseteq Nat /\ out \in Seq(Nat)
  BY DEF TypeOK
<1>2. \A i \in DOMAIN out : out[i] \in Nat
  BY <1>1
<1>3. CASE x \in Elements(out)
  BY <1>2, <1>3, ElementsOf
<1>4. x = 0 \/ x \in gone \/ x \in Elements(out)
  BY ReachedOf, Zenon
<1>5. CASE x \in gone
  BY <1>1, <1>5
<1> QED
  BY <1>3, <1>4, <1>5

(* There is only one top of a set, and High is that of the bytes reached.  *)
LEMMA MaxIsTop ==
    ASSUME NEW S \in SUBSET Nat, NEW h \in S, \A x \in S : x <= h
    PROVE  Max(S) = h
<1>1. \A x \in S : h >= x
  OBVIOUS
<1>2. PICK m \in S : m = Max(S) /\ \A x \in S : m >= x
  BY <1>1 DEF Max
<1> QED
  BY <1>1, <1>2

LEMMA HighIsMax == High = Max(Reached)
BY Zenon DEF High, Reached, Elements

LEMMA HighIsMaxNext == High' = Max(Reached')
BY Zenon DEF High, Reached, Elements

LEMMA HighIsTop ==
    ASSUME TypeOK, Topped
    PROVE  High \in Nat /\ IsTop(High)
<1>1. PICK h \in Nat : IsTop(h)
  BY DEF Topped
<1>2. Max(Reached) = h
  BY <1>1, ReachedType, MaxIsTop DEF IsTop
<1> QED
  BY <1>1, <1>2, HighIsMax

(* A top after a step.                                                     *)
LEMMA TopNext ==
    ASSUME TypeOK', Reached' \subseteq Nat, NEW h, h \in Reached', h <= acc',
           \A x \in Reached' : x <= h
    PROVE  High' = h /\ Topped'
<1>1. High' = h
  BY MaxIsTop, HighIsMaxNext
<1>2. h \in Nat
  OBVIOUS
<1> QED
  BY <1>1, <1>2 DEF Topped, IsTop

(* All that lies below the buffer has left the writer.                     *)
LEMMA BaseReached ==
    ASSUME TypeOK, BufferIsTail, NothingLost
    PROVE  Base \in Reached /\ Base \in Nat
<1>1. Base \in Nat
  BY BufferIsPiece
<1>2. CASE Base = 0
  BY <1>2 DEF Reached
<1>3. CASE Base # 0
  <2>1. InFile(Base) \/ Base \in gone
    BY <1>1, <1>3, BelowBase
  <2> QED
    BY <1>1, <2>1, ReachedOf, ElementsOf DEF InFile
<1> QED
  BY <1>1, <1>2, <1>3

(* The elements of a sequence with a piece put behind it.                  *)
LEMMA PieceElements ==
    ASSUME NEW s \in Seq(Nat), NEW a \in Nat, NEW b \in Nat, a <= b
    PROVE  Elements(s \o Piece(a, b)) = Elements(s) \cup (a + 1)..b
<1> DEFINE p == Piece(a, b)
           t == s \o p
<1>1. /\ p \in Seq(Nat) /\ Len(p) = b - a /\ \A i \in 1..(b - a) : p[i] = a + i
      /\ Len(s) \in Nat /\ DOMAIN s = 1..Len(s)
  <2>1. p \in Seq(Nat) /\ Len(p) = b - a /\ \A i \in 1..(b - a) : p[i] = a + i
    BY PieceIsSeq
  <2>2. Len(s) \in Nat /\ DOMAIN s = 1..Len(s)
    OBVIOUS
  <2> QED
    BY <2>1, <2>2
<1> HIDE DEF p
<1>2. /\ t \in Seq(Nat) /\ Len(t) = Len(s) + Len(p)
      /\ \A i \in 1..Len(t) : t[i] = IF i <= Len(s) THEN s[i] ELSE p[i - Len(s)]
  BY <1>1, ConcatElements
<1> HIDE DEF t
<1>3. DOMAIN t = 1..Len(t) /\ Len(t) = Len(s) + (b - a)
  BY <1>1, <1>2
<1>4. ASSUME NEW i \in 1..Len(t)
      PROVE  (\E j \in DOMAIN s : t[i] = s[j]) \/ t[i] \in (a + 1)..b
  <2>1. CASE i <= Len(s)
    <3>1. t[i] = s[i] /\ i \in DOMAIN s
      BY <1>1, <1>2, <2>1, SMTT(20)
    <3> QED
      BY <3>1
  <2>2. CASE ~(i <= Len(s))
    <3>1. i - Len(s) \in 1..(b - a)
      BY <1>1, <1>3, <2>2
    <3>2. t[i] = a + (i - Len(s))
      BY <1>1, <1>2, <2>2, <3>1
    <3> QED
      BY <1>1, <3>1, <3>2
  <2> QED
    BY <2>1, <2>2
<1>5. ASSUME NEW j \in DOMAIN s
      PROVE  \E i \in DOMAIN t : t[i] = s[j]
  <2>1. j \in DOMAIN t /\ t[j] = s[j]
    BY <1>1, <1>2, <1>3, SMTT(20)
  <2> QED
    BY <2>1
<1>6. ASSUME NEW x \in (a + 1)..b
      PROVE  \E i \in DOMAIN t : t[i] = x
  <2>1. /\ x - a \in 1..(b - a) /\ Len(s) + (x - a) \in 1..Len(t)
        /\ ~(Len(s) + (x - a) <= Len(s)) /\ (Len(s) + (x - a)) - Len(s) = x - a
        /\ a + (x - a) = x
    BY <1>1, <1>3
  <2>2. t[Len(s) + (x - a)] = x
    BY <1>1, <1>2, <2>1
  <2> QED
    BY <1>3, <2>1, <2>2
<1>7. \A x : x \in Elements(t) <=> x \in Elements(s) \/ x \in (a + 1)..b
  BY <1>3, <1>4, <1>5, <1>6, ElementsOf, SMTT(20)
<1>8. Elements(t) = Elements(s) \cup (a + 1)..b
  BY <1>7
<1> QED
  BY <1>8 DEF t, p

-----------------------------------------------------------------------------
(* The two kinds of steps.                                                 *)

(* What a step of either kind has to show.                                 *)
Goal == Topped' /\ (AtLeastOnce!Next \/ UNCHANGED AtLeastOnce!streamVars)

(* The bytes from the start of the buffer up to e are sent.                *)
LEMMA SendStep ==
    ASSUME TypeOK, BufferIsTail, NothingLost, Topped, TypeOK',
           NEW e \in Nat, Base <= e, e <= acc', acc <= acc',
           out' = out \o Piece(Base, e), gone' = gone
    PROVE  Goal
<1>1. /\ High \in Nat /\ IsTop(High) /\ acc \in Nat /\ acc' \in Nat
      /\ Base \in Nat /\ Base <= High /\ out \in Seq(Nat)
  BY HighIsTop, BaseReached DEF TypeOK, IsTop
<1>2. Reached' = Reached \cup (Base + 1)..e
  <2>1. Elements(out') = Elements(out) \cup (Base + 1)..e
    BY <1>1, PieceElements
  <2> QED
    BY <2>1 DEF Reached
<1> DEFINE h == IF e > High THEN e ELSE High
<1>3. /\ Reached' \subseteq Nat /\ h \in Reached' /\ h <= acc'
      /\ \A x \in Reached' : x <= h
  <2>1. Reached \subseteq Nat /\ \A x \in Reached : x <= High
    BY <1>1, ReachedType DEF IsTop
  <2>2. High <= acc'
    BY <1>1 DEF IsTop
  <2>3. h \in Reached'
    <3>1. CASE e > High
      BY <1>1, <1>2, <3>1
    <3>2. CASE ~(e > High)
      BY <1>1, <1>2, <3>2 DEF IsTop
    <3> QED
      BY <3>1, <3>2
  <2>4. \A x \in Reached' : x \in Nat /\ x <= h
    BY <1>1, <1>2, <2>1
  <2> QED
    BY <2>2, <2>3, <2>4
<1> HIDE DEF h
<1>4. High' = h
  BY <1>3, TopNext
<1>5. Topped'
  BY <1>3, TopNext
<1> USE DEF h
<1>6. CASE e = Base
  <2>1. out' = out
    BY <1>1, <1>6, EmptyIsPiece
  <2>2. High' = High
    BY <1>1, <1>4, <1>6
  <2> QED
    BY <1>1, <1>5, <2>1, <2>2
    DEF Goal, AtLeastOnce!Next, AtLeastOnce!Buffer, AtLeastOnce!AcceptMore
<1>7. CASE e # Base
  <2>1. Base + 1 \in 1..(High + 1) /\ e \in (Base + 1)..acc'
    BY <1>1, <1>7
  <2>2. Piece(Base, e) = AtLeastOnce!Run(Base + 1, e)
    <3>1. /\ e - (Base + 1) + 1 = e - Base
          /\ \A i \in 1..(e - Base) : Base + 1 + i - 1 = Base + i
      BY <1>1
    <3> QED
      BY <3>1 DEF Piece, AtLeastOnce!Run
  <2>3. AtLeastOnce!Send
    BY <1>1, <1>4, <2>1, <2>2 DEF AtLeastOnce!Send, AtLeastOnce!AcceptMore
  <2> QED
    BY <1>5, <2>3 DEF Goal, AtLeastOnce!Next
<1> QED
  BY <1>6, <1>7

(* The buffer is thrown away.                                              *)
LEMMA DiscardStep ==
    ASSUME TypeOK, BufferIsTail, Topped, TypeOK', Discard, UNCHANGED <<acc, out>>
    PROVE  Goal
<1>1. /\ High \in Nat /\ IsTop(High) /\ acc \in Nat
      /\ Base \in Nat /\ Base <= acc /\ Len(buf) = acc - Base /\ DOMAIN buf = 1..Len(buf)
      /\ \A i \in 1..Len(buf) : buf[i] = Base + i
  BY HighIsTop, BufferIsPiece DEF TypeOK, BufferIsTail, Base
<1>2. Reached' = Reached \cup {buf[i] : i \in DOMAIN buf}
  BY DEF Discard, Reached
<1>3. CASE buf = <<>>
  <2>1. Reached' = Reached
    BY <1>2, <1>3
  <2>2. /\ Reached' \subseteq Nat /\ High \in Reached' /\ High <= acc'
        /\ \A x \in Reached' : x <= High
    BY <1>1, <2>1, ReachedType DEF IsTop
  <2>3. High' = High /\ Topped'
    BY <2>1, <2>2, TopNext
  <2> QED
    BY <2>3 DEF Goal, AtLeastOnce!streamVars
<1>4. CASE buf # <<>>
  <2>1. /\ Reached' \subseteq Nat /\ acc \in Reached' /\ acc <= acc'
        /\ \A x \in Reached' : x <= acc
    <3>1. Len(buf) \in DOMAIN buf /\ buf[Len(buf)] = acc
      BY <1>1, <1>4 DEF TypeOK
    <3>2. \A x \in Reached : x \in Nat /\ x <= acc
      BY <1>1, ReachedType DEF IsTop
    <3>3. \A i \in DOMAIN buf : buf[i] \in Nat /\ buf[i] <= acc
      BY <1>1
    <3> QED
      BY <1>2, <3>1, <3>2, <3>3
  <2>2. High' = acc /\ Topped'
    BY <2>1, TopNext
  <2> QED
    BY <2>2 DEF Goal, AtLeastOnce!Next, AtLeastOnce!GiveUp
<1> QED
  BY <1>3, <1>4

LEMMA StepRefines ==
    ASSUME MayBeShort = FALSE, TypeOK, BufferIsTail, NothingLost, Topped, TypeOK',
           [Next]_vars
    PROVE  Goal
<1>1. ASSUME NEW n \in 0..MaxWrite,
             BwWrite(n) \/ BwWriteLine(n) \/ BwWriteChar \/ BwFlush
      PROVE  Goal
  <2>1. PICK plan : \E m \in Nat : GoodPlan(plan, acc + m) /\ Accept(plan, m)
    BY <1>1, AcceptingStep
  <2>2. PICK m \in Nat : GoodPlan(plan, acc + m) /\ Accept(plan, m)
    BY <2>1
  <2>3. out' = out \o plan.emit /\ gone' = gone /\ acc' = acc + m
    BY <2>2 DEF Accept, Succeeds, Written
  <2>4. PICK e \in Nat : Base <= e /\ e <= acc + m /\ plan.emit = Piece(Base, e)
    BY <2>2, BufferIsPiece DEF GoodPlan
  <2>5. acc \in Nat /\ acc <= acc'
    BY <2>3 DEF TypeOK
  <2> QED
    BY <2>3, <2>4, <2>5, SendStep
<1>2. CASE BwDrop \/ BwClose
  <2>1. out' = out \o buf /\ UNCHANGED <<acc, gone>>
    BY <1>2 DEF BwDrop, BwClose, LastFlush, Written
  <2>2. acc \in Nat /\ Base <= acc /\ buf = Piece(Base, acc) /\ acc <= acc
    BY BufferIsPiece
  <2>3. out' = out \o Piece(Base, acc)
    BY <2>1, <2>2
  <2> QED
    BY <2>1, <2>2, <2>3, SendStep
<1>3. CASE BwReplaceFile \/ \E c \in Caps : BwReplaceBuf(c)
  BY <1>3, DiscardStep DEF BwReplaceFile, BwReplaceBuf
<1>4. CASE UNCHANGED vars
  <2>1. UNCHANGED <<acc, gone, out>>
    BY <1>4 DEF vars
  <2>2. UNCHANGED <<High, Reached>>
    BY <2>1 DEF High, Reached
  <2> QED
    BY <2>1, <2>2 DEF Goal, Topped, IsTop, AtLeastOnce!streamVars
<1>5. 0 \in 0..MaxWrite
  BY MaxWriteAssumption
<1> QED
  BY <1>1, <1>2, <1>3, <1>4, <1>5 DEF Next, Fails

(* Without short writes the writer is an at-least-once stream: each call   *)
(* sends a run of bytes that starts no later than the first one not sent   *)
(* yet, or nothing (buf_writer.c).                                         *)
THEOREM WriterImplementsStream ==
    ASSUME MayBeShort = FALSE
    PROVE  Spec => ImplementsStream
<1>1. Init => Topped /\ AtLeastOnce!Init
  <2> SUFFICES ASSUME Init PROVE Topped /\ AtLeastOnce!Init
    OBVIOUS
  <2>1. acc = 0 /\ out = <<>> /\ gone = {} /\ TypeOK
    BY CapsAssumption DEF Init, TypeOK, States
  <2>2. Reached = {0}
    <3>1. \A x : x \notin Elements(out)
      BY <2>1, ElementsOf
    <3> QED
      BY <2>1, <3>1 DEF Reached
  <2>3. IsTop(0)
    BY <2>1, <2>2 DEF IsTop
  <2>4. High = 0
    BY <2>2, MaxIsTop, HighIsMax
  <2> QED
    BY <2>1, <2>3, <2>4 DEF Topped, AtLeastOnce!Init
<1>2. TypeOK /\ TypeOK' /\ BufferIsTail /\ NothingLost /\ Topped /\ [Next]_vars
        => Topped' /\ [AtLeastOnce!Next]_AtLeastOnce!streamVars
  BY StepRefines DEF Goal
<1> QED
  BY <1>1, <1>2, TailCorrect, NothingIsLost, PTL
  DEF Spec, ImplementsStream, AtLeastOnce!Spec
=============================================================================
