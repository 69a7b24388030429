------------------------ MODULE CommandStreamProofs -------------------------
(***************************************************************************)
(* Proofs about the commands pipe byte by byte, for any number of clients, *)
(* arguments of any length, and all sizes of the buffers, of the pipe and  *)
(* of PIPE_BUF.                                                            *)
(***************************************************************************)
EXTENDS CommandStream, TLAPS

Byte == Clients \X Nat

(* The variables are functions and sequences of the right kind.            *)
Shapes ==
    /\ len \in [Clients -> Nat]
    /\ cpc \in [Clients -> {"letter", "line", "flush", "drop", "done", "killed"}]
    /\ wbuf \in [Clients -> Seq(Nat)] /\ wacc \in [Clients -> Nat]
    /\ pending \in [Clients -> Seq(Byte)]
    /\ atomic \in [Clients -> BOOLEAN]
    /\ pipe \in Seq(Byte) /\ got \in Seq(Byte) /\ before \in Nat /\ up \in BOOLEAN

(* The numbers of all the bytes of the command of c.                       *)
All(c) == [i \in 1..CmdSize(c) |-> i]

(* How far the writer of c has come; a short command stays in its buffer   *)
(* as a whole.                                                             *)
WriterOK(c) ==
    /\ cpc[c] = "letter" => wbuf[c] = <<>> /\ wacc[c] = 0
    /\ cpc[c] = "line" => wbuf[c] = <<1, 2>> /\ wacc[c] = 2
    /\ Len(wbuf[c]) <= Cap /\ wacc[c] <= CmdSize(c)
    /\ \A i \in 1..Len(wbuf[c]) : wbuf[c][i] \in 1..wacc[c]
    /\ Short(c) /\ cpc[c] \in {"flush", "drop"} => wbuf[c] = All(c)

(* What is in the middle of being written: of a short command all or none. *)
PendingOK(c) ==
    /\ \A i \in 1..Len(pending[c]) : pending[c][i][1] = c /\ IsByte(pending[c][i])
    /\ Short(c) => atomic[c] /\ pending[c] \in {<<>>, Bytes(c, All(c))}

(* A byte of a short command has its neighbours on both sides, unless it   *)
(* is the first of the pipe or the last of its command.                    *)
Forwards(s) ==
    \A i \in 1..Len(s) : Short(s[i][1]) /\ ~Last(s[i]) => i < Len(s) /\ s[i + 1] = After(s[i])
Backwards(s) ==
    \A i \in 2..Len(s) : Short(s[i][1]) /\ ~First(s[i]) => s[i] = After(s[i - 1])
OfBytes(s) == \A i \in 1..Len(s) : IsByte(s[i])
Ordered(s) == OfBytes(s) /\ Forwards(s) /\ Backwards(s)

(* While the reads are not full, the pipe begins with a whole command.     *)
BeginsWhole(s) == s # <<>> /\ Short(s[1][1]) => First(s[1])

StreamInv ==
    /\ Shapes
    /\ \A c \in Clients : WriterOK(c) /\ PendingOK(c)
    /\ Len(pipe) <= PipeCap /\ Len(got) <= Cap /\ before <= Cap
    /\ Ordered(pipe)
    /\ Len(got) < Cap => BeginsWhole(pipe)

-----------------------------------------------------------------------------
(* Sequences of bytes.                                                     *)

LEMMA ConcatOf ==
    ASSUME NEW s \in Seq(Byte), NEW t \in Seq(Byte)
    PROVE  /\ s \o t \in Seq(Byte) /\ Len(s \o t) = Len(s) + Len(t)
           /\ \A i \in 1..Len(s) : (s \o t)[i] = s[i]
           /\ \A i \in 1..Len(t) : (s \o t)[Len(s) + i] = t[i]
           /\ \A i \in 1..(Len(s) + Len(t)) :
                i \in 1..Len(s) \/ \E j \in 1..Len(t) : i = Len(s) + j
<1>1. /\ s \o t \in Seq(Byte) /\ Len(s \o t) = Len(s) + Len(t)
      /\ \A i \in 1..Len(s) : (s \o t)[i] = s[i]
      /\ \A i \in 1..Len(t) : (s \o t)[Len(s) + i] = t[i]
      /\ Len(s) \in Nat /\ Len(t) \in Nat
  OBVIOUS
<1>2. ASSUME NEW i \in 1..(Len(s) + Len(t)), i \notin 1..Len(s)
      PROVE  i - Len(s) \in 1..Len(t) /\ i = Len(s) + (i - Len(s))
  BY <1>1, <1>2
<1> QED
  BY <1>1, <1>2

LEMMA PartOf ==
    ASSUME NEW S, NEW s \in Seq(S), NEW k \in 0..Len(s)
    PROVE  /\ SubSeq(s, 1, k) \in Seq(S) /\ Len(SubSeq(s, 1, k)) = k
           /\ \A i \in 1..k : SubSeq(s, 1, k)[i] = s[i]
           /\ SubSeq(s, k + 1, Len(s)) \in Seq(S)
           /\ Len(SubSeq(s, k + 1, Len(s))) = Len(s) - k
           /\ \A i \in 1..(Len(s) - k) : SubSeq(s, k + 1, Len(s))[i] = s[i + k]
OBVIOUS

(* Bytes behind others.                                                    *)
LEMMA ConcatOrdered ==
    ASSUME NEW s \in Seq(Byte), NEW t \in Seq(Byte),
           Ordered(s), Ordered(t), BeginsWhole(t)
    PROVE  Ordered(s \o t) /\ (BeginsWhole(s) => BeginsWhole(s \o t))
<1> DEFINE u == s \o t
           m == Len(s)
           n == Len(t)
<1>1. /\ u \in Seq(Byte) /\ Len(u) = m + n /\ m \in Nat /\ n \in Nat
      /\ \A i \in 1..m : u[i] = s[i]
      /\ \A i \in 1..n : u[m + i] = t[i]
      /\ \A i \in 1..(m + n) : i \in 1..m \/ \E j \in 1..n : i = m + j
  BY ConcatOf
<1> HIDE DEF u
<1>2. OfBytes(u)
  BY <1>1 DEF Ordered, OfBytes
<1>3. Forwards(u)
  <2> SUFFICES ASSUME NEW i \in 1..(m + n), Short(u[i][1]), ~Last(u[i])
               PROVE  i < m + n /\ u[i + 1] = After(u[i])
    BY <1>1 DEF Forwards
  <2>1. CASE i \in 1..m
    <3>1. i < m /\ s[i + 1] = After(s[i]) /\ u[i] = s[i]
      BY <1>1, <2>1 DEF Ordered, Forwards
    <3>2. i + 1 \in 1..m
      BY <1>1, <2>1, <3>1
    <3> QED
      BY <1>1, <3>1, <3>2
  <2>2. ASSUME NEW j \in 1..n, i = m + j
        PROVE  i < m + n /\ u[i + 1] = After(u[i])
    <3>1. j < n /\ t[j + 1] = After(t[j]) /\ u[i] = t[j]
      BY <1>1, <2>2 DEF Ordered, Forwards
    <3>2. j + 1 \in 1..n /\ i + 1 = m + (j + 1)
      BY <1>1, <2>2, <3>1
    <3> QED
      BY <1>1, <3>1, <3>2
  <2> QED
    BY <1>1, <2>1, <2>2
<1>4. Backwards(u)
  <2> SUFFICES ASSUME NEW i \in 2..(m + n), Short(u[i][1]), ~First(u[i])
               PROVE  u[i] = After(u[i - 1])
    BY <1>1 DEF Backwards
  <2>1. CASE i \in 1..m
    <3>1. i \in 2..m /\ i - 1 \in 1..m
      BY <1>1, <2>1
    <3> QED
      BY <1>1, <2>1, <3>1 DEF Ordered, Backwards
  <2>2. ASSUME NEW j \in 1..n, i = m + j
        PROVE  u[i] = After(u[i - 1])
    <3>1. u[i] = t[j]
      BY <1>1, <2>2
    <3>2. j # 1
      BY <1>1, <2>2, <3>1 DEF BeginsWhole
    <3>3. j \in 2..n /\ j - 1 \in 1..n /\ i - 1 = m + (j - 1)
      BY <1>1, <2>2, <3>2
    <3> QED
      BY <1>1, <3>1, <3>3, SMTT(20) DEF Ordered, Backwards
  <2>3. i \in 1..(m + n)
    BY <1>1
  <2> QED
    BY <1>1, <2>1, <2>2, <2>3
<1>5. BeginsWhole(s) => BeginsWhole(u)
  <2> SUFFICES ASSUME BeginsWhole(s), u # <<>>, Short(u[1][1]) PROVE First(u[1])
    BY DEF BeginsWhole
  <2>1. CASE m = 0
    <3>1. 1 \in 1..n /\ u[1] = t[1] /\ t # <<>>
      BY <1>1, <2>1
    <3> QED
      BY <3>1 DEF BeginsWhole
  <2>2. CASE m # 0
    <3>1. 1 \in 1..m /\ u[1] = s[1] /\ s # <<>>
      BY <1>1, <2>2
    <3> QED
      BY <3>1 DEF BeginsWhole
  <2> QED
    BY <2>1, <2>2
<1> QED
  BY <1>2, <1>3, <1>4, <1>5 DEF Ordered, u

(* Bytes of which the first k are taken away.                              *)
LEMMA RestOrdered ==
    ASSUME NEW s \in Seq(Byte), NEW k \in 0..Len(s), Ordered(s)
    PROVE  Ordered(SubSeq(s, k + 1, Len(s)))
<1> DEFINE r == SubSeq(s, k + 1, Len(s))
           n == Len(s) - k
<1>1. /\ Len(s) \in Nat /\ k \in Nat /\ n \in Nat /\ Len(r) = n
      /\ \A i \in 1..n : r[i] = s[i + k] /\ i + k \in 1..Len(s)
  BY PartOf
<1> HIDE DEF r
<1>2. OfBytes(r)
  BY <1>1 DEF Ordered, OfBytes
<1>3. Forwards(r)
  <2> SUFFICES ASSUME NEW i \in 1..n, Short(r[i][1]), ~Last(r[i])
               PROVE  i < n /\ r[i + 1] = After(r[i])
    BY <1>1 DEF Forwards
  <2>1. i + k < Len(s) /\ s[i + k + 1] = After(s[i + k])
    BY <1>1 DEF Ordered, Forwards
  <2>2. i + 1 \in 1..n /\ (i + 1) + k = i + k + 1
    BY <1>1, <2>1
  <2> QED
    BY <1>1, <2>1, <2>2
<1>4. Backwards(r)
  <2> SUFFICES ASSUME NEW i \in 2..n, Short(r[i][1]), ~First(r[i])
               PROVE  r[i] = After(r[i - 1])
    BY <1>1 DEF Backwards
  <2>1. i \in 1..n /\ i - 1 \in 1..n /\ (i - 1) + k = (i + k) - 1 /\ i + k \in 2..Len(s)
    BY <1>1
  <2> QED
    BY <1>1, <2>1 DEF Ordered, Backwards
<1> QED
  BY <1>2, <1>3, <1>4 DEF Ordered, r

(* Lines that begin with a whole one are whole lines.                      *)
LEMMA WholeLines ==
    ASSUME NEW s \in Seq(Byte), s # <<>>, Ordered(s), BeginsWhole(s),
           \A i \in 1..Len(s) : Short(s[i][1])
    PROVE  /\ First(s[1]) /\ Last(s[Len(s)])
           /\ \A i \in 1..(Len(s) - 1) : Follows(s[i], s[i + 1])
<1>1. Len(s) \in Nat /\ 1 \in 1..Len(s) /\ Len(s) \in 1..Len(s)
  OBVIOUS
<1>2. First(s[1])
  BY <1>1 DEF BeginsWhole
<1>3. Last(s[Len(s)])
  BY <1>1 DEF Ordered, Forwards
<1>4. ASSUME NEW i \in 1..(Len(s) - 1)
      PROVE  Follows(s[i], s[i + 1])
  <2>1. /\ i \in 1..Len(s) /\ i + 1 \in 2..Len(s) /\ i + 1 \in 1..Len(s)
        /\ (i + 1) - 1 = i
    BY <1>1
  <2>2. CASE ~Last(s[i])
    BY <2>1, <2>2 DEF Ordered, Forwards, Follows
  <2>3. CASE Last(s[i])
    <3>1. SUFFICES ASSUME ~First(s[i + 1]) PROVE FALSE
      BY <2>3 DEF Follows
    <3>2. s[i + 1] = After(s[i]) /\ IsByte(s[i + 1]) /\ IsByte(s[i])
      BY <2>1, <3>1 DEF Ordered, Backwards, OfBytes
    <3>3. /\ s[i + 1][1] = s[i][1] /\ s[i + 1][2] = s[i][2] + 1
          /\ s[i][2] = CmdSize(s[i][1])
      BY <2>3, <3>2 DEF After, Last
    <3>4. s[i + 1][2] \in 1..CmdSize(s[i][1]) /\ s[i][2] \in 1..CmdSize(s[i][1])
      BY <3>2, <3>3 DEF IsByte
    <3> QED
      BY <3>3, <3>4
  <2> QED
    BY <2>2, <2>3
<1> QED
  BY <1>2, <1>3, <1>4

(* A whole command, and bytes of long ones.                                *)
LEMMA CommandOrdered ==
    ASSUME Shapes, NEW c \in Clients
    PROVE  /\ Bytes(c, All(c)) \in Seq(Byte) /\ Len(Bytes(c, All(c))) = CmdSize(c)
           /\ Ordered(Bytes(c, All(c))) /\ BeginsWhole(Bytes(c, All(c)))
<1> DEFINE n == CmdSize(c)
           t == Bytes(c, All(c))
<1>1. n \in Nat /\ n >= 3
  BY DEF Shapes, CmdSize
<1>2. t = [i \in 1..n |-> <<c, i>>]
  BY DEF Bytes, All
<1>3. t \in [1..n -> Byte] /\ \A i \in 1..n : t[i] = <<c, i>>
  BY <1>1, <1>2 DEF Byte
<1> HIDE DEF t
<1>4. t \in Seq(Byte) /\ Len(t) = n
  BY <1>1, <1>3
<1>5. \A i \in 1..n : t[i][1] = c /\ t[i][2] = i
  BY <1>3
<1>6. OfBytes(t)
  BY <1>4, <1>5 DEF OfBytes, IsByte
<1>7. Forwards(t)
  <2> SUFFICES ASSUME NEW i \in 1..n, ~Last(t[i])
               PROVE  i < n /\ t[i + 1] = After(t[i])
    BY <1>4 DEF Forwards
  <2>1. i # n
    BY <1>5 DEF Last
  <2>2. i < n /\ i + 1 \in 1..n
    BY <1>1, <2>1
  <2> QED
    BY <1>3, <1>5, <2>2 DEF After
<1>8. Backwards(t)
  <2> SUFFICES ASSUME NEW i \in 2..n PROVE t[i] = After(t[i - 1])
    BY <1>4 DEF Backwards
  <2>1. i \in 1..n /\ i - 1 \in 1..n /\ (i - 1) + 1 = i
    BY <1>1
  <2> QED
    BY <1>3, <1>5, <2>1 DEF After
<1>9. BeginsWhole(t)
  BY <1>1, <1>5 DEF BeginsWhole, First
<1> QED
  BY <1>4, <1>6, <1>7, <1>8, <1>9 DEF Ordered, t

LEMMA LongOrdered ==
    ASSUME NEW c, NEW t \in Seq(Byte), ~Short(c),
           \A i \in 1..Len(t) : t[i][1] = c /\ IsByte(t[i])
    PROVE  Ordered(t) /\ BeginsWhole(t)
<1>1. Len(t) \in Nat /\ \A i \in 2..Len(t) : i \in 1..Len(t)
  OBVIOUS
<1>2. t # <<>> => 1 \in 1..Len(t)
  OBVIOUS
<1> QED
  BY <1>1, <1>2 DEF Ordered, OfBytes, Forwards, Backwards, BeginsWhole

(* What these say depends on the lengths of the commands only.             *)
LEMMA SameLengths ==
    ASSUME UNCHANGED len
    PROVE  /\ Ordered(pipe)' <=> Ordered(pipe')
           /\ BeginsWhole(pipe)' <=> BeginsWhole(pipe')
BY DEF Ordered, OfBytes, Forwards, Backwards, BeginsWhole, IsByte, Short, First, Last,
       After, CmdSize

LEMMA SameClient ==
    ASSUME UNCHANGED len, NEW c,
           cpc'[c] = cpc[c] \/ cpc'[c] = "killed", wbuf'[c] = wbuf[c], wacc'[c] = wacc[c], WriterOK(c)
    PROVE  WriterOK(c)'
BY DEF WriterOK, CmdSize, Short, All

LEMMA SamePending ==
    ASSUME UNCHANGED len, NEW c, pending'[c] = pending[c], atomic'[c] = atomic[c],
           PendingOK(c)
    PROVE  PendingOK(c)'
BY DEF PendingOK, IsByte, Bytes, CmdSize, Short, All

-----------------------------------------------------------------------------
(* The calls of the writer.                                                *)

(* What a call of the writer of c that accepts n bytes may do.             *)
Numbered(ks, n) == ks \in Seq(Nat) /\ \A i \in 1..Len(ks) : ks[i] \in 1..n
GoodCall(c, plan, n, next) ==
    /\ n \in Nat /\ wacc[c] + n <= CmdSize(c)
    /\ Numbered(plan.emit, wacc[c] + n) /\ Numbered(plan.keep, wacc[c] + n)
    /\ Len(plan.keep) <= Cap
    /\ next \in {"line", "flush", "drop", "done"}
    /\ next = "line" => plan.keep = <<1, 2>> /\ wacc[c] + n = 2
    /\ Short(c) => plan.emit \in {<<>>, All(c)}
    /\ Short(c) /\ next \in {"flush", "drop"} => plan.keep = All(c)

LEMMA BytesOf ==
    ASSUME NEW c \in Clients, NEW ks \in Seq(Nat)
    PROVE  /\ Bytes(c, ks) \in Seq(Byte) /\ Len(Bytes(c, ks)) = Len(ks)
           /\ \A i \in 1..Len(ks) : Bytes(c, ks)[i] = <<c, ks[i]>>
<1> DEFINE t == Bytes(c, ks)
<1>1. /\ Len(ks) \in Nat /\ DOMAIN ks = 1..Len(ks)
      /\ \A i \in 1..Len(ks) : ks[i] \in Nat
  OBVIOUS
<1>2. t = [i \in 1..Len(ks) |-> <<c, ks[i]>>]
  BY <1>1 DEF Bytes
<1>3. t \in [1..Len(ks) -> Byte] /\ \A i \in 1..Len(ks) : t[i] = <<c, ks[i]>>
  BY <1>1, <1>2 DEF Byte
<1> HIDE DEF t
<1>4. t \in Seq(Byte) /\ Len(t) = Len(ks)
  BY <1>1, <1>3
<1> QED
  BY <1>3, <1>4 DEF t

LEMMA CallKeepsInv ==
    ASSUME StreamInv, NEW c \in Clients, NEW plan, NEW n, NEW next,
           GoodCall(c, plan, n, next), Does(c, plan, n, next)
    PROVE  StreamInv'
<1> DEFINE t == Bytes(c, plan.emit)
<1>1. Shapes /\ plan.emit \in Seq(Nat) /\ plan.keep \in Seq(Nat) /\ n \in Nat
  BY DEF StreamInv, GoodCall, Numbered
<1>2. /\ pending'[c] = t /\ wbuf'[c] = plan.keep /\ wacc'[c] = wacc[c] + n
      /\ cpc'[c] = next /\ atomic'[c] = (Len(plan.emit) <= PipeBuf)
      /\ \A d \in Clients : d # c =>
            /\ pending'[d] = pending[d] /\ wbuf'[d] = wbuf[d]
            /\ wacc'[d] = wacc[d] /\ cpc'[d] = cpc[d] /\ atomic'[d] = atomic[d]
  BY <1>1 DEF Does, Shapes
<1>3. /\ t \in Seq(Byte) /\ Len(t) = Len(plan.emit)
      /\ \A i \in 1..Len(plan.emit) : t[i] = <<c, plan.emit[i]>>
  BY <1>1, BytesOf
<1>4. UNCHANGED <<len, pipe, got, before, up>>
  BY DEF Does
<1>5. Shapes'
  <2>1. next \in {"letter", "line", "flush", "drop", "done", "killed"}
    BY DEF GoodCall
  <2>2. wacc[c] + n \in Nat
    BY <1>1 DEF Shapes
  <2>3. /\ pending' \in [Clients -> Seq(Byte)]
        /\ wbuf' \in [Clients -> Seq(Nat)] /\ wacc' \in [Clients -> Nat]
    BY <1>1, <1>3, <2>2 DEF Shapes, Does
  <2>4. cpc' \in [Clients -> {"letter", "line", "flush", "drop", "done", "killed"}]
    BY <1>1, <2>1 DEF Shapes, Does
  <2>5. atomic' \in [Clients -> BOOLEAN]
    <3>1. (Len(plan.emit) <= PipeBuf) \in BOOLEAN
      OBVIOUS
    <3> QED
      BY <1>1, <3>1, Zenon DEF Shapes, Does
  <2> QED
    BY <1>1, <1>4, <2>3, <2>4, <2>5 DEF Shapes
<1>6. WriterOK(c)'
  <2>1. /\ next \notin {"letter"} /\ (next = "line" => plan.keep = <<1, 2>> /\ wacc[c] + n = 2)
        /\ Len(plan.keep) <= Cap /\ wacc[c] + n <= CmdSize(c)
        /\ \A i \in 1..Len(plan.keep) : plan.keep[i] \in 1..(wacc[c] + n)
        /\ Short(c) /\ next \in {"flush", "drop"} => plan.keep = All(c)
    BY DEF GoodCall, Numbered
  <2> QED
    BY <1>2, <1>4, <2>1 DEF WriterOK, CmdSize, Short, All
<1>7. PendingOK(c)'
  <2>1. \A i \in 1..Len(plan.emit) : plan.emit[i] \in 1..CmdSize(c)
    <3>1. CmdSize(c) \in Nat /\ wacc[c] \in Nat
      BY <1>1 DEF Shapes, CmdSize
    <3>2. n \in Nat /\ wacc[c] + n <= CmdSize(c)
      BY DEF GoodCall
    <3>3. \A i \in 1..Len(plan.emit) : plan.emit[i] \in 1..(wacc[c] + n)
      BY DEF GoodCall, Numbered
    <3> QED
      BY <3>1, <3>2, <3>3
  <2>2. \A i \in 1..Len(t) : t[i][1] = c /\ t[i][2] \in 1..CmdSize(c)
    BY <1>3, <2>1
  <2>3. plan.emit = <<>> => t = <<>>
    BY <1>3
  <2>4. Short(c) => t \in {<<>>, Bytes(c, All(c))}
    BY <2>3 DEF GoodCall
  <2>6. Short(c) => Len(plan.emit) <= PipeBuf
    <3>1. SUFFICES ASSUME Short(c) PROVE Len(t) <= PipeBuf
      BY <1>3
    <3>2. CmdSize(c) \in Nat /\ CmdSize(c) <= PipeBuf
      BY <1>1, <3>1 DEF Shapes, CmdSize, Short
    <3>3. Len(t) \in {0, CmdSize(c)}
      BY <1>1, <2>4, <3>1, CommandOrdered
    <3> QED
      BY <3>2, <3>3, SizesAssumption
  <2>5. UNCHANGED <<CmdSize(c), Short(c), All(c)>>
    BY <1>4 DEF CmdSize, Short, All
  <2> HIDE DEF t
  <2> QED
    BY <1>2, <1>4, <2>2, <2>4, <2>5, <2>6 DEF PendingOK, IsByte, CmdSize, Bytes
<1>8. ASSUME NEW d \in Clients PROVE WriterOK(d)' /\ PendingOK(d)'
  <2>1. CASE d = c
    BY <1>6, <1>7, <2>1
  <2>2. CASE d # c
    <3>1. WriterOK(d) /\ PendingOK(d)
      BY DEF StreamInv
    <3> QED
      BY <1>2, <1>4, <2>2, <3>1, SameClient, SamePending
  <2> QED
    BY <2>1, <2>2
<1>9. Ordered(pipe)' /\ (Len(got) < Cap => BeginsWhole(pipe))'
  BY <1>4, SameLengths DEF StreamInv
<1> QED
  BY <1>4, <1>5, <1>8, <1>9 DEF StreamInv

LEMMA ConcatNumbered ==
    ASSUME NEW n, NEW s, Numbered(s, n), NEW t, Numbered(t, n)
    PROVE  Numbered(s \o t, n) /\ Len(s \o t) = Len(s) + Len(t)
<1>1. s \in Seq(Nat) /\ t \in Seq(Nat)
  BY DEF Numbered
<1>2. /\ s \o t \in Seq(Nat) /\ Len(s \o t) = Len(s) + Len(t)
      /\ \A i \in 1..Len(s) : (s \o t)[i] = s[i]
      /\ \A i \in 1..(Len(s) + Len(t)) :
            i \in 1..Len(s) \/ (i - Len(s) \in 1..Len(t) /\ (s \o t)[i] = t[i - Len(s)])
  BY <1>1
<1> QED
  BY <1>2 DEF Numbered

LEMMA PartNumbered ==
    ASSUME NEW n, NEW s, Numbered(s, n), NEW k \in 0..Len(s)
    PROVE  /\ Numbered(SubSeq(s, 1, k), n)
           /\ Numbered(SubSeq(s, k + 1, Len(s)), n) /\ Len(SubSeq(s, k + 1, Len(s))) = Len(s) - k
<1>1. s \in Seq(Nat) /\ Len(s) \in Nat
  BY DEF Numbered
<1>2. /\ SubSeq(s, 1, k) \in Seq(Nat) /\ Len(SubSeq(s, 1, k)) = k
      /\ \A i \in 1..k : SubSeq(s, 1, k)[i] = s[i] /\ i \in 1..Len(s)
  BY <1>1, PartOf
<1>3. /\ SubSeq(s, k + 1, Len(s)) \in Seq(Nat) /\ Len(SubSeq(s, k + 1, Len(s))) = Len(s) - k
      /\ \A i \in 1..(Len(s) - k) : SubSeq(s, k + 1, Len(s))[i] = s[i + k] /\ i + k \in 1..Len(s)
  BY <1>1, PartOf
<1> QED
  BY <1>2, <1>3 DEF Numbered

LEMMA FreshNumbered ==
    ASSUME Shapes, NEW c \in Clients, NEW n \in Nat
    PROVE  /\ Numbered(Writer(c)!Fresh(n), wacc[c] + n) /\ Len(Writer(c)!Fresh(n)) = n
           /\ \A i \in 1..n : Writer(c)!Fresh(n)[i] = wacc[c] + i
<1> DEFINE s == Writer(c)!Fresh(n)
<1>1. wacc[c] \in Nat
  BY DEF Shapes
<1>2. s = [i \in 1..n |-> wacc[c] + i]
  BY DEF Writer!Fresh
<1>3. s \in [1..n -> Nat] /\ \A i \in 1..n : s[i] = wacc[c] + i
  BY <1>1, <1>2
<1> HIDE DEF s
<1>4. s \in Seq(Nat) /\ Len(s) = n
  BY <1>3
<1>5. Numbered(s, wacc[c] + n)
  BY <1>1, <1>3, <1>4 DEF Numbered
<1> QED
  BY <1>3, <1>4, <1>5 DEF s

(* The cases of the two functions, one by one.                             *)
LEMMA PlanOf ==
    ASSUME NEW c \in Clients, NEW n \in Nat, Writer(c)!Available \in Nat, Cap \in Nat
    PROVE  LET room == Writer(c)!Available
               data == Writer(c)!Fresh(n)
               newline == <<wacc[c] + n + 1>>
           IN  /\ n <= room =>
                    Writer(c)!WritePlan(n) = Writer(c)!Plan(<<>>, wbuf[c] \o data)
               /\ n < room =>
                    Writer(c)!WriteLinePlan(n)
                        = Writer(c)!Plan(<<>>, (wbuf[c] \o data) \o newline)
               /\ n = room \/ (n > room /\ n > Cap) =>
                    Writer(c)!WriteLinePlan(n) = Writer(c)!Plan(wbuf[c] \o data, newline)
               /\ n > room /\ ~(n > Cap) =>
                    Writer(c)!WriteLinePlan(n)
                        = Writer(c)!Plan(wbuf[c] \o SubSeq(data, 1, room),
                                         SubSeq(data, room + 1, Len(data)) \o newline)
<1> DEFINE room == Writer(c)!Available
<1>1. CASE n < room
  <2>1. n <= room /\ n # room /\ ~(n > room)
    BY <1>1
  <2> QED
    BY <1>1, <2>1, Zenon DEF Writer!WriteLinePlan, Writer!WritePlan
<1>2. CASE n = room
  <2>1. n <= room /\ ~(n < room) /\ ~(n > room)
    BY <1>2
  <2> QED
    BY <1>2, <2>1, Zenon DEF Writer!WriteLinePlan, Writer!WritePlan
<1>3. CASE n > room
  <2>1. n # room /\ ~(n < room) /\ ~(n <= room)
    BY <1>3
  <2> QED
    BY <1>3, <2>1, Zenon DEF Writer!WriteLinePlan, Writer!First, Writer!Rest
<1> QED
  BY <1>1, <1>2, <1>3

(* The letter and the blank stay in the buffer.                            *)
LEMMA LetterCall ==
    ASSUME StreamInv, NEW c \in Clients, cpc[c] = "letter"
    PROVE  GoodCall(c, Writer(c)!WritePlan(2), 2, "line")
<1>1. /\ wbuf[c] = <<>> /\ wacc[c] = 0 /\ len[c] \in Nat
  BY DEF StreamInv, Shapes, WriterOK
<1>2. Writer(c)!Fresh(2) = <<1, 2>>
  BY <1>1 DEF Writer!Fresh
<1>3. 2 <= Writer(c)!Available
  BY <1>1, SizesAssumption DEF Writer!Available
<1>4. <<>> \o <<1, 2>> = <<1, 2>>
  OBVIOUS
<1>5. /\ Writer(c)!WritePlan(2).emit = <<>>
      /\ Writer(c)!WritePlan(2).keep = <<1, 2>>
  <2>1. Writer(c)!Available \in Nat /\ Cap \in Nat
    BY <1>1, SizesAssumption DEF Writer!Available
  <2>2. Writer(c)!WritePlan(2) = Writer(c)!Plan(<<>>, wbuf[c] \o Writer(c)!Fresh(2))
    BY <1>3, <2>1, PlanOf
  <2> QED
    BY <1>1, <1>2, <1>4, <2>2 DEF Writer!Plan
<1>6. Numbered(<<>>, 2) /\ Numbered(<<1, 2>>, 2) /\ Len(<<1, 2>>) = 2
  BY DEF Numbered
<1>7. wacc[c] + 2 = 2 /\ 2 <= Cap /\ wacc[c] + 2 <= CmdSize(c)
  BY <1>1, SizesAssumption DEF CmdSize
<1> QED
  <2> DEFINE plan == Writer(c)!WritePlan(2)
  <2> HIDE DEF plan
  <2>1. plan.emit = <<>> /\ plan.keep = <<1, 2>>
    BY <1>5 DEF plan
  <2>2. GoodCall(c, plan, 2, "line")
    BY <1>6, <1>7, <2>1 DEF GoodCall
  <2> QED
    BY <2>2 DEF plan

(* The argument: a short one stays in the buffer as well.                  *)
LEMMA ArgumentCall ==
    ASSUME StreamInv, NEW c \in Clients, cpc[c] = "line"
    PROVE  GoodCall(c, Writer(c)!WriteLinePlan(len[c]), len[c] + 1, "flush")
<1> DEFINE n == len[c]
           data == Writer(c)!Fresh(n)
           newline == <<wacc[c] + n + 1>>
           room == Writer(c)!Available
           plan == Writer(c)!WriteLinePlan(n)
           end == wacc[c] + (n + 1)
<1>1. Shapes /\ wbuf[c] = <<1, 2>> /\ wacc[c] = 2 /\ n \in Nat
  BY DEF StreamInv, Shapes, WriterOK
<1>2. room = Cap - 2 /\ room \in Nat /\ Cap \in Nat
  BY <1>1, SizesAssumption DEF Writer!Available
<1>3. /\ end = n + 3 /\ end = CmdSize(c) /\ newline = <<n + 3>> /\ n + 1 \in Nat
  BY <1>1 DEF CmdSize
<1>4. Numbered(<<>>, end) /\ Numbered(wbuf[c], end) /\ Numbered(newline, end) /\ Len(newline) = 1
  BY <1>1, <1>3 DEF Numbered
<1>5. /\ Numbered(data, end) /\ Len(data) = n /\ \A i \in 1..n : data[i] = 2 + i
  <2>1. /\ Numbered(data, 2 + n) /\ Len(data) = n /\ \A i \in 1..n : data[i] = 2 + i
    BY <1>1, FreshNumbered
  <2> HIDE DEF data
  <2> QED
    BY <1>1, <1>3, <2>1 DEF Numbered
<1>6. /\ wacc[c] + (n + 1) <= CmdSize(c)
  BY <1>1, <1>3
<1>7. Short(c) => n < room
  BY <1>1, <1>2, <1>3, SizesAssumption DEF Short
<1>8. CASE n < room
  <2>1. plan = Writer(c)!Plan(<<>>, (wbuf[c] \o data) \o newline)
    BY <1>1, <1>2, <1>8, PlanOf
  <2> HIDE DEF data, newline, plan, end
  <2> DEFINE front == wbuf[c] \o data
             keep == front \o newline
  <2>2. Numbered(front, end) /\ Len(front) = n + 2
    <3>1. Len(wbuf[c]) = 2
      BY <1>1
    <3> QED
      BY <1>1, <1>4, <1>5, <3>1, ConcatNumbered
  <2>3. Numbered(keep, end) /\ Len(keep) = n + 3
    <3> HIDE DEF front
    <3>1. Numbered(keep, end) /\ Len(keep) = Len(front) + Len(newline)
      BY <1>4, <2>2, ConcatNumbered
    <3> QED
      BY <1>1, <1>4, <2>2, <3>1
  <2>4. keep = All(c)
    <3>1. wbuf[c] \in Seq(Nat) /\ data \in Seq(Nat) /\ newline \in Seq(Nat)
      BY <1>4, <1>5 DEF Numbered
    <3>5. front \in Seq(Nat)
      BY <2>2 DEF Numbered
    <3>2. ASSUME NEW i \in 1..(n + 3) PROVE keep[i] = i
      <4>1. CASE i \in 1..2
        BY <1>1, <1>5, <2>2, <3>1, <4>1
      <4>2. CASE i \in 3..(n + 2)
        <5>1. keep[i] = front[i]
          BY <1>1, <2>2, <3>1, <4>2
        <5>2. front[i] = data[i - 2] /\ i - 2 \in 1..n
          BY <1>1, <1>5, <3>1, <4>2
        <5> QED
          BY <1>1, <1>5, <5>1, <5>2
      <4>3. CASE i = n + 3
        <5>1. keep[(n + 2) + 1] = newline[1]
          <6> HIDE DEF front
          <6>1. Len(front) + 1 = (n + 2) + 1 /\ 1 \in 1..Len(newline)
            BY <1>4, <2>2
          <6>2. keep[Len(front) + 1] = newline[1]
            BY <3>1, <3>5, <6>1
          <6> QED
            BY <6>1, <6>2
        <5>2. newline[1] = n + 3 /\ (n + 2) + 1 = n + 3
          BY <1>1, <1>3 DEF newline
        <5> QED
          BY <4>3, <5>1, <5>2
      <4>4. i \in 1..2 \/ i \in 3..(n + 2) \/ i = n + 3
        BY <1>1
      <4> QED
        BY <4>1, <4>2, <4>3, <4>4
    <3>3. keep \in Seq(Nat) /\ Len(keep) = n + 3
      BY <2>3 DEF Numbered
    <3>4. keep = [i \in 1..(n + 3) |-> i]
      <4> HIDE DEF keep
      <4> QED
        BY <3>2, <3>3
    <3> QED
      BY <1>3, <3>4 DEF All
  <2>5. plan.emit = <<>> /\ plan.keep = keep
    BY <2>1 DEF Writer!Plan
  <2>6. Len(keep) <= Cap
    BY <1>1, <1>2, <1>8, <2>3
  <2> HIDE DEF keep, plan, end
  <2>7. GoodCall(c, plan, n + 1, "flush")
    BY <1>3, <1>4, <1>6, <2>3, <2>4, <2>5, <2>6 DEF GoodCall, end
  <2> QED
    BY <2>7 DEF plan
<1>9. CASE n = room \/ (n > room /\ n > Cap)
  <2>1. plan = Writer(c)!Plan(wbuf[c] \o data, newline)
    BY <1>1, <1>2, <1>9, PlanOf
  <2> HIDE DEF data, newline
  <2>2. Numbered(wbuf[c] \o data, end)
    BY <1>4, <1>5, ConcatNumbered
  <2>3. plan.emit = wbuf[c] \o data /\ plan.keep = newline
    BY <2>1 DEF Writer!Plan
  <2>4. ~Short(c) /\ 1 <= Cap
    BY <1>1, <1>2, <1>7, <1>9, SizesAssumption
  <2> HIDE DEF plan, end
  <2>5. GoodCall(c, plan, n + 1, "flush")
    BY <1>3, <1>4, <1>6, <2>2, <2>3, <2>4 DEF GoodCall, end
  <2> QED
    BY <2>5 DEF plan
<1>10. CASE n > room /\ ~(n > Cap)
  <2> DEFINE left == SubSeq(data, room + 1, Len(data))
  <2>1. plan = Writer(c)!Plan(wbuf[c] \o SubSeq(data, 1, room), left \o newline)
    BY <1>1, <1>2, <1>10, PlanOf
  <2> HIDE DEF data, newline, room
  <2>2. room \in 0..Len(data)
    BY <1>1, <1>2, <1>5, <1>10
  <2>3. Numbered(SubSeq(data, 1, room), end) /\ Numbered(left, end) /\ Len(left) = n - room
    BY <1>5, <2>2, PartNumbered
  <2> HIDE DEF left
  <2> DEFINE head == SubSeq(data, 1, room)
             emit == wbuf[c] \o head
             keep == left \o newline
  <2> HIDE DEF head, plan, end
  <2>4. Numbered(emit, end) /\ Numbered(keep, end) /\ Len(keep) = n - room + 1
    <3>1. /\ Numbered(emit, end) /\ Numbered(keep, end)
          /\ Len(keep) = Len(left) + Len(newline)
      BY <1>4, <2>3, ConcatNumbered DEF head
    <3> QED
      BY <1>4, <2>3, <3>1
  <2> HIDE DEF emit, keep
  <2>5. plan.emit = emit /\ plan.keep = keep
    BY <2>1 DEF Writer!Plan, emit, keep, head
  <2>6. ~Short(c) /\ Len(keep) <= Cap
    BY <1>1, <1>2, <1>7, <1>10, <2>4, SizesAssumption
  <2>7. GoodCall(c, plan, n + 1, "flush")
    BY <1>3, <1>6, <2>4, <2>5, <2>6 DEF GoodCall, end
  <2> QED
    BY <2>7 DEF plan
<1> QED
  <2> HIDE DEF plan, room, data, newline
  <2>1. n < room \/ n = room \/ (n > room /\ n > Cap) \/ (n > room /\ ~(n > Cap))
    BY <1>1, <1>2
  <2> QED
    BY <1>8, <1>9, <1>10, <2>1

(* A flush: the buffer is sent, and kept.                                  *)
LEMMA FlushCall ==
    ASSUME StreamInv, NEW c \in Clients, cpc[c] \in {"flush", "drop"},
           NEW next \in {"drop", "done"}
    PROVE  GoodCall(c, Writer(c)!FlushPlan, 0, next)
<1>1. Writer(c)!FlushPlan.emit = wbuf[c] /\ Writer(c)!FlushPlan.keep = wbuf[c]
  BY DEF Writer!FlushPlan, Writer!Plan
<1>2. /\ wbuf[c] \in Seq(Nat) /\ wacc[c] + 0 = wacc[c]
  BY DEF StreamInv, Shapes
<1>3. /\ Len(wbuf[c]) <= Cap /\ wacc[c] <= CmdSize(c)
      /\ \A i \in 1..Len(wbuf[c]) : wbuf[c][i] \in 1..wacc[c]
      /\ Short(c) => wbuf[c] = All(c)
  BY DEF StreamInv, WriterOK
<1> QED
  BY <1>1, <1>2, <1>3 DEF GoodCall, Numbered

-----------------------------------------------------------------------------
(* The pipe and the server.                                                *)

LEMMA TransferKeepsInv ==
    ASSUME StreamInv, NEW c \in Clients, Transfer(c)
    PROVE  StreamInv'
<1>1. PICK k \in Pieces(c) :
        /\ pipe' = pipe \o SubSeq(pending[c], 1, k)
        /\ pending' = [pending EXCEPT ![c] = SubSeq(@, k + 1, Len(@))]
  BY DEF Transfer
<1> DEFINE n == Len(pending[c])
           t == SubSeq(pending[c], 1, k)
           r == SubSeq(pending[c], k + 1, n)
<1>2. /\ Shapes /\ pending[c] \in Seq(Byte) /\ n \in Nat /\ pipe \in Seq(Byte)
      /\ Len(pipe) \in Nat /\ Len(pipe) <= PipeCap /\ PendingOK(c) /\ pending[c] # <<>>
      /\ Ordered(pipe) /\ (Len(got) < Cap => BeginsWhole(pipe))
  BY SMTT(20) DEF StreamInv, Shapes, Transfer
<1>3. /\ k \in 1..Room /\ k <= n /\ k \in 0..n /\ (atomic[c] => k = n)
  BY <1>2, SizesAssumption DEF Pieces, Room
<1>4. /\ t \in Seq(Byte) /\ Len(t) = k /\ \A i \in 1..k : t[i] = pending[c][i]
      /\ r \in Seq(Byte) /\ Len(r) = n - k
      /\ \A i \in 1..(n - k) : r[i] = pending[c][i + k]
  BY <1>2, <1>3, PartOf
<1>5. /\ UNCHANGED <<len, cpc, wbuf, wacc, atomic, got, before, up>>
      /\ pipe' = pipe \o t /\ pending'[c] = r
      /\ \A d \in Clients : d # c => pending'[d] = pending[d]
  BY <1>1, <1>2 DEF Transfer, Shapes
<1> HIDE DEF t, r
<1>6. Shapes'
  <2>1. pending' \in [Clients -> Seq(Byte)]
    BY <1>1, <1>2, <1>4 DEF Shapes, r
  <2>2. pipe' \in Seq(Byte)
    BY <1>2, <1>4, <1>5
  <2> QED
    BY <1>2, <1>5, <2>1, <2>2 DEF Shapes
<1>7. Ordered(t) /\ BeginsWhole(t) /\ (Short(c) => r = <<>>)
  <2>1. CASE Short(c)
    <3>1. pending[c] = Bytes(c, All(c)) /\ atomic[c]
      BY <1>2, <2>1 DEF PendingOK
    <3>2. t = pending[c] /\ r = <<>>
      <4>1. k = n
        BY <1>3, <3>1
      <4> QED
        BY <1>2, <1>4, <4>1, SMTT(20)
    <3> QED
      BY <1>2, <3>1, <3>2, CommandOrdered
  <2>2. CASE ~Short(c)
    <3>1. \A i \in 1..Len(t) : t[i][1] = c /\ IsByte(t[i])
      <4>1. \A i \in 1..Len(t) : t[i] = pending[c][i] /\ i \in 1..n
        BY <1>2, <1>3, <1>4, SMTT(20)
      <4> QED
        BY <1>2, <4>1 DEF PendingOK
    <3> QED
      BY <1>4, <2>2, <3>1, LongOrdered
  <2> QED
    BY <2>1, <2>2
<1>8. /\ Ordered(pipe') /\ (BeginsWhole(pipe) => BeginsWhole(pipe'))
      /\ Len(pipe') = Len(pipe) + k
  <2>1. Ordered(pipe \o t) /\ (BeginsWhole(pipe) => BeginsWhole(pipe \o t))
    BY <1>2, <1>4, <1>7, ConcatOrdered
  <2>2. Len(pipe \o t) = Len(pipe) + k
    BY <1>2, <1>4, ConcatOf
  <2> QED
    BY <1>5, <2>1, <2>2
<1>9. Len(pipe)' <= PipeCap
  BY <1>2, <1>3, <1>8, SizesAssumption DEF Room
<1>10. PendingOK(c)'
  <2>1. \A i \in 1..Len(r) : r[i][1] = c /\ IsByte(r[i])
    <3>1. \A i \in 1..Len(r) : r[i] = pending[c][i + k] /\ i + k \in 1..n
      BY <1>2, <1>3, <1>4
    <3> QED
      BY <1>2, <3>1 DEF PendingOK
  <2>2. Short(c) => atomic'[c] /\ r \in {<<>>, Bytes(c, All(c))}
    BY <1>2, <1>5, <1>7 DEF PendingOK
  <2>3. UNCHANGED <<CmdSize(c), Short(c), All(c)>>
    BY <1>5 DEF CmdSize, Short, All
  <2> QED
    BY <1>5, <2>1, <2>2, <2>3 DEF PendingOK, IsByte, CmdSize, Bytes
<1>11. ASSUME NEW d \in Clients PROVE WriterOK(d)' /\ PendingOK(d)'
  <2>1. WriterOK(d) /\ PendingOK(d)
    BY DEF StreamInv
  <2>2. CASE d = c
    BY <1>5, <1>10, <2>1, <2>2, SameClient
  <2>3. CASE d # c
    BY <1>5, <2>1, <2>3, SameClient, SamePending
  <2> QED
    BY <2>2, <2>3
<1>12. Ordered(pipe)' /\ (Len(got) < Cap => BeginsWhole(pipe))'
  BY <1>2, <1>5, <1>8, SameLengths
<1> QED
  BY <1>5, <1>6, <1>9, <1>11, <1>12 DEF StreamInv

LEMMA KilledKeepsInv ==
    ASSUME StreamInv, NEW c \in Clients, Killed(c)
    PROVE  StreamInv'
<1>1. /\ Shapes /\ UNCHANGED <<len, wbuf, wacc, atomic, pipe, got, before, up>>
      /\ cpc' = [cpc EXCEPT ![c] = "killed"]
      /\ pending' = [pending EXCEPT ![c] = <<>>]
  BY DEF StreamInv, Killed
<1>2. /\ cpc'[c] = "killed" /\ pending'[c] = <<>>
      /\ \A d \in Clients : d # c => cpc'[d] = cpc[d] /\ pending'[d] = pending[d]
  BY <1>1 DEF Shapes
<1>3. Shapes'
  <2>1. <<>> \in Seq(Byte)
    OBVIOUS
  <2>2. cpc' \in [Clients -> {"letter", "line", "flush", "drop", "done", "killed"}]
    BY <1>1 DEF Shapes
  <2> QED
    BY <1>1, <2>1, <2>2 DEF Shapes
<1>4. ASSUME NEW d \in Clients PROVE WriterOK(d)' /\ PendingOK(d)'
  <2>1. WriterOK(d) /\ PendingOK(d)
    BY DEF StreamInv
  <2>2. WriterOK(d)'
    BY <1>1, <1>2, <2>1, SameClient
  <2>3. CASE d = c
    <3>1. PendingOK(c)'
      BY <1>1, <1>2, <2>1, <2>3 DEF PendingOK, Short, CmdSize
    <3> QED
      BY <2>2, <2>3, <3>1
  <2>4. CASE d # c
    BY <1>1, <1>2, <2>1, <2>2, <2>4, SamePending
  <2> QED
    BY <2>3, <2>4
<1>5. Ordered(pipe)' /\ (Len(got) < Cap => BeginsWhole(pipe))'
  BY <1>1, SameLengths DEF StreamInv
<1> QED
  BY <1>1, <1>3, <1>4, <1>5 DEF StreamInv

(* What a read returns, and what it leaves.                                *)
LEMMA ReadKeepsInv ==
    ASSUME StreamInv, Read
    PROVE  StreamInv' /\ ReadsWholeLines'
<1> DEFINE n == Len(pipe)
           k == ReadSize
           t == SubSeq(pipe, 1, k)
           r == SubSeq(pipe, k + 1, n)
<1>1. /\ Shapes /\ pipe \in Seq(Byte) /\ n \in Nat /\ Len(got) \in Nat
      /\ n <= PipeCap /\ Len(got) <= Cap /\ Ordered(pipe)
      /\ Len(got) < Cap => BeginsWhole(pipe)
  BY DEF StreamInv, Shapes
<1>2. k \in 0..n /\ k <= Cap /\ (k < Cap => k = n)
  BY <1>1, SizesAssumption DEF ReadSize
<1>3. /\ t \in Seq(Byte) /\ Len(t) = k /\ \A i \in 1..k : t[i] = pipe[i]
      /\ r \in Seq(Byte) /\ Len(r) = n - k
  BY <1>1, <1>2, PartOf
<1>4. /\ got' = t /\ pipe' = r /\ before' = Len(got)
      /\ UNCHANGED <<len, cpc, wbuf, wacc, pending, atomic, up>>
  BY DEF Read
<1>5. Ordered(r)
  BY <1>1, <1>2, RestOrdered
<1>6. k < Cap => r = <<>> /\ t = pipe
  <2> SUFFICES ASSUME k < Cap PROVE r = <<>> /\ t = pipe
    OBVIOUS
  <2>1. k = n
    BY <1>2
  <2> HIDE DEF k
  <2> QED
    BY <1>1, <1>3, <2>1
<1> HIDE DEF t, r, k
<1>7. Shapes'
  BY <1>1, <1>3, <1>4 DEF Shapes
<1>8. ASSUME NEW d \in Clients PROVE WriterOK(d)' /\ PendingOK(d)'
  <2>1. WriterOK(d) /\ PendingOK(d)
    BY DEF StreamInv
  <2> QED
    BY <1>4, <2>1, SameClient, SamePending
<1>9. Ordered(pipe)' /\ (Len(got) < Cap => BeginsWhole(pipe))'
  <2>1. k < Cap => BeginsWhole(r)
    BY <1>6 DEF BeginsWhole
  <2> QED
    BY <1>3, <1>4, <1>5, <2>1, SameLengths
<1>10. StreamInv'
  <2>1. Len(pipe)' <= PipeCap /\ Len(got)' <= Cap /\ before' <= Cap
    BY <1>1, <1>2, <1>3, <1>4, SizesAssumption
  <2> QED
    BY <1>7, <1>8, <1>9, <2>1 DEF StreamInv
<1>11. ReadsWholeLines'
  <2>1. SUFFICES ASSUME t # <<>>, k < Cap, Len(got) < Cap,
                        \A i \in 1..k : Short(t[i][1])
                 PROVE  /\ First(t[1]) /\ Last(t[Len(t)])
                        /\ \A i \in 1..(Len(t) - 1) : Follows(t[i], t[i + 1])
    BY <1>3, <1>4, SMTT(20) DEF ReadsWholeLines, Short, First, Last, Follows, After, CmdSize
  <2>2. t = pipe /\ Ordered(pipe) /\ BeginsWhole(pipe) /\ Len(pipe) = k
    BY <1>1, <1>3, <1>6, <2>1
  <2> QED
    BY <1>3, <2>1, <2>2, WholeLines
<1> QED
  BY <1>10, <1>11

LEMMA BreaksDownKeepsInv ==
    ASSUME StreamInv, BreaksDown
    PROVE  StreamInv'
<1>1. /\ Shapes /\ pipe' = <<>> /\ up' = FALSE
      /\ UNCHANGED <<len, cpc, wbuf, wacc, pending, atomic, got, before>>
  BY DEF StreamInv, BreaksDown
<1>2. Shapes'
  <2>1. <<>> \in Seq(Byte) /\ FALSE \in BOOLEAN
    OBVIOUS
  <2> QED
    BY <1>1, <2>1, Zenon DEF Shapes
<1>3. ASSUME NEW d \in Clients PROVE WriterOK(d)' /\ PendingOK(d)'
  <2>1. WriterOK(d) /\ PendingOK(d)
    BY DEF StreamInv
  <2> QED
    BY <1>1, <2>1, SameClient, SamePending
<1>4. Ordered(pipe') /\ BeginsWhole(pipe')
  BY <1>1 DEF Ordered, OfBytes, Forwards, Backwards, BeginsWhole
<1>5. Ordered(pipe)' /\ (Len(got) < Cap => BeginsWhole(pipe))'
  BY <1>1, <1>4, SameLengths
<1>6. Len(pipe)' <= PipeCap
  BY <1>1, SizesAssumption
<1> QED
  BY <1>1, <1>2, <1>3, <1>5, <1>6 DEF StreamInv

LEMMA InitInv ==
    ASSUME Init
    PROVE  StreamInv /\ ReadsWholeLines
<1>1. Shapes
  <2>1. <<>> \in Seq(Byte) /\ <<>> \in Seq(Nat)
    OBVIOUS
  <2>2. len \in [Clients -> Nat]
    BY LengthsAssumption DEF Init
  <2> QED
    BY <2>1, <2>2 DEF Init, Shapes
<1>2. ASSUME NEW c \in Clients PROVE WriterOK(c) /\ PendingOK(c)
  <2>1. /\ cpc[c] = "letter" /\ wbuf[c] = <<>> /\ wacc[c] = 0 /\ pending[c] = <<>>
        /\ atomic[c] /\ len[c] \in Nat
    BY <1>1 DEF Init, Shapes
  <2> QED
    BY <2>1, SizesAssumption DEF WriterOK, PendingOK, CmdSize
<1>3. Ordered(pipe) /\ BeginsWhole(pipe)
  BY DEF Init, Ordered, OfBytes, Forwards, Backwards, BeginsWhole
<1>4. Len(pipe) <= PipeCap /\ Len(got) <= Cap /\ before <= Cap /\ ReadsWholeLines
  BY SizesAssumption DEF Init, ReadsWholeLines
<1> QED
  BY <1>1, <1>2, <1>3, <1>4 DEF StreamInv

(* Only a read changes what was read.                                      *)
LEMMA SameReads ==
    ASSUME UNCHANGED <<len, got, before>>, ReadsWholeLines
    PROVE  ReadsWholeLines'
BY DEF ReadsWholeLines, Short, First, Last, Follows, After, CmdSize

LEMMA StepKeepsInv ==
    ASSUME StreamInv, ReadsWholeLines, [Next]_vars
    PROVE  StreamInv' /\ ReadsWholeLines'
<1>1. ASSUME NEW c \in Clients, PutLetter(c) PROVE StreamInv' /\ UNCHANGED <<len, got, before>>
  BY <1>1, LetterCall, CallKeepsInv DEF PutLetter, Does
<1>2. ASSUME NEW c \in Clients, PutArgument(c) PROVE StreamInv' /\ UNCHANGED <<len, got, before>>
  BY <1>2, ArgumentCall, CallKeepsInv DEF PutArgument, Does
<1>3. ASSUME NEW c \in Clients, Flush(c) PROVE StreamInv' /\ UNCHANGED <<len, got, before>>
  BY <1>3, FlushCall, CallKeepsInv DEF Flush, Does
<1>4. ASSUME NEW c \in Clients, Drop(c) PROVE StreamInv' /\ UNCHANGED <<len, got, before>>
  BY <1>4, FlushCall, CallKeepsInv DEF Drop, Does
<1>5. ASSUME NEW c \in Clients, Transfer(c) PROVE StreamInv' /\ UNCHANGED <<len, got, before>>
  BY <1>5, TransferKeepsInv DEF Transfer
<1>6. ASSUME NEW c \in Clients, Killed(c) PROVE StreamInv' /\ UNCHANGED <<len, got, before>>
  BY <1>6, KilledKeepsInv DEF Killed
<1>7. CASE Read
  BY <1>7, ReadKeepsInv
<1>8. CASE BreaksDown
  BY <1>8, BreaksDownKeepsInv, SameReads DEF BreaksDown
<1>9. CASE UNCHANGED vars
  <2>1. UNCHANGED <<len, cpc, wbuf, wacc, pending, atomic, pipe, got, before, up>>
    BY <1>9 DEF vars
  <2>2. ASSUME NEW d \in Clients PROVE WriterOK(d)' /\ PendingOK(d)'
    <3>1. WriterOK(d) /\ PendingOK(d)
      BY DEF StreamInv
    <3> QED
      BY <2>1, <3>1, SameClient, SamePending
  <2>3. Ordered(pipe)' /\ (Len(got) < Cap => BeginsWhole(pipe))'
    BY <2>1, SameLengths DEF StreamInv
  <2>4. Shapes'
    BY <2>1 DEF StreamInv, Shapes
  <2> QED
    BY <2>1, <2>2, <2>3, <2>4, SameReads DEF StreamInv
<1> QED
  BY <1>1, <1>2, <1>3, <1>4, <1>5, <1>6, <1>7, <1>8, <1>9, SameReads DEF Next, ClientStep

LEMMA InvHolds == Spec => [](StreamInv /\ ReadsWholeLines)
<1>1. StreamInv /\ ReadsWholeLines /\ [Next]_vars => (StreamInv /\ ReadsWholeLines)'
  BY StepKeepsInv
<1> QED
  BY <1>1, InitInv, PTL DEF Spec

-----------------------------------------------------------------------------
(* The variables have their types, and neither buffer ever holds more than *)
(* it has room for: of a command of any length (buf_writer.c, server.c).   *)
THEOREM TypeCorrect == Spec => []TypeOK
<1>1. StreamInv => TypeOK
  <2> SUFFICES ASSUME StreamInv PROVE TypeOK
    OBVIOUS
  <2>1. Shapes /\ Len(pipe) <= PipeCap /\ Len(got) <= Cap /\ before <= Cap /\ OfBytes(pipe)
    BY DEF StreamInv, Ordered
  <2>4. atomic \in [Clients -> BOOLEAN]
    BY <2>1, Zenon DEF Shapes
  <2>2. \A i \in DOMAIN pipe : IsByte(pipe[i])
    <3>1. pipe \in Seq(Byte)
      BY <2>1, Zenon DEF Shapes
    <3> QED
      BY <2>1, <3>1 DEF OfBytes
  <2>3. ASSUME NEW c \in Clients
        PROVE  /\ cpc[c] \in {"letter", "line", "flush", "drop", "done", "killed"}
               /\ \A i \in DOMAIN wbuf[c] : wbuf[c][i] \in 1..wacc[c]
               /\ \A i \in DOMAIN pending[c] : IsByte(pending[c][i])
               /\ Len(wbuf[c]) <= Cap /\ wacc[c] <= CmdSize(c)
    <3>1. /\ cpc[c] \in {"letter", "line", "flush", "drop", "done", "killed"}
          /\ DOMAIN wbuf[c] = 1..Len(wbuf[c]) /\ DOMAIN pending[c] = 1..Len(pending[c])
      BY <2>1 DEF Shapes
    <3>2. WriterOK(c) /\ PendingOK(c)
      BY DEF StreamInv
    <3> QED
      BY <3>1, <3>2 DEF WriterOK, PendingOK
  <2> QED
    BY <2>1, <2>2, <2>3, <2>4 DEF TypeOK
<1> QED
  BY <1>1, InvHolds, PTL

(* A command of up to PIPE_BUF bytes stays whole in the pipe, however many *)
(* clients write and whatever else they write (client.c:48-88).            *)
THEOREM LinesStayWhole == Spec => []LinesWhole
<1>1. StreamInv => LinesWhole
  <2> SUFFICES ASSUME StreamInv PROVE LinesWhole
    OBVIOUS
  <2>1. pipe \in Seq(Byte) /\ Forwards(pipe)
    BY DEF StreamInv, Shapes, Ordered
  <2> QED
    BY <2>1 DEF Forwards, LinesWhole
<1> QED
  BY <1>1, InvHolds, PTL

(* As long as reads are not full and commands not longer than PIPE_BUF,    *)
(* each read returns whole commands (server.c:238-252).                    *)
THEOREM ReadsCorrect == Spec => []ReadsWholeLines
BY InvHolds, PTL
=============================================================================
