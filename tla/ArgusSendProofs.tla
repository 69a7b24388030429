-------------------------- MODULE ArgusSendProofs ---------------------------
(***************************************************************************)
(* Proof that an invocation is dispatched at most twice, for any number of *)
(* clients and any behaviour of server, shells and pipes.  The lines of a  *)
(* client are counted: those dispatched and those queued together are      *)
(* never more than the flushes it has made.                                *)
(***************************************************************************)
EXTENDS ArgusProofs, FiniteSetTheorems

Queue == fifo["commands"].data
Of(c, s) == {i \in DOMAIN s : s[i].by = c}
Queued(c) == Cardinality(Of(c, Queue))
Said(c) == hits[c] + Queued(c)

(* A command of the command line before its flush, and after it.           *)
Unsent == {"start", "commands"}
SentOnce == {"reply", "running", "finished", "reading", "exit"}

OwnLines(c) == \A i \in DOMAIN wbuf[c] : wbuf[c][i].by = c

SendCount(c) ==
    /\ Said(c) <= 2
    /\ cpc[c] \in Unsent => wbuf[c] = <<>> /\ Said(c) = 0
    /\ cpc[c] \in SentOnce => Len(wbuf[c]) = 1 /\ Said(c) <= 1
    /\ cpc[c] # "prompt"

SendInv == \A c \in Clients : OwnLines(c) /\ (CLI(c) => SendCount(c))

-----------------------------------------------------------------------------
(* Counting lines.                                                         *)

LEMMA OfIsFinite ==
    ASSUME NEW s \in Seq(Lines), NEW c
    PROVE  IsFiniteSet(Of(c, s)) /\ Cardinality(Of(c, s)) \in Nat
<1>1. Len(s) \in Nat /\ DOMAIN s = 1..Len(s)
  OBVIOUS
<1>2. IsFiniteSet(1..Len(s))
  BY <1>1, FS_Interval
<1>3. Of(c, s) \in SUBSET (1..Len(s))
  BY <1>1 DEF Of
<1>4. IsFiniteSet(Of(c, s))
  BY <1>2, <1>3, FS_Subset
<1> QED
  BY <1>4, FS_CardinalityType

LEMMA OfNothing == \A c : Cardinality(Of(c, <<>>)) = 0
<1>1. \A c : Of(c, <<>>) = {}
  BY DEF Of
<1> QED
  BY <1>1, FS_EmptySet

(* Lines of others do not count, one of one's own counts once.             *)
LEMMA OfConcat ==
    ASSUME NEW s \in Seq(Lines), NEW t \in Seq(Lines), NEW c,
           \A i \in DOMAIN t : t[i].by = c
    PROVE  /\ \A d : d # c => Of(d, s \o t) = Of(d, s)
           /\ Len(t) = 1 => Of(c, s \o t) = Of(c, s) \cup {Len(s) + 1}
<1> DEFINE u == s \o t
<1>1. /\ Len(s) \in Nat /\ Len(t) \in Nat
      /\ DOMAIN s = 1..Len(s) /\ DOMAIN t = 1..Len(t)
      /\ DOMAIN u = 1..(Len(s) + Len(t))
  OBVIOUS
<1>2. ASSUME NEW i \in 1..Len(s) PROVE u[i] = s[i]
  BY <1>1
<1>3. ASSUME NEW i \in 1..(Len(s) + Len(t)), ~(i <= Len(s)) PROVE u[i].by = c
  <2>1. u[i] = t[i - Len(s)] /\ i - Len(s) \in 1..Len(t)
    BY <1>1, <1>3
  <2> QED
    BY <1>1, <2>1
<1> HIDE DEF u
<1>4. \A i \in 1..(Len(s) + Len(t)) : i \in 1..Len(s) \/ ~(i <= Len(s))
  BY <1>1
<1>5. \A i \in 1..Len(s) : i \in 1..(Len(s) + Len(t))
  BY <1>1
<1>6. ASSUME NEW d, d # c PROVE Of(d, u) = Of(d, s)
  BY <1>1, <1>2, <1>3, <1>4, <1>5, <1>6 DEF Of
<1>7. ASSUME Len(t) = 1 PROVE Of(c, u) = Of(c, s) \cup {Len(s) + 1}
  <2>1. /\ \A i \in 1..(Len(s) + Len(t)) : i \in 1..Len(s) \/ i = Len(s) + 1
        /\ Len(s) + 1 \in 1..(Len(s) + Len(t)) /\ ~(Len(s) + 1 <= Len(s))
    BY <1>1, <1>7
  <2>2. u[Len(s) + 1].by = c
    BY <1>3, <2>1
  <2> QED
    BY <1>1, <1>2, <1>5, <2>1, <2>2 DEF Of
<1> QED
  BY <1>6, <1>7 DEF u

(* What is left behind the first k lines, and the first of them.           *)
LEMMA OfRest ==
    ASSUME NEW s \in Seq(Lines), NEW k \in 1..Len(s), NEW c
    PROVE  LET r == SubSeq(s, k + 1, Len(s)) IN
           Cardinality(Of(c, r)) + (IF s[1].by = c THEN 1 ELSE 0)
              <= Cardinality(Of(c, s))
<1> DEFINE r == SubSeq(s, k + 1, Len(s))
           others == Of(c, s) \ {1}
           f == [i \in Of(c, r) |-> i + k]
<1>1. /\ Len(s) \in Nat /\ k \in Nat /\ k >= 1 /\ DOMAIN s = 1..Len(s)
      /\ r \in Seq(Lines) /\ DOMAIN r = 1..(Len(s) - k)
  OBVIOUS
<1>2. \A i \in 1..(Len(s) - k) : r[i] = s[i + k]
  BY <1>1
<1> HIDE DEF r
<1>3. \A i \in Of(c, r) : i \in Nat /\ i + k \in others
  <2> SUFFICES ASSUME NEW i \in Of(c, r) PROVE i \in Nat /\ i + k \in others
    OBVIOUS
  <2>1. i \in 1..(Len(s) - k) /\ r[i].by = c
    BY <1>1 DEF Of
  <2>2. i + k \in 1..Len(s) /\ i + k # 1 /\ i \in Nat
    BY <1>1, <2>1
  <2>3. s[i + k].by = c
    BY <1>2, <2>1
  <2> QED
    BY <1>1, <2>2, <2>3 DEF Of
<1>4. IsFiniteSet(Of(c, s)) /\ IsFiniteSet(others)
      /\ Cardinality(Of(c, s)) \in Nat
  BY OfIsFinite, FS_RemoveElement
<1>5. f \in Injection(Of(c, r), others)
  <2>1. f \in [Of(c, r) -> others]
    BY <1>3
  <2>2. \A i, j \in Of(c, r) : f[i] = f[j] => i = j
    BY <1>1, <1>3
  <2> HIDE DEF f
  <2> QED
    BY <2>1, <2>2 DEF Injection, IsInjective
<1> HIDE DEF f
<1>6. Cardinality(Of(c, r)) <= Cardinality(others)
  BY <1>4, <1>5, FS_Injection
<1>7. Cardinality(others)
        = IF 1 \in Of(c, s) THEN Cardinality(Of(c, s)) - 1 ELSE Cardinality(Of(c, s))
  BY <1>4, FS_RemoveElement
<1>8. 1 \in Of(c, s) <=> s[1].by = c
  BY <1>1 DEF Of
<1>9. Cardinality(Of(c, r)) \in Nat
  BY <1>1, OfIsFinite
<1> HIDE DEF others
<1>10. Cardinality(Of(c, r)) + (IF s[1].by = c THEN 1 ELSE 0) <= Cardinality(Of(c, s))
  BY <1>4, <1>6, <1>7, <1>8, <1>9
<1> QED
  BY <1>10 DEF r
-----------------------------------------------------------------------------
(* The queue of commands through a step.                                   *)

LEMMA QueueTyped ==
    ASSUME TypeOK
    PROVE  /\ Queue \in Seq(Lines) /\ hits \in [Clients -> Nat]
           /\ \A c \in Clients : Queued(c) \in Nat /\ hits[c] \in Nat /\ Said(c) \in Nat
<1>1. Queue \in Seq(Lines) /\ hits \in [Clients -> Nat]
  BY FifoNamesHave DEF TypeOK, FifoType, ServerType, Queue
<1>2. \A c \in Clients : Queued(c) \in Nat
  BY <1>1, OfIsFinite DEF Queued
<1> QED
  BY <1>1, <1>2 DEF Said

(* The queue may be lost as a whole.                                       *)
LEMMA QueueLost ==
    ASSUME TypeOK, Queue' \in {Queue, <<>>}, hits' = hits, NEW c \in Clients
    PROVE  Said(c)' \in Nat /\ Said(c)' <= Said(c)
<1>1. Queued(c) \in Nat /\ hits[c] \in Nat /\ Queue \in Seq(Lines)
  BY QueueTyped
<1>2. Queued(c)' = Queued(c) \/ Queued(c)' = 0
  BY OfNothing DEF Queued
<1> QED
  BY <1>1, <1>2 DEF Said

(* A client adds lines of its own, or the queue is lost with its end.      *)
LEMMA OfGrows ==
    ASSUME NEW s \in Seq(Lines), NEW t \in Seq(Lines), NEW c,
           \A i \in DOMAIN t : t[i].by = c, NEW u \in {s \o t, <<>>}
    PROVE  /\ \A d : d # c => Cardinality(Of(d, u)) \in {Cardinality(Of(d, s)), 0}
           /\ Len(t) = 1 => /\ Cardinality(Of(c, u)) \in Nat
                            /\ Cardinality(Of(c, u)) <= Cardinality(Of(c, s)) + 1
<1>1. \A d : IsFiniteSet(Of(d, s)) /\ Cardinality(Of(d, s)) \in Nat
  BY OfIsFinite
<1>2. CASE u = <<>>
  BY <1>1, <1>2, OfNothing
<1>3. CASE u = s \o t
  <2>1. \A d : d # c => Of(d, s \o t) = Of(d, s)
    BY OfConcat
  <2>2. ASSUME Len(t) = 1
        PROVE  Cardinality(Of(c, s \o t)) \in {Cardinality(Of(c, s)),
                                               Cardinality(Of(c, s)) + 1}
    <3>1. Of(c, s \o t) = Of(c, s) \cup {Len(s) + 1}
      BY <2>2, OfConcat
    <3> QED
      BY <1>1, <3>1, FS_AddElement
  <2> QED
    BY <1>1, <1>3, <2>1, <2>2
<1> QED
  BY <1>2, <1>3

LEMMA QueueGrows ==
    ASSUME TypeOK, NEW c \in Clients, NEW t \in Seq(Lines),
           \A i \in DOMAIN t : t[i].by = c,
           Queue' \in {Queue \o t, <<>>}, hits' = hits
    PROVE  /\ \A d \in Clients \ {c} : Said(d)' \in Nat /\ Said(d)' <= Said(d)
           /\ Len(t) = 1 => Said(c)' \in Nat /\ Said(c)' <= Said(c) + 1
<1>1. /\ Queue \in Seq(Lines)
      /\ \A d \in Clients : Queued(d) \in Nat /\ hits[d] \in Nat
  BY QueueTyped
<1>2. /\ \A d : d # c => Cardinality(Of(d, Queue')) \in {Cardinality(Of(d, Queue)), 0}
      /\ Len(t) = 1 => /\ Cardinality(Of(c, Queue')) \in Nat
                       /\ Cardinality(Of(c, Queue')) <= Cardinality(Of(c, Queue)) + 1
  BY <1>1, OfGrows, Zenon
<1>3. \A d \in Clients \ {c} : Queued(d)' = Queued(d) \/ Queued(d)' = 0
  BY <1>2 DEF Queued
<1>4. Len(t) = 1 => Queued(c)' \in Nat /\ Queued(c)' <= Queued(c) + 1
  BY <1>2 DEF Queued
<1> QED
  BY <1>1, <1>3, <1>4, SMTT(20) DEF Said

(* What is dispatched was queued.                                          *)
LEMMA QueueRead ==
    ASSUME TypeOK, SrvRead, NEW c \in Clients
    PROVE  Said(c)' \in Nat /\ Said(c)' <= Said(c)
<1> DEFINE k == IF Len(Queue) < ReadMax THEN Len(Queue) ELSE ReadMax
           rest == SubSeq(Queue, k + 1, Len(Queue))
           one == IF Queue[1].by = c THEN 1 ELSE 0
<1>1. /\ Queue \in Seq(Lines) /\ Queue # <<>> /\ hits \in [Clients -> Nat]
      /\ Queued(c) \in Nat /\ hits[c] \in Nat
  BY QueueTyped DEF SrvRead, Queue
<1>2. k \in 1..Len(Queue) /\ Head(Queue) = Queue[1]
  BY <1>1, ReadMaxAssumption
<1>3. Queue' = rest
  BY FifoNamesHave DEF SrvRead, Queue, TypeOK, FifoType, Drop
<1>4. hits' = [hits EXCEPT ![Queue[1].by] = @ + 1]
  BY <1>2 DEF SrvRead, Queue
<1>5. rest \in Seq(Lines) /\ Cardinality(Of(c, rest)) \in Nat
  <2>1. rest \in Seq(Lines)
    BY <1>1, <1>2
  <2> HIDE DEF rest
  <2> QED
    BY <2>1, OfIsFinite
<1>6. Cardinality(Of(c, rest)) + one <= Cardinality(Of(c, Queue))
  <2> HIDE DEF k
  <2> QED
    BY <1>1, <1>2, OfRest
<1> HIDE DEF rest, k
<1>7. Queued(c)' \in Nat /\ Queued(c)' + one <= Queued(c)
  BY <1>3, <1>5, <1>6 DEF Queued
<1>8. hits'[c] = hits[c] + one
  BY <1>1, <1>4
<1> QED
  BY <1>1, <1>7, <1>8 DEF Said

-----------------------------------------------------------------------------
(* The steps.                                                              *)

(* Whatever the server does, it never adds to what was said.               *)
LEMMA ServerKeepsCount ==
    ASSUME TypeOK, SendInv, UNCHANGED clientVars,
           \A c \in Clients : Said(c)' \in Nat /\ Said(c)' <= Said(c)
    PROVE  SendInv'
<1>1. cpc' = cpc /\ job' = job /\ wbuf' = wbuf
  BY DEF clientVars
<1>2. \A c \in Clients : Said(c) \in Nat
  BY QueueTyped
<1>3. ASSUME NEW c \in Clients
      PROVE  OwnLines(c)' /\ (CLI(c)' => SendCount(c)')
  <2>1. OwnLines(c)'
    BY <1>1 DEF SendInv, OwnLines
  <2>2. ASSUME CLI(c)' PROVE SendCount(c)'
    <3>1. SendCount(c)
      BY <1>1, <2>2 DEF SendInv, CLI, Shell
    <3>2. /\ Said(c) <= 2 => Said(c)' <= 2
          /\ Said(c) = 0 => Said(c)' = 0
          /\ Said(c) <= 1 => Said(c)' <= 1
      BY <1>2
    <3> QED
      BY <1>1, <3>1, <3>2 DEF SendCount
  <2> QED
    BY <2>1, <2>2
<1> QED
  BY <1>3 DEF SendInv

(* The kinds of steps of a client started with a command: it ends, goes on *)
(* before its flush or after it, flushes, or leaves.  t are the lines it   *)
(* sends.                                                                  *)
Ends(c, t) == t = <<>> /\ cpc'[c] \in EndStates
GoesOn(c, t) ==
    /\ t = <<>> /\ wbuf'[c] = wbuf[c]
    /\ \/ cpc[c] \in Unsent /\ cpc'[c] \in Unsent
       \/ cpc[c] \in SentOnce /\ cpc'[c] \in SentOnce
Flushes(c, t) ==
    Len(t) = 1 /\ cpc[c] \in Unsent /\ cpc'[c] \in SentOnce /\ Len(wbuf'[c]) = 1
Leaves(c, t) == Len(t) = 1 /\ cpc[c] \in SentOnce /\ cpc'[c] \in EndStates

LEMMA ClientKeepsCount ==
    ASSUME TypeOK, SendInv, NEW c \in Clients, NEW t \in Seq(Lines),
           \A i \in DOMAIN t : t[i].by = c,
           Queue' \in {Queue \o t, <<>>}, UNCHANGED <<hits, job>>,
           \A d \in Clients \ {c} : cpc'[d] = cpc[d] /\ wbuf'[d] = wbuf[d],
           OwnLines(c)',
           CLI(c) => Ends(c, t) \/ GoesOn(c, t) \/ Flushes(c, t) \/ Leaves(c, t)
    PROVE  SendInv'
<1>1. \A d \in Clients : Said(d) \in Nat
  BY QueueTyped
<1>2. ASSUME NEW d \in Clients \ {c}
      PROVE  OwnLines(d)' /\ (CLI(d)' => SendCount(d)')
  <2>1. cpc'[d] = cpc[d] /\ wbuf'[d] = wbuf[d]
    OBVIOUS
  <2>2. Said(d)' \in Nat /\ Said(d)' <= Said(d) /\ Said(d) \in Nat
    BY <1>1, QueueGrows
  <2>3. OwnLines(d)'
    BY <2>1 DEF SendInv, OwnLines
  <2>4. ASSUME CLI(d)' PROVE SendCount(d)'
    <3>1. SendCount(d)
      BY <2>4 DEF SendInv, CLI, Shell
    <3>2. /\ Said(d) <= 2 => Said(d)' <= 2
          /\ Said(d) = 0 => Said(d)' = 0
          /\ Said(d) <= 1 => Said(d)' <= 1
      BY <2>2
    <3> QED
      BY <2>1, <3>1, <3>2 DEF SendCount
  <2> QED
    BY <2>3, <2>4
<1>3. ASSUME CLI(c)' PROVE SendCount(c)'
  <2>1. SendCount(c) /\ Said(c) \in Nat
        /\ (Ends(c, t) \/ GoesOn(c, t) \/ Flushes(c, t) \/ Leaves(c, t))
    BY <1>1, <1>3 DEF SendInv, CLI, Shell
  <2>2. ASSUME t = <<>> PROVE Said(c)' \in Nat /\ Said(c)' <= Said(c)
    <3>1. Queue \in Seq(Lines) /\ Queue \o <<>> = Queue
      BY QueueTyped
    <3> QED
      BY <2>2, <3>1, QueueLost
  <2>3. ASSUME Len(t) = 1 PROVE Said(c)' \in Nat /\ Said(c)' <= Said(c) + 1
    BY <2>3, QueueGrows
  <2>4. CASE Ends(c, t)
    <3>1. Said(c)' <= 2
      BY <2>1, <2>2, <2>4 DEF Ends, SendCount
    <3> QED
      BY <2>4, <3>1 DEF Ends, EndStates, SendCount, Unsent, SentOnce
  <2>5. CASE GoesOn(c, t)
    <3>1. /\ Said(c) <= 2 => Said(c)' <= 2
          /\ Said(c) = 0 => Said(c)' = 0
          /\ Said(c) <= 1 => Said(c)' <= 1
      BY <2>1, <2>2, <2>5 DEF GoesOn
    <3> QED
      BY <2>1, <2>5, <3>1 DEF GoesOn, SendCount, Unsent, SentOnce
  <2>6. CASE Flushes(c, t)
    <3>1. Said(c)' <= 1 /\ Said(c)' <= 2
      BY <2>1, <2>3, <2>6 DEF Flushes, SendCount
    <3> QED
      BY <2>6, <3>1 DEF Flushes, SendCount, Unsent, SentOnce
  <2>7. CASE Leaves(c, t)
    <3>1. Said(c)' <= 2
      BY <2>1, <2>3, <2>7 DEF Leaves, SendCount
    <3> QED
      BY <2>7, <3>1 DEF Leaves, EndStates, SendCount, Unsent, SentOnce
  <2> QED
    BY <2>1, <2>4, <2>5, <2>6, <2>7
<1> QED
  BY <1>2, <1>3 DEF SendInv

-----------------------------------------------------------------------------
(* What the operations on the pipes do to the queue of commands.           *)

LEMMA DataKept ==
    ASSUME TypeOK, NEW f \in FifoNames, NEW p
    PROVE  /\ OpenForRead(fifo[f], p).data = fifo[f].data
           /\ OpenForWrite(fifo[f], p).data = fifo[f].data
           /\ \A q : Inherit(fifo[f], p, q).data = fifo[f].data
           /\ Close(fifo[f], p).data \in {fifo[f].data, <<>>}
           /\ \A s : /\ Put(fifo[f], s).data = fifo[f].data \o s
                     /\ Close(Put(fifo[f], s), p).data \in {fifo[f].data \o s, <<>>}
<1>1. fifo[f] \in Pipe
  BY FifoTyped DEF TypeOK
<1> QED
  BY <1>1 DEF Pipe, OpenForRead, OpenForWrite, Inherit, Close, Put

(* A change of one pipe that leaves its data alone, as an open does.       *)
LEMMA SameDataKeepsQueue ==
    ASSUME TypeOK, NEW f \in FifoNames, NEW x, x.data = fifo[f].data,
           fifo' = [fifo EXCEPT ![f] = x]
    PROVE  Queue' = Queue
<1>1. fifo \in [FifoNames -> Pipe]
  BY FifoTyped DEF TypeOK
<1> QED
  BY <1>1, FifoNamesHave DEF Queue

LEMMA WithoutProcessQueue ==
    ASSUME TypeOK, NEW p, fifo' = WithoutProcess(p)
    PROVE  Queue' \in {Queue, <<>>}
BY DataKept, FifoNamesHave DEF Queue, WithoutProcess

LEMMA WithForkQueue ==
    ASSUME TypeOK, NEW p, NEW q, fifo' = WithFork(p, q)
    PROVE  Queue' = Queue
BY DataKept, FifoNamesHave DEF Queue, WithFork

(* The server closes its end, after a fork or without one.                 *)
LEMMA CloseQueue ==
    ASSUME TypeOK, NEW p, fifo' = [f \in FifoNames |-> Close(fifo[f], p)]
    PROVE  Queue' \in {Queue, <<>>}
BY DataKept, FifoNamesHave DEF Queue

LEMMA CloseForkQueue ==
    ASSUME TypeOK, NEW p, NEW q,
           fifo' = [f \in FifoNames |-> Close(WithFork(p, q)[f], p)]
    PROVE  Queue' \in {Queue, <<>>}
<1>1. fifo["commands"] \in Pipe
  BY FifoTyped, FifoNamesHave DEF TypeOK
<1>2. Queue' = Close(Inherit(fifo["commands"], p, q), p).data
  BY FifoNamesHave DEF Queue, WithFork
<1> QED
  BY <1>1, <1>2 DEF Queue, Pipe, Inherit, Close

-----------------------------------------------------------------------------
(* The server and its children.                                            *)

LEMMA ServerSaysNothing ==
    ASSUME TypeOK, ServerNext
    PROVE  \A c \in Clients : Said(c)' \in Nat /\ Said(c)' <= Said(c)
<1>1. CASE SrvRead
  BY <1>1, QueueRead
<1>2. ASSUME Queue' \in {Queue, <<>>}, hits' = hits
      PROVE  \A c \in Clients : Said(c)' \in Nat /\ Said(c)' <= Said(c)
  BY <1>2, QueueLost
<1>3. ASSUME UNCHANGED fifo PROVE Queue' = Queue
  BY <1>3 DEF Queue
<1>4. ASSUME ServerEnds PROVE Queue' \in {Queue, <<>>} /\ hits' = hits
  BY <1>4, CloseQueue DEF ServerEnds, EndsWith
<1>5. ASSUME NEW f \in FifoNames, fifo' = [fifo EXCEPT ![f] = ServerOpen(f)]
      PROVE  Queue' = Queue
  <2>1. ServerOpen(f).data = fifo[f].data
    BY DataKept DEF ServerOpen
  <2> QED
    BY <1>5, <2>1, SameDataKeepsQueue
<1>6. CASE SrvBoot
  <2>1. hits' = hits /\ fifo' = [fifo EXCEPT !["commands"] = ServerOpen("commands")]
    BY <1>6 DEF SrvBoot, OpenOrder
  <2>2. Queue' = Queue
    BY <1>5, <2>1, FifoNamesHave
  <2> QED
    BY <1>2, <2>1, <2>2
<1>7. CASE SrvOpened
  <2>1. hits' = hits
    BY <1>7 DEF SrvOpened
  <2>2. Queue' = Queue
    BY <1>3, <1>5, <1>7 DEF SrvOpened
  <2> QED
    BY <1>2, <2>1, <2>2
<1>8. CASE SrvReadEof
  BY <1>2, <1>3, <1>8 DEF SrvReadEof, fifoVars, serverVars
<1>9. CASE Failure
  <2>1. CASE ServerEnds
    BY <1>2, <1>4, <2>1
  <2>2. CASE ExecTaskPushFails
    <3>1. PICK q : EndsWith(WithFork(Server, q), Append(procs, "forked"))
      BY <2>2 DEF ExecTaskPushFails
    <3>2. Queue' \in {Queue, <<>>} /\ hits' = hits
      BY <3>1, CloseForkQueue DEF EndsWith
    <3> QED
      BY <1>2, <3>2
  <2> QED
    BY <1>9, <2>1, <2>2 DEF Failure, SrvStop, SrvStartFails, SrvReadFails,
                            SrvReadOverruns, ExecTaskForkFails
<1>10. CASE ChildStep
  <2>1. PICK p \in Pids : ChildSetsid(p) \/ ChildEnds(p)
    BY <1>10 DEF ChildStep
  <2>2. Queue' \in {Queue, <<>>} /\ hits' = hits
    BY <1>3, <2>1, WithoutProcessQueue DEF ChildSetsid, ChildEnds, fifoVars
  <2> QED
    BY <1>2, <2>2
<1>11. CASE Dispatch
  <2>1. CASE ExecTask
    BY <1>2, <2>1, WithForkQueue DEF ExecTask
  <2>2. CASE EndTaskFault \/ EndTaskKillFails \/ ListRunningFails
    BY <1>2, <1>4, <2>2 DEF EndTaskFault, EndTaskKillFails, ListRunningFails
  <2>3. CASE EndTaskIgnored \/ EndTaskKill \/ NoEffect \/ ListRunning
    BY <1>2, <1>3, <2>3
    DEF EndTaskIgnored, EndTaskKill, NoEffect, ListRunning, Continue, fifoVars
  <2> QED
    BY <1>11, <2>1, <2>2, <2>3 DEF Dispatch
<1> QED
  BY <1>1, <1>6, <1>7, <1>8, <1>9, <1>10, <1>11 DEF ServerNext, ServerStep

-----------------------------------------------------------------------------
(* The clients.                                                            *)

LEMMA NewLineOwn ==
    ASSUME TypeOK, NEW c \in Clients, OwnLines(c), NEW flag \in Flags
    PROVE  LET lines == Append(wbuf[c], NewLine(c, flag, job[c].arg)) IN
           /\ lines \in Seq(Lines) /\ Len(lines) = Len(wbuf[c]) + 1
           /\ \A i \in DOMAIN lines : lines[i].by = c
<1> DEFINE new == NewLine(c, flag, job[c].arg)
<1>1. wbuf[c] \in Seq(Lines)
  BY DEF TypeOK, ClientType
<1>2. Append(wbuf[c], new) \in Seq(Lines)
  BY NewLineType DEF TypeOK
<1>3. new.by = c
  BY DEF NewLine
<1> HIDE DEF new
<1>4. \A i \in DOMAIN Append(wbuf[c], new) : Append(wbuf[c], new)[i].by = c
  BY <1>1, <1>3 DEF OwnLines
<1>5. Len(Append(wbuf[c], new)) = Len(wbuf[c]) + 1
  BY <1>1
<1> QED
  BY <1>2, <1>4, <1>5 DEF new

(* Steps that leave the buffer of the client alone: what ClientKeepsCount  *)
(* asks of them.                                                           *)
LEMMA QuietStep ==
    ASSUME TypeOK, SendInv, NEW c \in Clients, NEW to,
           Goto(c, to), UNCHANGED <<hits, job, wbuf>>, Queue' \in {Queue, <<>>},
           CLI(c) => \/ to \in EndStates
                     \/ cpc[c] \in Unsent /\ to \in Unsent
                     \/ cpc[c] \in SentOnce /\ to \in SentOnce
    PROVE  SendInv'
<1>1. /\ \A d \in Clients \ {c} : cpc'[d] = cpc[d] /\ wbuf'[d] = wbuf[d]
      /\ cpc'[c] = to /\ wbuf'[c] = wbuf[c]
  BY DEF Goto, TypeOK, ClientType
<1>2. /\ <<>> \in Seq(Lines) /\ \A i \in DOMAIN <<>> : <<>>[i].by = c
      /\ Queue \o <<>> = Queue
  BY QueueTyped
<1>3. OwnLines(c)'
  BY DEF SendInv, OwnLines
<1>4. CLI(c) => Ends(c, <<>>) \/ GoesOn(c, <<>>)
  BY <1>1 DEF Ends, GoesOn
<1> QED
  BY <1>1, <1>2, <1>3, <1>4, ClientKeepsCount

(* A flush, or the exit handler, sends lines of the client's own.          *)
LEMMA SendStep ==
    ASSUME TypeOK, SendInv, NEW c \in Clients, NEW t \in Seq(Lines), NEW to,
           \A i \in DOMAIN t : t[i].by = c,
           NEW lines, \A i \in DOMAIN lines : lines[i].by = c,
           Goto(c, to), wbuf' = [wbuf EXCEPT ![c] = lines], UNCHANGED <<hits, job>>,
           Queue' \in {Queue \o t, <<>>},
           CLI(c) => \/ t = <<>> /\ to \in EndStates
                     \/ /\ Len(t) = 1 /\ Len(lines) = 1
                        /\ cpc[c] \in Unsent /\ to \in SentOnce
                     \/ Len(t) = 1 /\ cpc[c] \in SentOnce /\ to \in EndStates
    PROVE  SendInv'
<1>1. /\ \A d \in Clients \ {c} : cpc'[d] = cpc[d] /\ wbuf'[d] = wbuf[d]
      /\ cpc'[c] = to /\ wbuf'[c] = lines
  BY DEF Goto, TypeOK, ClientType
<1>2. OwnLines(c)'
  BY <1>1 DEF OwnLines
<1>3. CLI(c) => Ends(c, t) \/ Flushes(c, t) \/ Leaves(c, t)
  BY <1>1 DEF Ends, Flushes, Leaves
<1> QED
  BY <1>1, <1>2, <1>3, ClientKeepsCount

(* What Flush does: it ends the client, or sends the lines.                *)
LEMMA FlushQueue ==
    ASSUME TypeOK, NEW c \in Clients, NEW lines \in Seq(Lines), NEW to,
           Flush(c, lines, to)
    PROVE  \/ Goto(c, "killed") /\ Queue' \in {Queue \o <<>>, <<>>}
           \/ Goto(c, to) /\ Queue' \in {Queue \o lines, <<>>}
<1>1. CASE Broken(fifo["commands"])
  <2>1. Queue' \in {Queue, <<>>} /\ Goto(c, "killed")
    BY <1>1, WithoutProcessQueue DEF Flush, ClientEnds
  <2>2. Queue \o <<>> = Queue
    BY QueueTyped
  <2> QED
    BY <2>1, <2>2
<1>2. CASE ~Broken(fifo["commands"])
  <2>1. /\ Goto(c, to)
        /\ fifo' = [fifo EXCEPT !["commands"] = Put(fifo["commands"], lines)]
    BY <1>2 DEF Flush
  <2>2. fifo \in [FifoNames -> Pipe]
    BY FifoTyped DEF TypeOK
  <2>3. Queue' = Put(fifo["commands"], lines).data
    BY <2>1, <2>2, FifoNamesHave DEF Queue
  <2>4. Queue' = Queue \o lines
    BY <2>3, DataKept, FifoNamesHave DEF Queue
  <2> QED
    BY <2>1, <2>4
<1> QED
  BY <1>1, <1>2

(* A client sends its buffer with a new line in it.                        *)
LEMMA FlushStep ==
    ASSUME TypeOK, SendInv, NEW c \in Clients, NEW flag \in Flags, NEW to,
           UNCHANGED <<hits, job>>,
           wbuf' = [wbuf EXCEPT ![c] = Append(wbuf[c], NewLine(c, flag, job[c].arg))],
           Flush(c, Append(wbuf[c], NewLine(c, flag, job[c].arg)), to),
           CLI(c) => cpc[c] \in Unsent /\ to \in SentOnce
    PROVE  SendInv'
<1> DEFINE lines == Append(wbuf[c], NewLine(c, flag, job[c].arg))
<1>1. /\ lines \in Seq(Lines) /\ Len(lines) = Len(wbuf[c]) + 1
      /\ \A i \in DOMAIN lines : lines[i].by = c
  BY NewLineOwn DEF SendInv
<1>2. wbuf' = [wbuf EXCEPT ![c] = lines] /\ Flush(c, lines, to)
  OBVIOUS
<1> HIDE DEF lines
<1>3. CLI(c) => Len(lines) = 1
  BY <1>1 DEF SendInv, SendCount
<1>4. CASE Goto(c, "killed") /\ Queue' \in {Queue \o <<>>, <<>>}
  <2>1. <<>> \in Seq(Lines) /\ \A i \in DOMAIN <<>> : <<>>[i].by = c
    OBVIOUS
  <2> QED
    BY <1>1, <1>2, <1>4, <2>1, SendStep DEF EndStates
<1>5. CASE Goto(c, to) /\ Queue' \in {Queue \o lines, <<>>}
  BY <1>1, <1>2, <1>3, <1>5, SendStep
<1> QED
  BY <1>1, <1>2, <1>4, <1>5, FlushQueue

LEMMA ClientKeepsSendInv ==
    ASSUME TypeOK, SendInv, NEW c \in Clients, ClientNext(c), UNCHANGED serverVars
    PROVE  SendInv'
<1>1. hits' = hits
  BY DEF serverVars
<1>2. ASSUME UNCHANGED fifo PROVE Queue' = Queue
  BY <1>2 DEF Queue
<1>3. ASSUME ClientEnds(c, "killed") PROVE Queue' \in {Queue, <<>>}
  BY <1>3, WithoutProcessQueue DEF ClientEnds
<1>4. CASE ClientOpenFails(c) \/ ClientRefuses(c)
  <2>1. Goto(c, "failed") /\ Queue' = Queue /\ UNCHANGED <<job, wbuf>>
    BY <1>2, <1>4 DEF ClientOpenFails, ClientRefuses, fifoVars
  <2> QED
    BY <1>1, <2>1, QuietStep DEF EndStates
<1>5. CASE ClientOpen(c)
  <2>1. Queue' = Queue
    BY <1>5, DataKept, SameDataKeepsQueue, FifoNamesHave DEF ClientOpen
  <2> QED
    BY <1>1, <1>5, <2>1, QuietStep DEF ClientOpen, Unsent
<1>6. CASE ClientInterrupted(c)
  BY <1>1, <1>3, <1>6, QuietStep DEF ClientInterrupted, ClientEnds, EndStates
<1>7. CASE ShellPrompts(c) \/ ShellQuit(c)
  <2>1. ~CLI(c) /\ Queue' = Queue /\ UNCHANGED <<job, wbuf>>
    BY <1>2, <1>7 DEF ShellPrompts, ShellQuit, CLI, fifoVars
  <2>2. Goto(c, "prompt") \/ Goto(c, "exit")
    BY <1>7 DEF ShellPrompts, ShellQuit
  <2> QED
    BY <1>1, <2>1, <2>2, QuietStep
<1>8. CASE ShellOpened(c)
  <2>1. ~CLI(c) /\ UNCHANGED <<job, wbuf>>
    BY <1>8 DEF ShellOpened, CLI
  <2>2. PICK next \in FifoNames :
            Goto(c, next) /\ fifo' = [fifo EXCEPT ![next] = OpenForRead(fifo[next], c)]
    BY <1>8, FifoNamesHave DEF ShellOpened
  <2>3. Queue' = Queue
    BY <2>2, DataKept, SameDataKeepsQueue
  <2> QED
    BY <1>1, <2>1, <2>2, <2>3, QuietStep
<1>9. CASE CliOpenReply(c)
  <2>1. ReplyPipe(c) \in {"running", "finished"} /\ ReplyPipe(c) \in FifoNames
    BY FifoNamesHave DEF ReplyPipe
  <2>2. Queue' = Queue
    BY <1>9, <2>1, DataKept, SameDataKeepsQueue DEF CliOpenReply
  <2> QED
    BY <1>1, <1>9, <2>1, <2>2, QuietStep DEF CliOpenReply, SentOnce
<1>10. CASE CliReplyOpened(c)
  BY <1>1, <1>2, <1>10, QuietStep DEF CliReplyOpened, SentOnce, fifoVars
<1>11. CASE ReplyEnds(c)
  <2>1. Queue' = Queue /\ UNCHANGED <<job, wbuf>>
    BY <1>2, <1>11 DEF ReplyEnds, fifoVars
  <2>2. \/ Shell(c) /\ Goto(c, "prompt")
        \/ CLI(c) /\ Goto(c, "exit") /\ cpc[c] = "reading"
    BY <1>11 DEF ReplyEnds, Reading, CLI
  <2> QED
    BY <1>1, <2>1, <2>2, QuietStep DEF SentOnce, CLI
<1>12. CASE CliSend(c)
  <2>1. job[c].flag \in Flags /\ UNCHANGED job
    BY <1>12 DEF CliSend, CLI, Shell, TypeOK, ClientType, Jobs
  <2>2. PICK to \in {"reply", "exit"} :
            Flush(c, Append(wbuf[c], NewLine(c, job[c].flag, job[c].arg)), to)
    BY <1>12 DEF CliSend
  <2>3. cpc[c] \in Unsent /\ to \in SentOnce
    BY <1>12 DEF CliSend, Unsent, SentOnce
  <2>4. wbuf' = [wbuf EXCEPT
                   ![c] = Append(wbuf[c], NewLine(c, job[c].flag, job[c].arg))]
    BY <1>12 DEF CliSend
  <2> QED
    BY <1>1, <2>1, <2>2, <2>3, <2>4, FlushStep
<1>13. CASE ShellType(c)
  <2>1. ~CLI(c) /\ UNCHANGED job
    BY <1>13 DEF ShellType, CLI
  <2>2. PICK flag \in Flags :
          \/ UNCHANGED <<cpc, wbuf, fifo>>
          \/ /\ wbuf' = [wbuf EXCEPT
                           ![c] = Append(wbuf[c], NewLine(c, flag, job[c].arg))]
             /\ \E to : Flush(c, Append(wbuf[c], NewLine(c, flag, job[c].arg)), to)
    BY <1>13 DEF ShellType
  <2>3. CASE UNCHANGED <<cpc, wbuf, fifo>>
    <3>1. Goto(c, cpc[c])
      BY <2>3 DEF Goto, TypeOK, ClientType
    <3>2. Queue' = Queue
      BY <1>2, <2>3
    <3> QED
      BY <1>1, <2>1, <2>3, <3>1, <3>2, QuietStep
  <2>4. CASE ~UNCHANGED <<cpc, wbuf, fifo>>
    BY <1>1, <2>1, <2>2, <2>4, FlushStep
  <2> QED
    BY <2>3, <2>4
<1>14. CASE Leave(c)
  <2>1. /\ wbuf[c] \in Seq(Lines) /\ <<>> \in Seq(Lines)
        /\ \A i \in DOMAIN wbuf[c] : wbuf[c][i].by = c
        /\ \A i \in DOMAIN <<>> : <<>>[i].by = c
        /\ Queue \o <<>> = Queue
    BY QueueTyped DEF SendInv, OwnLines, TypeOK, ClientType
  <2>2. wbuf' = [wbuf EXCEPT ![c] = wbuf[c]] /\ UNCHANGED job
    BY <1>14 DEF Leave, TypeOK, ClientType
  <2>3. CASE ClientEnds(c, "killed")
    <3>1. Goto(c, "killed") /\ Queue' \in {Queue \o <<>>, <<>>}
      BY <1>3, <2>1, <2>3 DEF ClientEnds
    <3> QED
      BY <1>1, <2>1, <2>2, <3>1, SendStep DEF EndStates
  <2>4. CASE ~ClientEnds(c, "killed")
    <3>1. /\ Goto(c, "done")
          /\ fifo' = [f \in FifoNames |->
                        Close(IF f = "commands" THEN Put(fifo[f], wbuf[c])
                                                ELSE fifo[f], c)]
      BY <1>14, <2>4 DEF Leave
    <3>2. Queue' \in {Queue \o wbuf[c], <<>>}
      <4>1. Queue' = Close(Put(fifo["commands"], wbuf[c]), c).data
        BY <3>1, FifoNamesHave DEF Queue
      <4> QED
        BY <4>1, DataKept, FifoNamesHave DEF Queue
    <3>3. CLI(c) => Len(wbuf[c]) = 1 /\ cpc[c] \in SentOnce
      BY <1>14 DEF Leave, SentOnce, SendInv, SendCount
    <3> QED
      BY <1>1, <2>1, <2>2, <3>1, <3>2, <3>3, SendStep DEF EndStates
  <2> QED
    BY <2>3, <2>4
<1> QED
  BY <1>4, <1>5, <1>6, <1>7, <1>8, <1>9, <1>10, <1>11, <1>12, <1>13, <1>14
  DEF ClientNext, ClientStep

-----------------------------------------------------------------------------
LEMMA SendInvInit == Init => SendInv
<1> SUFFICES ASSUME Init, NEW c \in Clients
             PROVE  OwnLines(c) /\ (CLI(c) => SendCount(c))
  BY DEF SendInv
<1>1. /\ Queue = <<>> /\ hits[c] = 0 /\ cpc[c] \in {"start", "done"} /\ wbuf[c] = <<>>
  BY FifoNamesHave
  DEF Init, FifoInit, EmptyFifo, ServerInit, ClientInit, Queue
<1>2. Said(c) = 0
  BY <1>1, OfNothing DEF Said, Queued
<1> QED
  BY <1>1, <1>2 DEF OwnLines, SendCount, Unsent, SentOnce

LEMMA SendInvNext == TypeOK /\ SendInv /\ [Next]_vars => SendInv'
<1> SUFFICES ASSUME TypeOK, SendInv, [Next]_vars PROVE SendInv'
  OBVIOUS
<1>1. CASE ServerNext /\ UNCHANGED clientVars
  BY <1>1, ServerSaysNothing, ServerKeepsCount
<1>2. ASSUME NEW c \in Clients, ClientNext(c), UNCHANGED serverVars PROVE SendInv'
  BY <1>2, ClientKeepsSendInv
<1>3. CASE UNCHANGED vars
  <2>1. UNCHANGED <<fifo, hits>> /\ UNCHANGED clientVars
    BY <1>3 DEF vars, fifoVars, serverVars
  <2>2. Queue' = Queue
    BY <2>1 DEF Queue
  <2>3. \A c \in Clients : Said(c)' \in Nat /\ Said(c)' <= Said(c)
    BY <2>1, <2>2, QueueLost
  <2> QED
    BY <2>1, <2>3, ServerKeepsCount
<1> QED
  BY <1>1, <1>2, <1>3 DEF Next

(* A client started with a command in its arguments has it dispatched at   *)
(* most twice, whatever the server, the shells and the pipes do: once for  *)
(* its flush (client.c) and once for that of bw_drop at its exit.          *)
THEOREM DispatchedAtMostTwice == Spec => []AtMostTwice
<1>1. TypeOK /\ SendInv => AtMostTwice
  <2> SUFFICES ASSUME TypeOK, SendInv, NEW c \in Clients, CLI(c) PROVE hits[c] <= 2
    BY DEF AtMostTwice
  <2>1. hits[c] \in Nat /\ Queued(c) \in Nat
    BY QueueTyped
  <2>2. hits[c] + Queued(c) <= 2
    BY DEF SendInv, SendCount, Said
  <2> QED
    BY <2>1, <2>2
<1> QED
  BY <1>1, TypeCorrect, SendInvInit, SendInvNext, PTL DEF Spec

=============================================================================
