--------------------------- MODULE TaskExecProofs ---------------------------
(***************************************************************************)
(* Proofs about the processes of a task, for every command that comes down *)
(* the path of CommandPath and for any number of execv that return.        *)
(***************************************************************************)
EXTENDS CommandPath, Integers, FiniteSetTheorems, TLAPS

(* A process is a record with these fields, whatever its cells hold.       *)
IsProc(r) ==
    r \in [role : {r.role}, at : {r.at}, group : {r.group}, in : {r.in},
           out : {r.out}, cells : {r.cells}, args : {r.args}, argc : {r.argc}]

ProcsType ==
    /\ Len(procs) \in Nat /\ procs = [p \in 1..Len(procs) |-> procs[p]]
    /\ \A p \in 1..Len(procs) :
         IsProc(procs[p]) /\ procs[p].at \in Nat /\ procs[p].out \in 0..Len(procs)

(* A stage reads the pipe made for it.                                     *)
ReadsItsPipe ==
    \A p \in 1..Len(procs) : procs[p].role \in {"own", "stage"} => procs[p].in = p

(* Whoever has the write end of the pipe of a stage as its output, be it a *)
(* supervisor, a child or a stage, has come further than that stage.       *)
WritersAreAhead ==
    \A p, q \in 1..Len(procs) :
        procs[p].out = q /\ procs[q].role \in Forked => procs[q].at < procs[p].at

PipelineInv == ProcsType /\ ReadsItsPipe /\ WritersAreAhead

-----------------------------------------------------------------------------
LEMMA ProcsIsSeq ==
    ASSUME ProcsType
    PROVE  /\ Pids = 1..Len(procs)
           /\ procs \in Seq({procs[p] : p \in 1..Len(procs)})
<1>1. Len(procs) \in Nat /\ procs = [p \in 1..Len(procs) |-> procs[p]]
  BY DEF ProcsType
<1> DEFINE S == {procs[p] : p \in 1..Len(procs)}
<1>2. procs \in [1..Len(procs) -> S]
  BY <1>1
<1> HIDE DEF S
<1>3. procs \in Seq(S) /\ DOMAIN procs = 1..Len(procs)
  BY <1>1, <1>2
<1> QED
  BY <1>3 DEF Pids, S

LEMMA Appended ==
    ASSUME NEW S, NEW s \in Seq(S), NEW x
    PROVE  /\ Len(Append(s, x)) = Len(s) + 1
           /\ Append(s, x) = [i \in 1..(Len(s) + 1) |-> Append(s, x)[i]]
           /\ \A i \in 1..Len(s) : Append(s, x)[i] = s[i]
           /\ Append(s, x)[Len(s) + 1] = x
<1> DEFINE new == Append(s, x)
<1>1. s \in Seq(S \cup {x}) /\ Len(s) \in Nat
  OBVIOUS
<1>2. new \in Seq(S \cup {x}) /\ Len(new) = Len(s) + 1
  BY <1>1
<1>3. (\A i \in 1..Len(s) : new[i] = s[i]) /\ new[Len(s) + 1] = x
  BY <1>1
<1> HIDE DEF new
<1>4. new = [i \in 1..(Len(s) + 1) |-> new[i]]
  BY <1>2
<1> QED
  BY <1>2, <1>3, <1>4 DEF new

(* One process changes, the others are as they were.                       *)
LEMMA OneChanged ==
    ASSUME ProcsType, NEW p \in 1..Len(procs), NEW r
    PROVE  /\ Len([procs EXCEPT ![p] = r]) = Len(procs)
           /\ [procs EXCEPT ![p] = r] \in Seq({procs[q] : q \in 1..Len(procs)} \cup {r})
           /\ [procs EXCEPT ![p] = r]
                = [q \in 1..Len(procs) |-> IF q = p THEN r ELSE procs[q]]
<1> DEFINE S == {procs[q] : q \in 1..Len(procs)} \cup {r}
           new == [procs EXCEPT ![p] = r]
<1>1. Len(procs) \in Nat /\ DOMAIN procs = 1..Len(procs)
  BY ProcsIsSeq DEF ProcsType, Pids
<1>2. new = [q \in 1..Len(procs) |-> IF q = p THEN r ELSE procs[q]]
  BY <1>1
<1>3. new \in [1..Len(procs) -> S]
  BY <1>2
<1> HIDE DEF S, new
<1>4. new \in Seq(S) /\ Len(new) = Len(procs)
  BY <1>1, <1>3
<1> QED
  BY <1>2, <1>4 DEF S, new

(* A step that changes one process, keeping its output and its place or    *)
(* moving it on, does not disturb the pipeline.                            *)
LEMMA ChangeKeepsPipeline ==
    ASSUME PipelineInv, NEW p \in Pids, NEW r, procs' = [procs EXCEPT ![p] = r],
           IsProc(r), r.out = procs[p].out, r.at \in Nat, r.at >= procs[p].at,
           r.role \in Forked => procs[p].role \in Forked /\ r.at = procs[p].at,
           r.role \in {"own", "stage"} => r.in = p
    PROVE  PipelineInv'
<1>1. /\ p \in 1..Len(procs) /\ Len(procs) \in Nat /\ Len(procs') = Len(procs)
      /\ procs' = [q \in 1..Len(procs) |-> IF q = p THEN r ELSE procs[q]]
  BY ProcsIsSeq, OneChanged DEF PipelineInv, ProcsType
<1>2. procs'[p] = r /\ \A q \in 1..Len(procs) : q # p => procs'[q] = procs[q]
  BY <1>1
<1>3. ProcsType'
  BY <1>1, <1>2 DEF PipelineInv, ProcsType
<1>4. ReadsItsPipe'
  BY <1>1, <1>2 DEF PipelineInv, ReadsItsPipe
<1>5. WritersAreAhead'
  <2> SUFFICES ASSUME NEW w \in 1..Len(procs), NEW q \in 1..Len(procs),
                      procs'[w].out = q, procs'[q].role \in Forked
               PROVE  procs'[q].at < procs'[w].at
    BY <1>1 DEF WritersAreAhead
  <2>1. /\ procs[w].out = q /\ procs[q].role \in Forked
        /\ procs'[q].at = procs[q].at /\ procs'[w].at >= procs[w].at
        /\ procs[q].at \in Nat /\ procs[w].at \in Nat /\ procs'[w].at \in Nat
    BY <1>1, <1>2 DEF PipelineInv, ProcsType
  <2>2. procs[q].at < procs[w].at
    BY <2>1 DEF PipelineInv, WritersAreAhead
  <2> QED
    BY <2>1, <2>2
<1> QED
  BY <1>3, <1>4, <1>5 DEF PipelineInv

(* A turn of the loop: the child comes in where the supervisor was, and    *)
(* the supervisor writes into its pipe from one stage further on.          *)
LEMMA Forking ==
    ASSUME ProcsType, NEW p \in Pids, StartStage(p)
    PROVE  LET n == Len(procs) IN
           /\ p \in 1..n /\ n \in Nat /\ procs[p].role = "sup"
           /\ Len(procs') = n + 1 /\ procs' = [i \in 1..(n + 1) |-> procs'[i]]
           /\ \A q \in 1..n : q # p => procs'[q] = procs[q]
           /\ IsProc(procs'[p]) /\ procs'[p].role = "sup"
           /\ procs'[p].at = procs[p].at + 1 /\ procs'[p].out = n + 1
           /\ IsProc(procs'[n + 1]) /\ procs'[n + 1].role = "new"
           /\ procs'[n + 1].at = procs[p].at /\ procs'[n + 1].out = procs[p].out
           /\ procs'[n + 1] = Child(p)
           /\ procs'[p] = [procs[p] EXCEPT !.at = @ + 1, !.out = n + 1,
                                           !.cells = Child(p).cells]
<1> DEFINE n == Len(procs)
           child == Child(p)
           sup == [procs[p] EXCEPT !.at = @ + 1, !.out = n + 1, !.cells = child.cells]
           moved == [procs EXCEPT ![p] = sup]
<1>1. /\ p \in 1..n /\ n \in Nat /\ procs[p].role = "sup"
      /\ IsProc(procs[p]) /\ procs[p].at \in Nat /\ procs[p].out \in 0..n
  BY ProcsIsSeq DEF ProcsType, StartStage
<1>2. /\ IsProc(child) /\ child.role = "new" /\ child.at = procs[p].at
      /\ child.out = procs[p].out
  BY <1>1 DEF Child, IsProc
<1> HIDE DEF child
<1>3. /\ IsProc(sup) /\ sup.role = "sup" /\ sup.at = procs[p].at + 1
      /\ sup.out = n + 1
  BY <1>1 DEF IsProc
<1>4. procs' = Append(moved, child)
  BY DEF StartStage, WithChild, child
<1> HIDE DEF sup
<1>5. /\ Len(moved) = n
      /\ moved \in Seq({procs[q] : q \in 1..n} \cup {sup})
      /\ moved = [q \in 1..n |-> IF q = p THEN sup ELSE procs[q]]
  BY <1>1, OneChanged
<1> HIDE DEF moved
<1>6. /\ Len(procs') = n + 1
      /\ procs' = [i \in 1..(n + 1) |-> procs'[i]]
      /\ \A i \in 1..n : procs'[i] = moved[i]
      /\ procs'[n + 1] = child
  BY <1>4, <1>5, Appended
<1>7. /\ procs'[p] = sup
      /\ \A q \in 1..n : q # p => procs'[q] = procs[q]
  BY <1>1, <1>5, <1>6
<1>8. /\ procs'[n + 1] = Child(p)
      /\ procs'[p] = [procs[p] EXCEPT !.at = @ + 1, !.out = n + 1,
                                      !.cells = Child(p).cells]
  BY <1>6, <1>7 DEF child, sup
<1> QED
  BY <1>1, <1>2, <1>3, <1>6, <1>7, <1>8

LEMMA ForkKeepsPipeline ==
    ASSUME PipelineInv, NEW p \in Pids, StartStage(p)
    PROVE  PipelineInv'
<1> DEFINE n == Len(procs)
<1>1. /\ p \in 1..n /\ n \in Nat /\ procs[p].role = "sup"
      /\ procs[p].at \in Nat /\ procs[p].out \in 0..n
  BY Forking DEF PipelineInv, ProcsType
<1>2. /\ IsProc(procs'[n + 1]) /\ procs'[n + 1].role = "new"
      /\ procs'[n + 1].at = procs[p].at /\ procs'[n + 1].out = procs[p].out
  BY Forking DEF PipelineInv
<1>3. /\ IsProc(procs'[p]) /\ procs'[p].role = "sup"
      /\ procs'[p].at = procs[p].at + 1 /\ procs'[p].out = n + 1
  BY Forking DEF PipelineInv
<1>6. /\ Len(procs') = n + 1
      /\ procs' = [i \in 1..(n + 1) |-> procs'[i]]
  BY Forking DEF PipelineInv
<1>7. \A q \in 1..n : q # p => procs'[q] = procs[q]
  BY Forking DEF PipelineInv
<1> HIDE DEF n
<1>8. \A q \in 1..(n + 1) : q \in 1..n \/ q = n + 1
  BY <1>1
<1>9. \A q \in 1..n : /\ IsProc(procs[q]) /\ procs[q].at \in Nat /\ procs[q].out \in 0..n
  BY DEF PipelineInv, ProcsType, n
<1>10. ProcsType'
  <2>1. ASSUME NEW q \in 1..(n + 1)
        PROVE  IsProc(procs'[q]) /\ procs'[q].at \in Nat /\ procs'[q].out \in 0..(n + 1)
    BY <1>1, <1>2, <1>3, <1>6, <1>7, <1>8, <1>9, SMTT(20)
  <2> QED
    BY <1>1, <1>6, <2>1 DEF ProcsType
<1>11. ReadsItsPipe'
  BY <1>1, <1>2, <1>3, <1>6, <1>7, <1>8 DEF PipelineInv, ReadsItsPipe, n
<1>12. WritersAreAhead'
  <2> SUFFICES ASSUME NEW w \in 1..(n + 1), NEW q \in 1..(n + 1),
                      procs'[w].out = q, procs'[q].role \in Forked
               PROVE  procs'[q].at < procs'[w].at
    BY <1>6 DEF WritersAreAhead
  <2>1. CASE q = n + 1
    <3>1. w = p
      BY <1>1, <1>2, <1>6, <1>7, <1>8, <1>9, <2>1
    <3> QED
      BY <1>1, <1>2, <1>3, <1>6, <1>7, <2>1, <3>1
  <2>2. CASE q \in 1..n
    <3>1. q # p /\ procs'[q] = procs[q]
      BY <1>3, <1>7, <2>2 DEF Forked
    <3>2. w # p
      BY <1>1, <1>3, <1>7, <2>2
    <3>3. CASE w \in 1..n
      <4>1. procs'[w] = procs[w]
        BY <1>7, <3>2, <3>3
      <4> QED
        BY <2>2, <3>1, <3>3, <4>1 DEF PipelineInv, WritersAreAhead, n
    <3>4. CASE w = n + 1
      <4>1. procs'[w].at = procs[p].at /\ procs[p].out = q
        BY <1>2, <1>6, <3>4
      <4>2. procs[q].at < procs[p].at
        BY <1>1, <2>2, <3>1, <4>1 DEF PipelineInv, WritersAreAhead, n
      <4> QED
        BY <3>1, <4>1, <4>2
    <3> QED
      BY <1>8, <3>3, <3>4
  <2> QED
    BY <1>8, <2>1, <2>2
<1> QED
  BY <1>10, <1>11, <1>12 DEF PipelineInv

LEMMA KillKeepsPipeline ==
    ASSUME PipelineInv, Kill
    PROVE  PipelineInv'
<1> DEFINE n == Len(procs)
           After(p) == IF procs[p].group = 1 THEN [procs[p] EXCEPT !.role = "ended"]
                                             ELSE procs[p]
           S == {After(p) : p \in 1..n}
<1>1. n \in Nat /\ \A p \in 1..n : IsProc(procs[p])
  BY DEF PipelineInv, ProcsType
<1>2. procs' = [p \in 1..n |-> After(p)]
  BY ProcsIsSeq DEF PipelineInv, Kill
<1>3. ASSUME NEW p \in 1..n
      PROVE  /\ IsProc(After(p)) /\ After(p).at = procs[p].at
             /\ After(p).out = procs[p].out /\ After(p).in = procs[p].in
             /\ After(p).role \in {"ended", procs[p].role}
  BY <1>1 DEF IsProc
<1>4. procs' \in [1..n -> S]
  BY <1>2
<1> HIDE DEF After, S
<1>5. Len(procs') = n
  BY <1>1, <1>4
<1>6. \A p \in 1..n : procs'[p] = After(p)
  BY <1>2
<1>7. ProcsType'
  BY <1>1, <1>2, <1>3, <1>5, <1>6 DEF PipelineInv, ProcsType
<1>8. ReadsItsPipe'
  BY <1>3, <1>5, <1>6 DEF PipelineInv, ReadsItsPipe
<1>9. WritersAreAhead'
  BY <1>3, <1>5, <1>6 DEF PipelineInv, WritersAreAhead, Forked
<1> QED
  BY <1>7, <1>8, <1>9 DEF PipelineInv

LEMMA StepKeepsPipeline ==
    ASSUME PipelineInv, ExecStep
    PROVE  PipelineInv'
<1>1. ASSUME NEW p \in Pids
      PROVE  IsProc(procs[p]) /\ procs[p].at \in Nat
  BY <1>1, ProcsIsSeq DEF PipelineInv, ProcsType
<1>2. ASSUME NEW p \in Pids, StartStage(p) PROVE PipelineInv'
  BY <1>2, ForkKeepsPipeline
<1>3. ASSUME NEW p \in Pids, SupEnds(p) \/ StageEnds(p) PROVE PipelineInv'
  <2> DEFINE r == [procs[p] EXCEPT !.role = "ended"]
  <2>1. procs' = [procs EXCEPT ![p] = r]
    BY <1>3 DEF SupEnds, StageEnds, Becomes
  <2>2. IsProc(r) /\ r.role = "ended" /\ r.out = procs[p].out /\ r.at = procs[p].at
    BY <1>1 DEF IsProc
  <2> HIDE DEF r
  <2>4. /\ IsProc(r) /\ r.out = procs[p].out /\ r.at \in Nat /\ r.at >= procs[p].at
        /\ r.role \in Forked => procs[p].role \in Forked /\ r.at = procs[p].at
        /\ r.role \in {"own", "stage"} => r.in = p
    BY <1>1, <2>1, <2>2 DEF Forked
  <2> QED
    BY <2>1, <2>4, ChangeKeepsPipeline
<1>4. ASSUME NEW p \in Pids, Setsid(p) PROVE PipelineInv'
  <2> DEFINE r == [procs[p] EXCEPT !.role = "own", !.group = p, !.in = p]
  <2>1. procs' = [procs EXCEPT ![p] = r] /\ procs[p].role \in Forked
    BY <1>4 DEF Setsid, Forked
  <2>2. /\ IsProc(r) /\ r.out = procs[p].out /\ r.at = procs[p].at /\ r.in = p
    BY <1>1 DEF IsProc
  <2> HIDE DEF r
  <2>4. /\ IsProc(r) /\ r.out = procs[p].out /\ r.at \in Nat /\ r.at >= procs[p].at
        /\ r.role \in Forked => procs[p].role \in Forked /\ r.at = procs[p].at
        /\ r.role \in {"own", "stage"} => r.in = p
    BY <1>1, <2>1, <2>2
  <2> QED
    BY <2>1, <2>4, ChangeKeepsPipeline
<1>5. ASSUME NEW p \in Pids, Exec(p) PROVE PipelineInv'
  <2> DEFINE r == [procs[p] EXCEPT !.role = "stage"]
  <2>1. procs' = [procs EXCEPT ![p] = r] /\ procs[p].role = "own"
    BY <1>5 DEF Exec, Becomes
  <2>2. IsProc(r) /\ r.out = procs[p].out /\ r.at = procs[p].at /\ r.in = procs[p].in
    BY <1>1 DEF IsProc
  <2>3. procs[p].in = p
    BY <2>1, ProcsIsSeq DEF PipelineInv, ReadsItsPipe
  <2> HIDE DEF r
  <2>4. /\ IsProc(r) /\ r.out = procs[p].out /\ r.at \in Nat /\ r.at >= procs[p].at
        /\ r.role \in Forked => procs[p].role \in Forked /\ r.at = procs[p].at
        /\ r.role \in {"own", "stage"} => r.in = p
    BY <1>1, <2>1, <2>2, <2>3 DEF Forked
  <2> QED
    BY <2>1, <2>4, ChangeKeepsPipeline
<1>6. ASSUME NEW p \in Pids, ExecFails(p) PROVE PipelineInv'
  <2> DEFINE r == [procs[p] EXCEPT !.role = "sup", !.at = @ + 1]
  <2>1. procs' = [procs EXCEPT ![p] = r]
    BY <1>6 DEF ExecFails
  <2>2. IsProc(r) /\ r.role = "sup" /\ r.out = procs[p].out /\ r.at = procs[p].at + 1
    BY <1>1 DEF IsProc
  <2> HIDE DEF r
  <2>4. /\ IsProc(r) /\ r.out = procs[p].out /\ r.at \in Nat /\ r.at >= procs[p].at
        /\ r.role \in Forked => procs[p].role \in Forked /\ r.at = procs[p].at
        /\ r.role \in {"own", "stage"} => r.in = p
    BY <1>1, <2>1, <2>2 DEF Forked
  <2> QED
    BY <2>1, <2>4, ChangeKeepsPipeline
<1> QED
  BY <1>2, <1>3, <1>4, <1>5, <1>6, KillKeepsPipeline DEF ExecStep, SupStep, ChildStep

LEMMA LaunchStartsPipeline ==
    ASSUME NEW text, Launch(text)
    PROVE  PipelineInv'
<1> DEFINE s == Supervisor(cmd')
<1>1. procs' = <<s>>
  BY DEF Launch
<1>2. IsProc(s) /\ s.role = "sup" /\ s.at = 1 /\ s.out = 0
  BY DEF Supervisor, IsProc
<1> HIDE DEF s
<1>3. /\ Len(procs') = 1 /\ procs' = [p \in 1..1 |-> procs'[p]]
      /\ \A p \in 1..1 : procs'[p] = s
  BY <1>1
<1> QED
  BY <1>2, <1>3 DEF PipelineInv, ProcsType, ReadsItsPipe, WritersAreAhead

LEMMA OnlyTwoTouchProcs ==
    ASSUME [Next]_allVars
    PROVE  UNCHANGED execVars \/ ExecTask \/ Run
BY DEF Next, ClientNext, ServerNext, SendTask, SendList, CheckNumber, SendNumber,
       RefuseNumber, ShellSends, ShellRejects, Read, EndTask, NoText,
       Parse, execVars, allVars

LEMMA PipelineAlways == Spec => []PipelineInv
<1>1. Init => PipelineInv
  BY DEF Init, ExecInit, PipelineInv, ProcsType, ReadsItsPipe, WritersAreAhead
<1>2. PipelineInv /\ [Next]_allVars => PipelineInv'
  <2> SUFFICES ASSUME PipelineInv, [Next]_allVars PROVE PipelineInv'
    OBVIOUS
  <2>1. CASE UNCHANGED execVars
    BY <2>1 DEF execVars, PipelineInv, ProcsType, ReadsItsPipe, WritersAreAhead
  <2>2. CASE ExecTask
    BY <2>2, LaunchStartsPipeline DEF ExecTask
  <2>3. CASE Run
    BY <2>3, StepKeepsPipeline DEF Run
  <2> QED
    BY <2>1, <2>2, <2>3, OnlyTwoTouchProcs
<1> QED
  BY <1>1, <1>2, PTL DEF Spec

(* The stages between a stage and whoever writes into its pipe have all    *)
(* had an execv that returned.                                             *)
GapFailed(q, w) ==
    \A n \in Nat : procs[q].at < n /\ n < procs[w].at => Failed(n)
GapsHaveFailed ==
    \A w, q \in 1..Len(procs) :
        procs[w].out = q /\ procs[q].role \in Forked => GapFailed(q, w)
GapInv == fails \in Seq(Nat) /\ GapsHaveFailed

(* What has failed once stays failed.                                      *)
LEMMA FailureAdded ==
    ASSUME fails \in Seq(Nat), NEW k \in Nat, fails' = Append(fails, k)
    PROVE  fails' \in Seq(Nat) /\ Failed(k)' /\ \A n : Failed(n) => Failed(n)'
<1> DEFINE m == Len(fails)
<1>1. /\ m \in Nat /\ fails' \in Seq(Nat) /\ DOMAIN fails' = 1..(m + 1)
      /\ DOMAIN fails = 1..m
      /\ fails'[m + 1] = k /\ \A i \in 1..m : fails'[i] = fails[i]
  OBVIOUS
<1> HIDE DEF m
<1>2. m + 1 \in 1..(m + 1) /\ \A i \in 1..m : i \in 1..(m + 1)
  BY <1>1
<1> QED
  BY <1>1, <1>2 DEF Failed

(* A step that changes one process and no failure, as ChangeKeepsPipeline  *)
(* does, but leaves it where it stands, or at the end.                     *)
LEMMA ChangeKeepsGaps ==
    ASSUME PipelineInv, GapInv, NEW p \in Pids, NEW r,
           procs' = [procs EXCEPT ![p] = r],
           r.out = procs[p].out,
           r.role \in Forked => procs[p].role \in Forked /\ r.at = procs[p].at,
           fails' \in Seq(Nat), \A n : Failed(n) => Failed(n)',
           NEW k \in Nat, k = procs[p].at, r.at = k \/ (r.at = k + 1 /\ Failed(k)')
    PROVE  GapInv'
<1>1. /\ p \in 1..Len(procs) /\ Len(procs) \in Nat /\ Len(procs') = Len(procs)
      /\ procs' = [q \in 1..Len(procs) |-> IF q = p THEN r ELSE procs[q]]
  BY ProcsIsSeq, OneChanged DEF PipelineInv, ProcsType
<1>2. procs'[p] = r /\ \A q \in 1..Len(procs) : q # p => procs'[q] = procs[q]
  BY <1>1
<1>3. GapsHaveFailed'
  <2> SUFFICES ASSUME NEW w \in 1..Len(procs), NEW q \in 1..Len(procs),
                      procs'[w].out = q, procs'[q].role \in Forked,
                      NEW n \in Nat, procs'[q].at < n, n < procs'[w].at
               PROVE  Failed(n)'
    BY <1>1 DEF GapsHaveFailed, GapFailed
  <2>1. /\ procs[w].out = q /\ procs[q].role \in Forked
        /\ procs'[q].at = procs[q].at /\ procs[w].at \in Nat
    BY <1>1, <1>2 DEF PipelineInv, ProcsType
  <2>2. GapFailed(q, w)
    BY <2>1 DEF GapInv, GapsHaveFailed
  <2>3. CASE n < procs[w].at
    <3>1. Failed(n)
      BY <2>1, <2>2, <2>3 DEF GapFailed
    <3> QED
      BY <3>1
  <2>4. CASE ~(n < procs[w].at)
    <3>1. w = p /\ procs'[w] = r
      BY <1>2, <2>4
    <3>2. n = k /\ Failed(k)'
      BY <2>1, <2>4, <3>1
    <3> QED
      BY <3>2
  <2> QED
    BY <2>3, <2>4
<1> QED
  BY <1>3 DEF GapInv

(* The child comes in behind the writer that the supervisor was, and the   *)
(* supervisor stands one stage behind the child.                           *)
LEMMA ForkKeepsGaps ==
    ASSUME PipelineInv, GapInv, NEW p \in Pids, StartStage(p)
    PROVE  GapInv'
<1> DEFINE m == Len(procs)
<1>1. /\ p \in 1..m /\ m \in Nat /\ procs[p].at \in Nat /\ procs[p].out \in 0..m
      /\ procs'[m + 1].at = procs[p].at /\ procs'[m + 1].out = procs[p].out
      /\ procs'[p].role = "sup"
      /\ procs'[p].at = procs[p].at + 1 /\ procs'[p].out = m + 1
      /\ Len(procs') = m + 1
  BY Forking DEF PipelineInv, ProcsType
<1>2. \A q \in 1..m : q # p => procs'[q] = procs[q]
  BY Forking DEF PipelineInv
<1>3. \A q \in 1..m : procs[q].out \in 0..m
  BY DEF PipelineInv, ProcsType
<1>4. fails' = fails /\ \A n : Failed(n)' = Failed(n)
  BY DEF StartStage, Failed
<1>5. GapsHaveFailed
  BY DEF GapInv
<1> HIDE DEF m
<1>6. \A q \in 1..(m + 1) : q \in 1..m \/ q = m + 1
  BY <1>1
<1>7. GapsHaveFailed'
  <2> SUFFICES ASSUME NEW w \in 1..(m + 1), NEW q \in 1..(m + 1),
                      procs'[w].out = q, procs'[q].role \in Forked,
                      NEW n \in Nat, procs'[q].at < n, n < procs'[w].at
               PROVE  Failed(n)
    BY <1>1, <1>4 DEF GapsHaveFailed, GapFailed
  <2>1. CASE q = m + 1
    <3>1. w = p
      BY <1>1, <1>2, <1>3, <1>6, <2>1
    <3> QED
      BY <1>1, <2>1, <3>1
  <2>2. CASE q \in 1..m
    <3>1. q # p /\ procs'[q] = procs[q] /\ w # p
      BY <1>1, <1>2, <2>2 DEF Forked
    <3>2. CASE w \in 1..m
      <4>1. procs'[w] = procs[w]
        BY <1>2, <3>1, <3>2
      <4>2. GapFailed(q, w)
        BY <1>5, <2>2, <3>1, <3>2, <4>1 DEF GapsHaveFailed, m
      <4> QED
        BY <3>1, <4>1, <4>2 DEF GapFailed
    <3>3. CASE w = m + 1
      <4>1. procs'[w].at = procs[p].at /\ procs[p].out = q
        BY <1>1, <3>3
      <4>2. GapFailed(q, p)
        BY <1>1, <1>5, <2>2, <3>1, <4>1 DEF GapsHaveFailed, m
      <4> QED
        BY <3>1, <4>1, <4>2 DEF GapFailed
    <3> QED
      BY <1>6, <3>2, <3>3
  <2> QED
    BY <1>6, <2>1, <2>2
<1> QED
  BY <1>4, <1>7 DEF GapInv

LEMMA KillKeepsGaps ==
    ASSUME PipelineInv, PipelineInv', GapInv, Kill
    PROVE  GapInv'
<1> DEFINE m == Len(procs)
<1>1. m \in Nat /\ \A p \in 1..m : IsProc(procs[p])
  BY DEF PipelineInv, ProcsType
<1>2. DOMAIN procs' = 1..m /\ Len(procs') \in Nat /\ DOMAIN procs' = 1..Len(procs')
  BY ProcsIsSeq DEF PipelineInv, ProcsType, Kill
<1>3. \A p \in 1..m :
        /\ procs'[p].role \in {"ended", procs[p].role}
        /\ procs'[p].at = procs[p].at /\ procs'[p].out = procs[p].out
  BY <1>1, ProcsIsSeq DEF PipelineInv, Kill, IsProc
<1>4. fails' = fails /\ \A n : Failed(n)' = Failed(n)
  BY DEF Kill, Failed
<1>5. GapsHaveFailed /\ 1..Len(procs') = 1..m
  BY <1>2 DEF GapInv
<1>6. GapsHaveFailed'
  <2> SUFFICES ASSUME NEW w \in 1..m, NEW q \in 1..m,
                      procs'[w].out = q, procs'[q].role \in Forked
               PROVE  GapFailed(q, w)'
    BY <1>5 DEF GapsHaveFailed
  <2>1. GapFailed(q, w)
    BY <1>3, <1>5 DEF GapsHaveFailed, Forked
  <2> QED
    BY <1>3, <1>4, <2>1 DEF GapFailed
<1> QED
  BY <1>4, <1>6 DEF GapInv

LEMMA StepKeepsGaps ==
    ASSUME PipelineInv, PipelineInv', GapInv, ExecStep
    PROVE  GapInv'
<1>1. ASSUME NEW p \in Pids
      PROVE  IsProc(procs[p]) /\ procs[p].at \in Nat
  BY <1>1, ProcsIsSeq DEF PipelineInv, ProcsType
<1>2. ASSUME fails' = fails
      PROVE  fails' \in Seq(Nat) /\ \A n : Failed(n) => Failed(n)'
  BY <1>2 DEF GapInv, Failed
<1>3. ASSUME NEW p \in Pids, SupEnds(p) \/ StageEnds(p) PROVE GapInv'
  <2> DEFINE r == [procs[p] EXCEPT !.role = "ended"]
  <2>1. procs' = [procs EXCEPT ![p] = r] /\ fails' = fails
    BY <1>3 DEF SupEnds, StageEnds, Becomes
  <2>2. r.role \notin Forked /\ r.out = procs[p].out /\ r.at = procs[p].at
    BY <1>1 DEF IsProc, Forked
  <2> HIDE DEF r
  <2>3. PICK k \in Nat : k = procs[p].at
    BY <1>1
  <2> QED
    BY <1>2, <2>1, <2>2, <2>3, ChangeKeepsGaps
<1>4. ASSUME NEW p \in Pids, Setsid(p) PROVE GapInv'
  <2> DEFINE r == [procs[p] EXCEPT !.role = "own", !.group = p, !.in = p]
  <2>1. procs' = [procs EXCEPT ![p] = r] /\ procs[p].role \in Forked /\ fails' = fails
    BY <1>4 DEF Setsid, Forked
  <2>2. r.out = procs[p].out /\ r.at = procs[p].at
    BY <1>1 DEF IsProc
  <2> HIDE DEF r
  <2>3. PICK k \in Nat : k = procs[p].at
    BY <1>1
  <2> QED
    BY <1>2, <2>1, <2>2, <2>3, ChangeKeepsGaps
<1>5. ASSUME NEW p \in Pids, Exec(p) PROVE GapInv'
  <2> DEFINE r == [procs[p] EXCEPT !.role = "stage"]
  <2>1. procs' = [procs EXCEPT ![p] = r] /\ procs[p].role \in Forked /\ fails' = fails
    BY <1>5 DEF Exec, Becomes, Forked
  <2>2. r.out = procs[p].out /\ r.at = procs[p].at
    BY <1>1 DEF IsProc
  <2> HIDE DEF r
  <2>3. PICK k \in Nat : k = procs[p].at
    BY <1>1
  <2> QED
    BY <1>2, <2>1, <2>2, <2>3, ChangeKeepsGaps
<1>6. ASSUME NEW p \in Pids, ExecFails(p) PROVE GapInv'
  <2> DEFINE r == [procs[p] EXCEPT !.role = "sup", !.at = @ + 1]
  <2>1. procs' = [procs EXCEPT ![p] = r] /\ fails' = Append(fails, procs[p].at)
    BY <1>6 DEF ExecFails
  <2>2. r.role \notin Forked /\ r.out = procs[p].out /\ r.at = procs[p].at + 1
    BY <1>1 DEF IsProc, Forked
  <2> HIDE DEF r
  <2>3. PICK k \in Nat : k = procs[p].at
    BY <1>1
  <2>4. fails' \in Seq(Nat) /\ Failed(k)' /\ \A n : Failed(n) => Failed(n)'
    BY <2>1, <2>3, FailureAdded DEF GapInv
  <2> QED
    BY <2>1, <2>2, <2>3, <2>4, ChangeKeepsGaps
<1> QED
  BY <1>3, <1>4, <1>5, <1>6, ForkKeepsGaps, KillKeepsGaps
     DEF ExecStep, SupStep, ChildStep

LEMMA LaunchStartsGaps ==
    ASSUME NEW text, Launch(text), GapInv
    PROVE  GapInv'
<1>1. procs' = <<Supervisor(cmd')>> /\ fails' = fails
  BY DEF Launch
<1>2. Supervisor(cmd').out = 0
  BY DEF Supervisor
<1> QED
  BY <1>1, <1>2 DEF GapInv, GapsHaveFailed

LEMMA GapsAlways == Spec => [](PipelineInv /\ GapInv)
<1>1. Init => GapInv
  BY DEF Init, ExecInit, GapInv, GapsHaveFailed
<1>2. PipelineInv /\ PipelineInv' /\ GapInv /\ [Next]_allVars => GapInv'
  <2> SUFFICES ASSUME PipelineInv, PipelineInv', GapInv, [Next]_allVars
               PROVE  GapInv'
    OBVIOUS
  <2>1. CASE UNCHANGED execVars
    BY <2>1 DEF execVars, GapInv, GapsHaveFailed, GapFailed, Failed
  <2>2. CASE ExecTask
    BY <2>2, LaunchStartsGaps DEF ExecTask
  <2>3. CASE Run
    BY <2>3, StepKeepsGaps DEF Run
  <2> QED
    BY <2>1, <2>2, <2>3, OnlyTwoTouchProcs
<1> QED
  BY <1>1, <1>2, PipelineAlways, PTL DEF Spec

(* A pipe joins two stages that follow each other but for stages whose     *)
(* execv returned, whatever the command, however many execv return and     *)
(* however many supervisors share the work.                                *)
THEOREM PipelineCorrect == Spec => []LinksNeighbours
<1>1. PipelineInv /\ GapInv => LinksNeighbours
  <2> SUFFICES ASSUME PipelineInv, GapInv, NEW q \in Pids, NEW r \in Pids,
                      Feeds(r, q)
               PROVE  /\ procs[q].at # procs[r].at
                      /\ \A n \in (procs[q].at + 1)..(procs[r].at - 1)
                             \cup (procs[r].at + 1)..(procs[q].at - 1) : Failed(n)
    BY DEF LinksNeighbours
  <2>1. /\ q \in 1..Len(procs) /\ r \in 1..Len(procs)
        /\ procs[q].at \in Nat /\ procs[r].at \in Nat
    BY ProcsIsSeq DEF PipelineInv, ProcsType
  <2>2. procs[r].out = q /\ procs[q].role \in Forked
    BY <2>1 DEF PipelineInv, ReadsItsPipe, Feeds, Running, Forked
  <2>3. procs[q].at < procs[r].at /\ GapFailed(q, r)
    BY <2>1, <2>2 DEF PipelineInv, WritersAreAhead, GapInv, GapsHaveFailed
  <2>4. ASSUME NEW n \in (procs[q].at + 1)..(procs[r].at - 1)
                   \cup (procs[r].at + 1)..(procs[q].at - 1)
        PROVE  Failed(n)
    <3>1. n \in Nat /\ procs[q].at < n /\ n < procs[r].at
      BY <2>1, <2>3
    <3> QED
      BY <2>3, <3>1 DEF GapFailed
  <2> QED
    BY <2>1, <2>3, <2>4
<1> QED
  BY <1>1, GapsAlways, PTL

-----------------------------------------------------------------------------
(* How often a stage runs: the processes that run it or will still fork    *)
(* it, counted against the execv that have returned before it.             *)
Due(n) ==
    {p \in 1..Len(procs) :
        \/ procs[p].role = "sup" /\ procs[p].at <= n
        \/ procs[p].role \in Forked /\ procs[p].at = n}

FailsBefore(n) == {i \in DOMAIN fails : fails[i] < n}

RepeatInv ==
    /\ fails \in Seq(Nat)
    /\ \A n \in Nat : Cardinality(Due(n)) <= 1 + Cardinality(FailsBefore(n))

LEMMA DueIsFinite ==
    ASSUME ProcsType, NEW n \in Nat
    PROVE  IsFiniteSet(Due(n)) /\ Cardinality(Due(n)) \in Nat
<1>1. Due(n) \in SUBSET (1..Len(procs)) /\ Len(procs) \in Nat
  BY DEF Due, ProcsType
<1>2. IsFiniteSet(1..Len(procs))
  BY <1>1, FS_Interval
<1> QED
  BY <1>1, <1>2, FS_Subset, FS_CardinalityType

LEMMA FailsAreFinite ==
    ASSUME fails \in Seq(Nat), NEW n \in Nat
    PROVE  IsFiniteSet(FailsBefore(n)) /\ Cardinality(FailsBefore(n)) \in Nat
<1>1. FailsBefore(n) \in SUBSET (1..Len(fails)) /\ Len(fails) \in Nat
  BY DEF FailsBefore
<1>2. IsFiniteSet(1..Len(fails))
  BY <1>1, FS_Interval
<1> QED
  BY <1>1, <1>2, FS_Subset, FS_CardinalityType

(* A step that brings nobody new in front of a stage.                      *)
LEMMA FewerDue ==
    ASSUME ProcsType, ProcsType', RepeatInv, fails' = fails,
           \A n \in Nat : Due(n)' \subseteq Due(n)
    PROVE  RepeatInv'
<1>1. ASSUME NEW n \in Nat
      PROVE  Cardinality(Due(n)') <= 1 + Cardinality(FailsBefore(n)')
  <2>1. Cardinality(Due(n)') <= Cardinality(Due(n)) /\ Cardinality(Due(n)') \in Nat
    BY DueIsFinite, FS_Subset, FS_CardinalityType
  <2>2. FailsBefore(n)' = FailsBefore(n) /\ Cardinality(FailsBefore(n)) \in Nat
    BY FailsAreFinite DEF FailsBefore, RepeatInv
  <2>3. Cardinality(Due(n)) \in Nat
    BY DueIsFinite
  <2> QED
    BY <2>1, <2>2, <2>3 DEF RepeatInv
<1> QED
  BY <1>1 DEF RepeatInv

LEMMA ChangeKeepsRepeat ==
    ASSUME PipelineInv, PipelineInv', RepeatInv, fails' = fails,
           NEW p \in Pids, NEW r, procs' = [procs EXCEPT ![p] = r],
           r.role \in Forked, procs[p].role \in Forked, r.at = procs[p].at
    PROVE  RepeatInv'
<1>1. /\ p \in 1..Len(procs) /\ Len(procs') = Len(procs)
      /\ procs'[p] = r /\ \A q \in 1..Len(procs) : q # p => procs'[q] = procs[q]
  BY ProcsIsSeq, OneChanged DEF PipelineInv, ProcsType
<1>2. \A n \in Nat : Due(n)' \subseteq Due(n)
  BY <1>1 DEF Due, Forked
<1> QED
  BY <1>2, FewerDue DEF PipelineInv

LEMMA EndKeepsRepeat ==
    ASSUME PipelineInv, PipelineInv', RepeatInv, fails' = fails,
           NEW p \in Pids, NEW r, procs' = [procs EXCEPT ![p] = r],
           r.role = "ended"
    PROVE  RepeatInv'
<1>1. /\ p \in 1..Len(procs) /\ Len(procs') = Len(procs)
      /\ procs'[p] = r /\ \A q \in 1..Len(procs) : q # p => procs'[q] = procs[q]
  BY ProcsIsSeq, OneChanged DEF PipelineInv, ProcsType
<1>2. \A n \in Nat : Due(n)' \subseteq Due(n)
  BY <1>1 DEF Due, Forked
<1> QED
  BY <1>2, FewerDue DEF PipelineInv

(* The child takes the place of the supervisor before its stage, and the   *)
(* supervisor goes on to the later ones.                                   *)
LEMMA ForkKeepsRepeat ==
    ASSUME PipelineInv, PipelineInv', RepeatInv, NEW p \in Pids, StartStage(p)
    PROVE  RepeatInv'
<1> DEFINE m == Len(procs)
           k == procs[p].at
<1>1. /\ p \in 1..m /\ m \in Nat /\ procs[p].role = "sup" /\ k \in Nat
      /\ Len(procs') = m + 1
      /\ \A q \in 1..m : q # p => procs'[q] = procs[q]
      /\ procs'[p].role = "sup" /\ procs'[p].at = k + 1
      /\ procs'[m + 1].role = "new" /\ procs'[m + 1].at = k
  BY Forking DEF PipelineInv, ProcsType
<1>2. fails' = fails
  BY DEF StartStage
<1>3. ASSUME NEW n \in Nat
      PROVE  Cardinality(Due(n)') <= 1 + Cardinality(FailsBefore(n)')
  <2>1. CASE n = k
    <3>1. p \in Due(n) /\ m + 1 \notin Due(n)
      BY <1>1, <2>1 DEF Due
    <3>2. Due(n)' = (Due(n) \ {p}) \cup {m + 1}
      <4>1. \A q \in 1..(m + 1) : q \in 1..m \/ q = m + 1
        BY <1>1, SMTT(20)
      <4>2. \A q \in 1..(m + 1) :
              q \in Due(n)' <=> q = m + 1 \/ (q \in Due(n) /\ q # p)
        BY <1>1, <2>1, <4>1 DEF Due, Forked
      <4>3. Due(n)' \subseteq 1..(m + 1) /\ Due(n) \subseteq 1..m
        BY <1>1 DEF Due
      <4> QED
        BY <1>1, <4>2, <4>3
    <3>3. Cardinality(Due(n)') = Cardinality(Due(n))
      <4> HIDE DEF m
      <4>1. /\ IsFiniteSet(Due(n) \ {p})
            /\ Cardinality(Due(n) \ {p}) = Cardinality(Due(n)) - 1
        BY <3>1, DueIsFinite, FS_RemoveElement DEF PipelineInv
      <4>2. Cardinality(Due(n)') = Cardinality(Due(n) \ {p}) + 1
        BY <3>1, <3>2, <4>1, FS_AddElement
      <4> QED
        BY <4>1, <4>2, DueIsFinite DEF PipelineInv
    <3> QED
      BY <1>2, <3>3 DEF RepeatInv, FailsBefore
  <2>2. CASE n # k
    <3>1. Due(n)' = Due(n)
      BY <1>1, <2>2, SMTT(20) DEF Due, Forked
    <3> QED
      BY <1>2, <3>1 DEF RepeatInv, FailsBefore
  <2> QED
    BY <2>1, <2>2
<1> QED
  BY <1>2, <1>3 DEF RepeatInv

(* An execv that returns adds a supervisor in front of the later stages,   *)
(* and is itself one more failure before each of them.                     *)
LEMMA FailureKeepsRepeat ==
    ASSUME PipelineInv, PipelineInv', RepeatInv, NEW q \in Pids, ExecFails(q)
    PROVE  RepeatInv'
<1> DEFINE k == procs[q].at
           m == Len(fails)
           r == [procs[q] EXCEPT !.role = "sup", !.at = @ + 1]
<1>1. /\ q \in 1..Len(procs) /\ IsProc(procs[q]) /\ k \in Nat
      /\ procs[q].role = "own"
  BY ProcsIsSeq DEF PipelineInv, ProcsType, ExecFails
<1>2. procs' = [procs EXCEPT ![q] = r] /\ r.role = "sup" /\ r.at = k + 1
  BY <1>1 DEF ExecFails, IsProc
<1> HIDE DEF r
<1>3. /\ Len(procs') = Len(procs) /\ procs'[q].role = "sup" /\ procs'[q].at = k + 1
      /\ \A p \in 1..Len(procs) : p # q => procs'[p] = procs[p]
  BY <1>1, <1>2, OneChanged DEF PipelineInv, ProcsType
<1>4. /\ m \in Nat /\ fails' \in Seq(Nat) /\ DOMAIN fails' = 1..(m + 1)
      /\ DOMAIN fails = 1..m
      /\ fails'[m + 1] = k /\ \A i \in 1..m : fails'[i] = fails[i]
  BY <1>1 DEF RepeatInv, ExecFails
<1> HIDE DEF m
<1>5. ASSUME NEW n \in Nat
      PROVE  Cardinality(Due(n)') <= 1 + Cardinality(FailsBefore(n)')
  <2>0. /\ IsFiniteSet(Due(n)) /\ Cardinality(Due(n)) \in Nat
        /\ IsFiniteSet(FailsBefore(n)) /\ Cardinality(FailsBefore(n)) \in Nat
        /\ Cardinality(Due(n)) <= 1 + Cardinality(FailsBefore(n))
    BY DueIsFinite, FailsAreFinite DEF PipelineInv, RepeatInv
  <2>1. CASE k < n
    <3>1. q \notin Due(n) /\ Due(n)' = Due(n) \cup {q}
      BY <1>1, <1>3, <2>1 DEF Due, Forked
    <3>2. m + 1 \notin FailsBefore(n) /\ FailsBefore(n)' = FailsBefore(n) \cup {m + 1}
      BY <1>1, <1>4, <2>1 DEF FailsBefore
    <3>3. Cardinality(Due(n)') = Cardinality(Due(n)) + 1
      BY <2>0, <3>1, FS_AddElement
    <3>4. Cardinality(FailsBefore(n)') = Cardinality(FailsBefore(n)) + 1
      BY <2>0, <3>2, FS_AddElement
    <3> QED
      BY <2>0, <3>3, <3>4
  <2>2. CASE ~(k < n)
    <3>1. Due(n)' \in SUBSET Due(n)
      BY <1>1, <1>3, <2>2 DEF Due, Forked
    <3>2. FailsBefore(n)' = FailsBefore(n)
      BY <1>1, <1>4, <2>2 DEF FailsBefore
    <3>3. Cardinality(Due(n)') <= Cardinality(Due(n)) /\ Cardinality(Due(n)') \in Nat
      BY <2>0, <3>1, FS_Subset, FS_CardinalityType
    <3> QED
      BY <2>0, <3>2, <3>3
  <2> QED
    BY <2>1, <2>2
<1> QED
  BY <1>4, <1>5 DEF RepeatInv

LEMMA KillKeepsRepeat ==
    ASSUME PipelineInv, PipelineInv', RepeatInv, Kill
    PROVE  RepeatInv'
<1>1. fails' = fails
  BY DEF Kill
<1>2. Len(procs) \in Nat /\ \A p \in 1..Len(procs) : IsProc(procs[p])
  BY DEF PipelineInv, ProcsType
<1>3. /\ DOMAIN procs' = 1..Len(procs)
      /\ \A p \in 1..Len(procs) :
           /\ procs'[p].role \in {"ended", procs[p].role}
           /\ procs'[p].at = procs[p].at
  BY <1>2, ProcsIsSeq DEF PipelineInv, Kill, IsProc
<1>4. Len(procs') = Len(procs)
  <2>1. Len(procs') \in Nat /\ DOMAIN procs' = 1..Len(procs')
    BY DEF PipelineInv, ProcsType
  <2>2. 1..Len(procs') = 1..Len(procs)
    BY <1>3, <2>1
  <2>3. \A a, b \in Nat : 1..a = 1..b => a <= b
    <3>1. \A a, b \in Nat : a \in 1..b \/ a = 0 => a <= b
      OBVIOUS
    <3>2. \A a \in Nat : a \in 1..a \/ a = 0
      OBVIOUS
    <3> QED
      BY <3>1, <3>2
  <2>4. Len(procs') <= Len(procs) /\ Len(procs) <= Len(procs')
    BY <1>2, <2>1, <2>2, <2>3
  <2> QED
    BY <1>2, <2>1, <2>4
<1>5. \A n \in Nat : Due(n)' \subseteq Due(n)
  BY <1>3, <1>4 DEF Due, Forked
<1> QED
  BY <1>1, <1>5, FewerDue DEF PipelineInv

LEMMA StepKeepsRepeat ==
    ASSUME PipelineInv, PipelineInv', RepeatInv, ExecStep
    PROVE  RepeatInv'
<1>1. ASSUME NEW p \in Pids
      PROVE  IsProc(procs[p]) /\ procs[p].at \in Nat
  BY <1>1, ProcsIsSeq DEF PipelineInv, ProcsType
<1>2. ASSUME NEW p \in Pids, SupEnds(p) \/ StageEnds(p) PROVE RepeatInv'
  <2> DEFINE r == [procs[p] EXCEPT !.role = "ended"]
  <2>1. procs' = [procs EXCEPT ![p] = r] /\ fails' = fails
    BY <1>2 DEF SupEnds, StageEnds, Becomes
  <2>2. r.role = "ended"
    BY <1>1 DEF IsProc
  <2> HIDE DEF r
  <2> QED
    BY <2>1, <2>2, EndKeepsRepeat
<1>3. ASSUME NEW p \in Pids, Setsid(p) PROVE RepeatInv'
  <2> DEFINE r == [procs[p] EXCEPT !.role = "own", !.group = p, !.in = p]
  <2>1. procs' = [procs EXCEPT ![p] = r] /\ procs[p].role \in Forked /\ fails' = fails
    BY <1>3 DEF Setsid, Forked
  <2>2. r.role \in Forked /\ r.at = procs[p].at
    BY <1>1 DEF IsProc, Forked
  <2> HIDE DEF r
  <2> QED
    BY <2>1, <2>2, ChangeKeepsRepeat
<1>4. ASSUME NEW p \in Pids, Exec(p) PROVE RepeatInv'
  <2> DEFINE r == [procs[p] EXCEPT !.role = "stage"]
  <2>1. procs' = [procs EXCEPT ![p] = r] /\ procs[p].role \in Forked /\ fails' = fails
    BY <1>4 DEF Exec, Becomes, Forked
  <2>2. r.role \in Forked /\ r.at = procs[p].at
    BY <1>1 DEF IsProc, Forked
  <2> HIDE DEF r
  <2> QED
    BY <2>1, <2>2, ChangeKeepsRepeat
<1> QED
  BY <1>2, <1>3, <1>4, ForkKeepsRepeat, FailureKeepsRepeat, KillKeepsRepeat
     DEF ExecStep, SupStep, ChildStep

LEMMA LaunchStartsRepeat ==
    ASSUME NEW text, Launch(text), RepeatInv
    PROVE  RepeatInv'
<1>1. Len(procs') = 1 /\ fails' = fails
  BY DEF Launch
<1>2. ASSUME NEW n \in Nat
      PROVE  Cardinality(Due(n)') <= 1 + Cardinality(FailsBefore(n)')
  <2>1. Due(n)' \in SUBSET {1}
    BY <1>1 DEF Due
  <2>0. IsFiniteSet({1}) /\ Cardinality({1}) = 1
    BY FS_Singleton
  <2>2. Cardinality(Due(n)') <= 1 /\ Cardinality(Due(n)') \in Nat
    BY <2>0, <2>1, FS_Subset, FS_CardinalityType
  <2>3. FailsBefore(n)' = FailsBefore(n) /\ Cardinality(FailsBefore(n)) \in Nat
    BY <1>1, FailsAreFinite DEF FailsBefore, RepeatInv
  <2> QED
    BY <2>2, <2>3
<1> QED
  BY <1>1, <1>2 DEF RepeatInv

(* No stage runs more than once, and once more for each execv of a stage   *)
(* before it that returned, however many supervisors that makes.           *)
THEOREM RepeatsCorrect == Spec => []StageRepeatedByFailuresOnly
<1>1. Init => RepeatInv
  <2> SUFFICES ASSUME procs = <<>>, fails = <<>> PROVE RepeatInv
    BY DEF Init, ExecInit
  <2>1. \A n \in Nat : Due(n) = {} /\ FailsBefore(n) = {}
    BY DEF Due, FailsBefore
  <2> QED
    BY <2>1, FS_EmptySet DEF RepeatInv
<1>2. PipelineInv /\ PipelineInv' /\ RepeatInv /\ [Next]_allVars => RepeatInv'
  <2> SUFFICES ASSUME PipelineInv, PipelineInv', RepeatInv, [Next]_allVars
               PROVE  RepeatInv'
    OBVIOUS
  <2>1. CASE UNCHANGED execVars
    BY <2>1 DEF execVars, RepeatInv, Due, FailsBefore
  <2>2. CASE ExecTask
    BY <2>2, LaunchStartsRepeat DEF ExecTask
  <2>3. CASE Run
    BY <2>3, StepKeepsRepeat DEF Run
  <2> QED
    BY <2>1, <2>2, <2>3, OnlyTwoTouchProcs
<1>3. PipelineInv /\ RepeatInv => StageRepeatedByFailuresOnly
  <2> SUFFICES ASSUME PipelineInv, RepeatInv, NEW q \in Pids, Running(q)
               PROVE  Cardinality({r \in Pids : Running(r) /\ procs[r].at = procs[q].at})
                        <= 1 + Cardinality({i \in DOMAIN fails : fails[i] < procs[q].at})
    BY DEF StageRepeatedByFailuresOnly
  <2> DEFINE n == procs[q].at
             R == {r \in Pids : Running(r) /\ procs[r].at = n}
  <2>1. n \in Nat
    BY ProcsIsSeq DEF PipelineInv, ProcsType
  <2>2. R \in SUBSET Due(n)
    BY ProcsIsSeq DEF PipelineInv, Due, Running, Forked
  <2> HIDE DEF R
  <2>3. Cardinality(R) <= Cardinality(Due(n)) /\ Cardinality(R) \in Nat
    BY <2>1, <2>2, DueIsFinite, FS_Subset, FS_CardinalityType DEF PipelineInv
  <2>4. /\ Cardinality(Due(n)) \in Nat /\ Cardinality(FailsBefore(n)) \in Nat
        /\ Cardinality(Due(n)) <= 1 + Cardinality(FailsBefore(n))
    BY <2>1, DueIsFinite, FailsAreFinite DEF PipelineInv, RepeatInv
  <2>5. Cardinality(R) <= 1 + Cardinality(FailsBefore(n))
    BY <2>3, <2>4
  <2> QED
    BY <2>5 DEF R, FailsBefore
<1> QED
  BY <1>1, <1>2, <1>3, PipelineAlways, PTL DEF Spec

-----------------------------------------------------------------------------
(* The characters of a text, and those of its copies.                      *)
Chars == DOMAIN Code
Texts == Chars \cup {Nul}

(* Counting: a finite set of numbers has an n-th smallest one, for every n *)
(* up to its size, and so a smallest one if it is not empty.               *)
Below(S, k) == {j \in S : j < k}

LEMMA NthExists ==
    ASSUME NEW S \in SUBSET Nat, IsFiniteSet(S), NEW n \in Nat, n < Cardinality(S)
    PROVE  \E k \in S : Cardinality(Below(S, k)) = n
<1> DEFINE m == Cardinality(S)
           rank == [k \in S |-> Cardinality(Below(S, k))]
<1>1. m \in Nat /\ m > 0
  BY FS_CardinalityType
<1>2. ASSUME NEW k \in S
      PROVE  /\ IsFiniteSet(Below(S, k)) /\ Cardinality(Below(S, k)) \in 0..(m - 1)
  <2>1. IsFiniteSet(S \ {k}) /\ Cardinality(S \ {k}) = m - 1
    BY FS_RemoveElement
  <2>2. Below(S, k) \in SUBSET (S \ {k})
    BY DEF Below
  <2>3. IsFiniteSet(Below(S, k)) /\ Cardinality(Below(S, k)) <= Cardinality(S \ {k})
    BY <2>1, <2>2, FS_Subset
  <2>4. Cardinality(Below(S, k)) \in Nat
    BY <2>3, FS_CardinalityType
  <2> QED
    BY <1>1, <2>1, <2>3, <2>4
<1>3. ASSUME NEW j \in S, NEW k \in S, j < k
      PROVE  Cardinality(Below(S, j)) # Cardinality(Below(S, k))
  <2>1. Below(S, j) \in SUBSET Below(S, k)
    <3>1. \A i \in S : i < j => i < k
      BY <1>3
    <3> QED
      BY <3>1 DEF Below
  <2>2. j \in Below(S, k) /\ j \notin Below(S, j)
    BY <1>3 DEF Below
  <2>3. Below(S, j) # Below(S, k)
    BY <2>2
  <2> QED
    BY <1>2, <2>1, <2>3, FS_Subset
<1>4. rank \in [S -> 0..(m - 1)]
  BY <1>2
<1>5. \A j, k \in S : rank[j] = rank[k] => j = k
  <2> SUFFICES ASSUME NEW j \in S, NEW k \in S, j # k PROVE rank[j] # rank[k]
    OBVIOUS
  <2>1. j < k \/ k < j
    OBVIOUS
  <2> QED
    BY <1>3, <2>1
<1>6. rank \in Injection(S, 0..(m - 1))
  <2> HIDE DEF rank
  <2>1. DOMAIN rank = S
    BY <1>4
  <2> QED
    BY <1>4, <1>5, <2>1 DEF Injection, IsInjective
<1>7. IsFiniteSet(0..(m - 1)) /\ Cardinality(0..(m - 1)) = m
  <2>1. 0 \in Int /\ m - 1 \in Int /\ ~(0 > m - 1) /\ (m - 1) - 0 + 1 = m
    BY <1>1
  <2> HIDE DEF m
  <2> QED
    BY <2>1, FS_Interval
<1>8. rank \in Surjection(S, 0..(m - 1))
  <2> HIDE DEF rank
  <2> QED
    BY <1>6, <1>7, FS_Injection
<1>9. n \in 0..(m - 1)
  BY <1>1
<1>10. \E k \in S : rank[k] = n
  BY <1>8, <1>9 DEF Surjection
<1> QED
  BY <1>10

LEMMA MinExists ==
    ASSUME NEW a \in Nat, NEW b \in Nat, NEW S \in SUBSET (a..b), S # {}
    PROVE  Min(S) \in S /\ \A k \in S : Min(S) <= k
<1>1. IsFiniteSet(a..b) /\ S \in SUBSET Nat
  BY FS_Interval
<1>2. IsFiniteSet(S) /\ Cardinality(S) \in Nat /\ Cardinality(S) # 0
  BY <1>1, FS_Subset, FS_CardinalityType, FS_EmptySet
<1>3. PICK m \in S : Cardinality(Below(S, m)) = 0
  BY <1>1, <1>2, NthExists
<1>4. Below(S, m) \in SUBSET S
  BY DEF Below
<1>5. Below(S, m) = {}
  BY <1>2, <1>3, <1>4, FS_Subset, FS_EmptySet
<1>6. \A k \in S : m <= k
  BY <1>1, <1>5 DEF Below
<1> QED
  BY <1>6 DEF Min

LEMMA StageStarts ==
    ASSUME cmd \in Seq(Texts), NEW n \in 1..Stages
    PROVE  StartOf(n) \in Starts
<1>1. Starts \in SUBSET (1..Len(cmd)) /\ Len(cmd) \in Nat
  BY DEF Starts
<1>2. IsFiniteSet(Starts) /\ Starts \in SUBSET Nat
  <2>1. IsFiniteSet(1..Len(cmd)) /\ (1..Len(cmd)) \in SUBSET Nat
    BY <1>1, FS_Interval
  <2> QED
    BY <1>1, <2>1, FS_Subset
<1>3. Stages \in Nat /\ n - 1 \in Nat /\ n - 1 < Cardinality(Starts)
  BY <1>2, FS_CardinalityType DEF Stages
<1>4. \E k \in Starts : Cardinality({j \in Starts : j < k}) = n - 1
  BY <1>2, <1>3, NthExists DEF Below
<1> QED
  BY <1>4 DEF StartOf

-----------------------------------------------------------------------------
(* Types.  A copy of the command keeps its length, its end, and a blank or *)
(* what has become of it in front of that: the loop that fills argv stops  *)
(* there at the latest.                                                    *)
EndsInGap(c) ==
    /\ c \in Seq(Texts) /\ Len(c) = Len(cmd)
    /\ c[Len(c)] = Nul /\ c[Len(c) - 1] \in Gap

ProcTypeOK(r, n) ==
    /\ r.role \in Roles /\ r.at \in 1..(Stages + 1)
    /\ r.role \in Forked => r.at <= Stages
    /\ r.group \in 1..n /\ r.in \in 0..n /\ r.out \in 0..n
    /\ EndsInGap(r.cells) /\ r.args \subseteq 1..Len(cmd) /\ r.argc \in 0..Len(cmd)

TaskTypes ==
    /\ cmd \in Seq(Texts) /\ (procs # <<>> => Len(cmd) >= 2)
    /\ Stages \in Nat
    /\ \A p \in 1..Len(procs) : ProcTypeOK(procs[p], Len(procs))
    /\ fails \in Seq(1..Stages) /\ Len(fails) <= MaxFails /\ killed \in BOOLEAN

LEMMA StagesIsNat ==
    ASSUME cmd \in Seq(Texts)
    PROVE  Stages \in Nat
<1>1. Starts \in SUBSET (1..Len(cmd)) /\ Len(cmd) \in Nat
  BY DEF Starts
<1>2. IsFiniteSet(1..Len(cmd))
  BY <1>1, FS_Interval
<1> QED
  BY <1>1, <1>2, FS_Subset, FS_CardinalityType DEF Stages

(* Cutting the words of a stage.                                           *)
LEMMA CutEndIs ==
    ASSUME Len(cmd) >= 2, NEW c, EndsInGap(c), NEW s \in 1..Len(c), c[s] # Nul
    PROVE  CutEnd(c, s) \in (s + 1)..Len(c)
<1> DEFINE Q == {k \in (s + 1)..Len(c) : c[k] = Nul /\ c[k - 1] \in Gap}
<1>1. Len(c) \in Nat /\ s < Len(c) /\ c[Len(c)] = Nul /\ c[Len(c) - 1] \in Gap
  BY DEF EndsInGap
<1>2. Len(c) \in Q /\ Q \in SUBSET ((s + 1)..Len(c))
  BY <1>1
<1>3. Min(Q) \in Q
  <2> HIDE DEF Q
  <2>1. s + 1 \in Nat
    BY <1>1
  <2> QED
    BY <1>1, <1>2, <2>1, MinExists
<1> QED
  BY <1>3 DEF CutEnd

LEMMA ArgsAreInside ==
    ASSUME Len(cmd) >= 2, NEW c, EndsInGap(c), NEW s \in 1..Len(c)
    PROVE  ArgsAt(c, s) \subseteq 1..Len(cmd)
<1>1. CASE c[s] = Nul
  BY <1>1 DEF ArgsAt
<1>2. CASE c[s] # Nul
  <2>1. CutEnd(c, s) \in (s + 1)..Len(c) /\ Len(c) = Len(cmd) /\ Len(c) \in Nat
    BY <1>2, CutEndIs DEF EndsInGap
  <2> QED
    BY <1>2, <2>1 DEF ArgsAt
<1> QED
  BY <1>1, <1>2

LEMMA CutKeepsEnd ==
    ASSUME Len(cmd) >= 2, NEW c, EndsInGap(c), NEW s \in 1..Len(c)
    PROVE  EndsInGap(CutFrom(c, s))
<1>1. CASE c[s] = Nul
  BY <1>1 DEF CutFrom
<1>2. CASE c[s] # Nul
  <2> DEFINE new == [k \in 1..Len(c) |->
                       IF k \in s..(CutEnd(c, s) - 1) /\ c[k] \in Gap THEN Nul ELSE c[k]]
  <2>1. /\ c \in Seq(Texts) /\ Len(c) = Len(cmd) /\ Len(c) \in Nat /\ DOMAIN c = 1..Len(c)
        /\ c[Len(c)] = Nul /\ c[Len(c) - 1] \in Gap
        /\ Len(c) \in 1..Len(c) /\ Len(c) - 1 \in 1..Len(c)
    BY DEF EndsInGap
  <2>2. CutFrom(c, s) = new
    BY <1>2, <2>1 DEF CutFrom
  <2>3. new \in [1..Len(c) -> Texts]
    BY <2>1 DEF Texts
  <2>4. new[Len(c)] = Nul /\ new[Len(c) - 1] \in Gap
    BY <2>1 DEF Gap
  <2> HIDE DEF new
  <2>5. new \in Seq(Texts) /\ Len(new) = Len(c)
    BY <2>1, <2>3
  <2> QED
    BY <2>1, <2>2, <2>4, <2>5 DEF EndsInGap
<1> QED
  BY <1>1, <1>2

LEMMA WordsFit ==
    ASSUME Len(cmd) >= 2, NEW c, EndsInGap(c), NEW s \in 1..Len(c)
    PROVE  CountWords(c, s) \in 0..Len(cmd)
<1> DEFINE P == {j \in s..Len(c) : c[j] \in {Nul}} \cup {Len(c) + 1}
           W == {k \in s..(StringEnd(c, s) - 1) :
                    c[k] # Blank /\ (k = s \/ c[k - 1] = Blank)}
<1>1. Len(c) \in Nat /\ Len(c) = Len(cmd)
  BY DEF EndsInGap
<1>2. StringEnd(c, s) = Min(P)
  BY DEF StringEnd, UpTo
<1>3. P \in SUBSET (s..(Len(c) + 1)) /\ P # {}
  BY <1>1
<1>4. Min(P) \in s..(Len(c) + 1)
  <2> HIDE DEF P
  <2>1. s \in Nat /\ Len(c) + 1 \in Nat
    BY <1>1
  <2> QED
    BY <1>3, <2>1, MinExists
<1>5. W \in SUBSET (1..Len(cmd))
  <2>1. \A k \in s..(Min(P) - 1) : k \in 1..Len(cmd)
    <3> HIDE DEF P
    <3> QED
      BY <1>1, <1>4
  <2> QED
    BY <1>2, <2>1
<1> HIDE DEF W
<1>6. IsFiniteSet(1..Len(cmd)) /\ Cardinality(1..Len(cmd)) = Len(cmd)
  <2>1. 1 \in Int /\ Len(cmd) \in Int /\ ~(1 > Len(cmd)) /\ Len(cmd) - 1 + 1 = Len(cmd)
    BY <1>1
  <2> QED
    BY <2>1, FS_Interval
<1>7. Cardinality(W) <= Len(cmd) /\ Cardinality(W) \in Nat
  BY <1>5, <1>6, FS_Subset, FS_CardinalityType
<1> QED
  BY <1>1, <1>7 DEF CountWords, W

LEMMA ProcsTyped ==
    ASSUME TaskTypes, procs # <<>>, cmd' = cmd,
           \A p \in 1..Len(procs') : ProcTypeOK(procs'[p], Len(procs')),
           fails' \in Seq(1..Stages), Len(fails') <= MaxFails, killed' \in BOOLEAN
    PROVE  TaskTypes'
<1>1. Stages' = Stages
  BY DEF Stages, Starts
<1>2. \A c : EndsInGap(c) => EndsInGap(c)'
  BY DEF EndsInGap
<1>3. \A p \in 1..Len(procs') : ProcTypeOK(procs[p], Len(procs))'
  BY <1>1, <1>2 DEF ProcTypeOK
<1> QED
  BY <1>1, <1>2, <1>3 DEF TaskTypes

LEMMA ChangeKeepsTypes ==
    ASSUME PipelineInv, TaskTypes, cmd' = cmd, NEW p \in Pids, NEW r,
           procs' = [procs EXCEPT ![p] = r], ProcTypeOK(r, Len(procs)),
           fails' \in Seq(1..Stages), Len(fails') <= MaxFails, killed' = killed
    PROVE  TaskTypes'
<1>1. /\ p \in 1..Len(procs) /\ Len(procs') = Len(procs)
      /\ procs'[p] = r /\ \A q \in 1..Len(procs) : q # p => procs'[q] = procs[q]
  BY ProcsIsSeq, OneChanged DEF PipelineInv, ProcsType
<1>2. \A q \in 1..Len(procs') : ProcTypeOK(procs'[q], Len(procs'))
  BY <1>1 DEF TaskTypes
<1>3. procs # <<>> /\ killed' \in BOOLEAN
  BY <1>1 DEF TaskTypes
<1> QED
  BY <1>2, <1>3, ProcsTyped

(* One more process makes no other worse typed.                            *)
LEMMA RoomForOneMore ==
    ASSUME NEW r, NEW n \in Nat, ProcTypeOK(r, n)
    PROVE  ProcTypeOK(r, n + 1)
BY DEF ProcTypeOK

LEMMA ForkKeepsTypes ==
    ASSUME PipelineInv, TaskTypes, NEW p \in Pids, StartStage(p)
    PROVE  TaskTypes'
<1> DEFINE n == Len(procs)
           r == procs[p]
           s == StartOf(r.at)
           c == r.cells
           child == Child(p)
           sup == [procs[p] EXCEPT !.at = @ + 1, !.out = n + 1, !.cells = child.cells]
<1>1. /\ p \in 1..n /\ n \in Nat /\ r.role = "sup" /\ IsProc(r)
      /\ Len(procs') = n + 1 /\ \A q \in 1..n : q # p => procs'[q] = procs[q]
      /\ procs'[n + 1] = child /\ procs'[p] = sup
  BY Forking DEF PipelineInv, ProcsType
<1>2. /\ cmd \in Seq(Texts) /\ Len(cmd) >= 2 /\ Len(cmd) \in Nat /\ procs # <<>>
      /\ ProcTypeOK(r, n) /\ Stages \in Nat
  BY <1>1 DEF TaskTypes
<1>3. /\ r.at \in 1..Stages
      /\ EndsInGap(c) /\ Len(c) = Len(cmd)
  BY <1>2 DEF ProcTypeOK, StartStage, EndsInGap
<1>4. s \in 1..Len(c)
  <2>1. s \in Starts
    BY <1>2, <1>3, StageStarts
  <2> QED
    BY <1>2, <1>3, <2>1 DEF Starts
<1>5. /\ EndsInGap(CutFrom(c, s)) /\ ArgsAt(c, s) \subseteq 1..Len(cmd)
      /\ CountWords(c, s) \in 0..Len(cmd)
  <2> HIDE DEF s, c
  <2> QED
    BY <1>2, <1>3, <1>4, CutKeepsEnd, ArgsAreInside, WordsFit
<1>6. /\ child.role = "new" /\ child.at = r.at /\ child.group = r.group
      /\ child.in = r.in /\ child.out = r.out /\ child.cells = CutFrom(c, s)
      /\ child.args = ArgsAt(c, s) /\ child.argc = CountWords(c, s)
  BY <1>1 DEF Child, IsProc
<1> HIDE DEF child, s, c
<1>7. /\ sup.role = "sup" /\ sup.at = r.at + 1 /\ sup.group = r.group
      /\ sup.in = r.in /\ sup.out = n + 1 /\ sup.cells = child.cells
      /\ sup.args = r.args /\ sup.argc = r.argc
  BY <1>1 DEF IsProc
<1> HIDE DEF sup
<1>8. ProcTypeOK(child, n + 1)
  BY <1>1, <1>2, <1>3, <1>5, <1>6, SMTT(20) DEF ProcTypeOK, Roles
<1>9. ProcTypeOK(sup, n + 1)
  <2>1. r.at + 1 \in 1..(Stages + 1) /\ n + 1 \in 0..(n + 1)
    BY <1>1, <1>2, <1>3
  <2>2. sup.role \in Roles /\ sup.role \notin Forked
    BY <1>7 DEF Roles, Forked
  <2>3. EndsInGap(sup.cells)
    BY <1>5, <1>6, <1>7
  <2>4. ProcTypeOK(r, n + 1)
    BY <1>1, <1>2, RoomForOneMore
  <2> QED
    BY <1>7, <2>1, <2>2, <2>3, <2>4 DEF ProcTypeOK
<1>10. ASSUME NEW q \in 1..(n + 1) PROVE ProcTypeOK(procs'[q], n + 1)
  <2>1. CASE q = p
    BY <1>1, <1>9, <2>1
  <2>2. CASE q = n + 1
    BY <1>1, <1>8, <2>2
  <2>3. CASE q # p /\ q # n + 1
    <3>1. q \in 1..n /\ procs'[q] = procs[q]
      BY <1>1, <2>3
    <3>2. ProcTypeOK(procs[q], n)
      BY <3>1 DEF TaskTypes
    <3> QED
      BY <1>1, <3>1, <3>2, RoomForOneMore
  <2> QED
    BY <2>1, <2>2, <2>3
<1>11. /\ cmd' = cmd /\ fails' \in Seq(1..Stages) /\ Len(fails') <= MaxFails
       /\ killed' \in BOOLEAN
  BY DEF StartStage, TaskTypes
<1> QED
  BY <1>1, <1>2, <1>10, <1>11, ProcsTyped

LEMMA KillKeepsTypes ==
    ASSUME PipelineInv, TaskTypes, Kill
    PROVE  TaskTypes'
<1> DEFINE n == Len(procs)
           After(p) == IF procs[p].group = 1 THEN [procs[p] EXCEPT !.role = "ended"]
                                             ELSE procs[p]
           S == {After(p) : p \in 1..n}
<1>1. n \in Nat /\ \A p \in 1..n : IsProc(procs[p]) /\ ProcTypeOK(procs[p], n)
  BY DEF PipelineInv, ProcsType, TaskTypes
<1>2. procs' = [p \in 1..n |-> After(p)]
  BY ProcsIsSeq DEF PipelineInv, Kill
<1>3. ASSUME NEW p \in 1..n PROVE ProcTypeOK(After(p), n)
  <2> DEFINE r == [procs[p] EXCEPT !.role = "ended"]
  <2>1. /\ r.role = "ended" /\ r.at = procs[p].at /\ r.group = procs[p].group
        /\ r.in = procs[p].in /\ r.out = procs[p].out /\ r.cells = procs[p].cells
        /\ r.args = procs[p].args /\ r.argc = procs[p].argc
    BY <1>1 DEF IsProc
  <2> HIDE DEF r
  <2>2. ProcTypeOK(r, n)
    BY <1>1, <2>1 DEF ProcTypeOK, Roles, Forked
  <2> QED
    BY <1>1, <2>2 DEF r
<1>4. procs' \in [1..n -> S]
  BY <1>2
<1> HIDE DEF After, S
<1>5. Len(procs') = n
  BY <1>1, <1>4
<1>6. \A p \in 1..Len(procs') : ProcTypeOK(procs'[p], Len(procs'))
  BY <1>2, <1>3, <1>5
<1>7. /\ procs # <<>> /\ cmd' = cmd /\ fails' \in Seq(1..Stages)
      /\ Len(fails') <= MaxFails /\ killed' \in BOOLEAN
  BY DEF Kill, TaskTypes
<1> QED
  BY <1>6, <1>7, ProcsTyped

LEMMA StepKeepsTypes ==
    ASSUME PipelineInv, TaskTypes, ExecStep
    PROVE  TaskTypes'
<1>1. ASSUME NEW p \in Pids
      PROVE  /\ p \in 1..Len(procs) /\ IsProc(procs[p])
             /\ ProcTypeOK(procs[p], Len(procs)) /\ Stages \in Nat
             /\ fails \in Seq(1..Stages) /\ Len(fails) <= MaxFails
  BY <1>1, ProcsIsSeq DEF PipelineInv, ProcsType, TaskTypes
<1>2. ASSUME NEW p \in Pids, NEW role \in {"ended", "stage"},
             role = "stage" => procs[p].role = "own",
             Becomes(p, role), cmd' = cmd, fails' = fails, killed' = killed
      PROVE  TaskTypes'
  <2> DEFINE r == [procs[p] EXCEPT !.role = role]
  <2>1. procs' = [procs EXCEPT ![p] = r]
    BY <1>2 DEF Becomes
  <2>2. /\ r.role = role /\ r.at = procs[p].at /\ r.group = procs[p].group
        /\ r.in = procs[p].in /\ r.out = procs[p].out /\ r.cells = procs[p].cells
        /\ r.args = procs[p].args /\ r.argc = procs[p].argc
    BY <1>1 DEF IsProc
  <2> HIDE DEF r
  <2>3. ProcTypeOK(r, Len(procs))
    BY <1>1, <1>2, <2>2 DEF ProcTypeOK, Roles, Forked
  <2>4. fails' \in Seq(1..Stages) /\ Len(fails') <= MaxFails
    BY <1>1, <1>2
  <2> QED
    BY <1>2, <2>1, <2>3, <2>4, ChangeKeepsTypes
<1>3. ASSUME NEW p \in Pids, SupEnds(p) \/ StageEnds(p) PROVE TaskTypes'
  BY <1>2, <1>3 DEF SupEnds, StageEnds
<1>4. ASSUME NEW p \in Pids, Exec(p) PROVE TaskTypes'
  BY <1>2, <1>4 DEF Exec
<1>5. ASSUME NEW p \in Pids, Setsid(p) PROVE TaskTypes'
  <2> DEFINE r == [procs[p] EXCEPT !.role = "own", !.group = p, !.in = p]
  <2>1. /\ procs' = [procs EXCEPT ![p] = r] /\ procs[p].role = "new"
        /\ cmd' = cmd /\ fails' = fails /\ killed' = killed
    BY <1>5 DEF Setsid
  <2>2. /\ r.role = "own" /\ r.at = procs[p].at /\ r.group = p
        /\ r.in = p /\ r.out = procs[p].out /\ r.cells = procs[p].cells
        /\ r.args = procs[p].args /\ r.argc = procs[p].argc
    BY <1>1 DEF IsProc
  <2> HIDE DEF r
  <2>3. ProcTypeOK(r, Len(procs))
    BY <1>1, <2>1, <2>2 DEF ProcTypeOK, Roles, Forked
  <2>4. fails' \in Seq(1..Stages) /\ Len(fails') <= MaxFails
    BY <1>1, <2>1
  <2> QED
    BY <2>1, <2>3, <2>4, ChangeKeepsTypes
<1>6. ASSUME NEW p \in Pids, ExecFails(p) PROVE TaskTypes'
  <2> DEFINE r == [procs[p] EXCEPT !.role = "sup", !.at = @ + 1]
             k == procs[p].at
  <2>1. /\ procs' = [procs EXCEPT ![p] = r] /\ procs[p].role = "own"
        /\ Len(fails) < MaxFails /\ fails' = Append(fails, k)
        /\ cmd' = cmd /\ killed' = killed
    BY <1>6 DEF ExecFails
  <2>2. /\ r.role = "sup" /\ r.at = k + 1 /\ r.group = procs[p].group
        /\ r.in = procs[p].in /\ r.out = procs[p].out /\ r.cells = procs[p].cells
        /\ r.args = procs[p].args /\ r.argc = procs[p].argc
    BY <1>1 DEF IsProc
  <2> HIDE DEF r
  <2>3. k \in 1..Stages
    BY <1>1, <2>1 DEF ProcTypeOK, Forked
  <2>4. ProcTypeOK(r, Len(procs))
    <3>1. k + 1 \in 1..(Stages + 1)
      BY <1>1, <2>3
    <3>2. r.role \in Roles /\ r.role \notin Forked
      BY <2>2 DEF Roles, Forked
    <3> QED
      BY <1>1, <2>2, <3>1, <3>2 DEF ProcTypeOK
  <2>5. fails' \in Seq(1..Stages) /\ Len(fails') <= MaxFails
    BY <1>1, <2>1, <2>3, ExecAssumption
  <2> QED
    BY <2>1, <2>4, <2>5, ChangeKeepsTypes
<1> QED
  BY <1>3, <1>4, <1>5, <1>6, ForkKeepsTypes, KillKeepsTypes
     DEF ExecStep, SupStep, ChildStep

(* A text that ends in a blank, as every line does.                        *)
LEMMA LaunchTyped ==
    ASSUME TaskTypes, fails = <<>>, NEW text \in Seq(Chars), Launch(text),
           Len(text) >= 1, text[Len(text)] = Blank
    PROVE  TaskTypes'
<1> DEFINE n == Len(text)
           s == Supervisor(cmd')
<1>1. /\ cmd' = Append(text, Nul) /\ procs' = <<s>>
      /\ fails' = fails /\ killed' = killed
  BY DEF Launch
<1>2. /\ cmd' \in Seq(Texts) /\ Len(cmd') = n + 1 /\ n \in Nat
      /\ cmd'[n + 1] = Nul /\ cmd'[n] = Blank
  BY <1>1 DEF Texts
<1>3. EndsInGap(cmd)'
  BY <1>2 DEF EndsInGap, Gap
<1>4. Stages' \in Nat
  <2>1. Starts' \in SUBSET (1..(n + 1))
    BY <1>2 DEF Starts
  <2>2. IsFiniteSet(1..(n + 1))
    BY <1>2, FS_Interval
  <2> QED
    BY <2>1, <2>2, FS_Subset, FS_CardinalityType DEF Stages
<1>5. EndsInGap(AtBars(cmd))'
  <2> DEFINE c == [k \in 1..(n + 1) |-> IF EndsStage(cmd', k) THEN Nul ELSE cmd'[k]]
  <2>1. AtBars(cmd)' = c
    BY <1>2 DEF AtBars
  <2>2. c \in [1..(n + 1) -> Texts] /\ n \in 1..(n + 1) /\ n + 1 \in 1..(n + 1)
    BY <1>2 DEF Texts
  <2>3. c[n] = Blank /\ c[n + 1] = Nul
    BY <1>2, <2>2, CharactersAssumption DEF EndsStage
  <2> HIDE DEF c
  <2>4. c \in Seq(Texts) /\ Len(c) = n + 1
    BY <1>2, <2>2
  <2> QED
    BY <1>2, <2>1, <2>3, <2>4 DEF EndsInGap, Gap
<1>6. /\ s.role = "sup" /\ s.at = 1 /\ s.group = 1 /\ s.in = 0 /\ s.out = 0
      /\ s.cells = AtBars(cmd') /\ s.args = {} /\ s.argc = 0
  BY DEF Supervisor
<1> HIDE DEF s
<1>7. Len(procs') = 1 /\ procs'[1] = s
  BY <1>1
<1>8. ProcTypeOK(procs[1], Len(procs))'
  BY <1>2, <1>4, <1>5, <1>6, <1>7 DEF ProcTypeOK, Roles, Forked
<1>9. \A p \in 1..Len(procs') : ProcTypeOK(procs[p], Len(procs))'
  BY <1>7, <1>8
<1>10. fails' \in Seq(1..Stages') /\ Len(fails') <= MaxFails /\ killed' \in BOOLEAN
  BY <1>1 DEF TaskTypes
<1> QED
  BY <1>2, <1>3, <1>4, <1>9, <1>10 DEF TaskTypes

LEMMA TypesMeanTyped ==
    ASSUME PipelineInv, TaskTypes
    PROVE  ExecTypeOK
<1>1. Pids = 1..Len(procs) /\ DOMAIN cmd = 1..Len(cmd)
  BY ProcsIsSeq DEF PipelineInv, TaskTypes
<1>2. ASSUME NEW p \in 1..Len(procs) PROVE ProcOK(procs[p])
  <2>1. ProcTypeOK(procs[p], Len(procs))
    BY DEF TaskTypes
  <2>2. DOMAIN procs[p].cells = DOMAIN cmd
    BY <1>1, <2>1 DEF ProcTypeOK, EndsInGap
  <2> QED
    BY <1>1, <2>1, <2>2 DEF ProcTypeOK, ProcOK
<1> QED
  BY <1>1, <1>2 DEF ExecTypeOK, TaskTypes

-----------------------------------------------------------------------------
(* The words of a command as documented.  What the supervisor and its      *)
(* children cut lies behind them: from the start of the next stage on      *)
(* their copies of the command are cut at its bars only.                   *)
Documented == AsDocumented /\ cmd \in Seq(Texts) /\ cmd[Len(cmd)] = Nul

Uncut(c, s) ==
    /\ c \in Seq(Texts) /\ Len(c) = Len(cmd)
    /\ \A k \in s..Len(cmd) : c[k] = AtBars(cmd)[k]

EndOfStage(s) == UpTo(cmd, {Bar, Nul}, s)
WordsFrom(s) ==
    {k \in s..(EndOfStage(s) - 1) : IsChar(k) /\ (k = 1 \/ ~IsChar(k - 1))}

(* Two strings that are alike from place k on as far as e, where both have *)
(* what is looked for.                                                     *)
Alike(c, S, d, T, k, e) ==
    /\ Len(c) \in Nat /\ Len(d) = Len(c) /\ k \in 1..Len(c) /\ e \in k..Len(c)
    /\ c[e] \in S /\ \A j \in k..e : c[j] \in S <=> d[j] \in T

LEMMA AlikeUpTo ==
    ASSUME NEW c, NEW S, NEW d, NEW T, NEW k, NEW e, Alike(c, S, d, T, k, e)
    PROVE  /\ UpTo(c, S, k) = UpTo(d, T, k)
           /\ UpTo(c, S, k) \in k..e /\ c[UpTo(c, S, k)] \in S
           /\ \A j \in k..(UpTo(c, S, k) - 1) : c[j] \notin S
<1> DEFINE P == {j \in k..Len(c) : c[j] \in S} \cup {Len(c) + 1}
           Q == {j \in k..Len(d) : d[j] \in T} \cup {Len(d) + 1}
<1>1. /\ P \in SUBSET (k..(Len(c) + 1)) /\ Q \in SUBSET (k..(Len(c) + 1))
      /\ k \in Nat /\ Len(c) + 1 \in Nat
  BY DEF Alike
<1>2. e \in P /\ e \in Q
  BY <1>1 DEF Alike
<1>3. /\ Min(P) \in P /\ \A j \in P : Min(P) <= j
      /\ Min(Q) \in Q /\ \A j \in Q : Min(Q) <= j
  <2> HIDE DEF P, Q
  <2> QED
    BY <1>1, <1>2, MinExists
<1>4. Min(P) \in k..e /\ Min(Q) \in k..e
  <2>1. /\ Min(P) \in k..(Len(c) + 1) /\ Min(P) <= e
        /\ Min(Q) \in k..(Len(c) + 1) /\ Min(Q) <= e
    <3> HIDE DEF P, Q
    <3> QED
      BY <1>1, <1>2, <1>3 DEF Alike
  <2> HIDE DEF P, Q
  <2> QED
    BY <1>1, <2>1 DEF Alike
<1>5. \A j \in k..e : (j \in P <=> c[j] \in S) /\ (j \in Q <=> d[j] \in T)
  BY DEF Alike
<1> HIDE DEF P, Q
<1>6. Min(P) \in Q /\ Min(Q) \in P
  BY <1>3, <1>4, <1>5 DEF Alike
<1>7. Min(P) = Min(Q)
  BY <1>3, <1>4, <1>6
<1>8. \A j \in k..(Min(P) - 1) : j \notin P /\ j \in k..e
  BY <1>1, <1>3, <1>4 DEF Alike
<1> QED
  BY <1>3, <1>4, <1>5, <1>7, <1>8 DEF UpTo, P, Q

LEMMA DocumentedMeans ==
    ASSUME Documented
    PROVE  /\ Len(cmd) \in Nat /\ Len(cmd) >= 3 /\ cmd[Len(cmd)] = Nul
           /\ IsChar(1) /\ cmd[Len(cmd) - 1] = Blank
           /\ \A k \in 1..(Len(cmd) - 1) : cmd[k] # Nul
           /\ \A k \in 2..Len(cmd) : cmd[k] \in {Bar, Nul} => cmd[k - 1] = Blank
           /\ \A k \in 1..(Len(cmd) - 1) : cmd[k] = Bar => cmd[k + 1] = Blank
           /\ \A k \in 1..(Len(cmd) - 2) : cmd[k] = Blank => cmd[k + 1] # Blank
<1> DEFINE n == Len(cmd)
<1>1. /\ n \in Nat /\ n # 0 /\ cmd[n] = Nul /\ IsChar(1) /\ cmd[n - 1] = Blank
  BY DEF Documented, AsDocumented
<1>2. ASSUME NEW k \in 2..(n - 2)
      PROVE  /\ cmd[k] # Nul
             /\ cmd[k] = Bar => cmd[k - 1] = Blank /\ cmd[k + 1] = Blank
             /\ cmd[k] = Blank => (IsChar(k - 1) /\ cmd[k + 1] # Blank)
                                     \/ (cmd[k - 1] = Bar /\ IsChar(k + 1))
  BY <1>2, CharactersAssumption DEF Documented, AsDocumented
<1> HIDE DEF n
<1>3. n >= 3
  <2>1. n # 1
    BY <1>1 DEF IsChar
  <2>2. n # 2
    BY <1>1 DEF IsChar
  <2> QED
    BY <1>1, <2>1, <2>2
<1>4. \A k \in 1..(n - 1) : k = 1 \/ k = n - 1 \/ k \in 2..(n - 2)
  BY <1>1
<1>5. \A k \in 1..(n - 1) : cmd[k] # Nul
  BY <1>1, <1>2, <1>4, CharactersAssumption DEF IsChar
<1>6. ASSUME NEW k \in 2..n, cmd[k] \in {Bar, Nul} PROVE cmd[k - 1] = Blank
  <2>1. CASE k = n
    BY <1>1, <2>1
  <2>2. CASE k # n
    <3>1. k # n - 1 /\ cmd[k] = Bar
      BY <1>1, <1>5, <1>6, <2>2, CharactersAssumption
    <3>2. k \in 2..(n - 2)
      BY <1>1, <2>2, <3>1
    <3> QED
      BY <1>2, <3>1, <3>2
  <2> QED
    BY <2>1, <2>2
<1>7. \A k \in 1..(n - 1) : cmd[k] = Bar => cmd[k + 1] = Blank
  BY <1>1, <1>2, <1>4, CharactersAssumption DEF IsChar
<1>8. ASSUME NEW k \in 1..(n - 2), cmd[k] = Blank PROVE cmd[k + 1] # Blank
  <2>1. k \in 2..(n - 2)
    BY <1>1, <1>8 DEF IsChar
  <2> QED
    BY <1>2, <1>8, <2>1 DEF IsChar
<1> QED
  BY <1>1, <1>3, <1>5, <1>6, <1>7, <1>8 DEF n

LEMMA BarsAreCut ==
    ASSUME Documented
    PROVE  \A k \in 1..Len(cmd) :
             AtBars(cmd)[k] = IF cmd[k] = Bar THEN Nul ELSE cmd[k]
<1> SUFFICES ASSUME NEW k \in 1..Len(cmd)
             PROVE  AtBars(cmd)[k] = IF cmd[k] = Bar THEN Nul ELSE cmd[k]
  OBVIOUS
<1>1. AtBars(cmd)[k] = IF EndsStage(cmd, k) THEN Nul ELSE cmd[k]
  BY DEF AtBars, Documented
<1>2. cmd[k] = Bar => EndsStage(cmd, k)
  <2> SUFFICES ASSUME cmd[k] = Bar PROVE EndsStage(cmd, k)
    OBVIOUS
  <2>1. k # 1
    BY DocumentedMeans DEF IsChar
  <2>2. k \in 2..Len(cmd) /\ k > 1
    BY <2>1, DocumentedMeans
  <2>3. cmd[k - 1] = Blank
    BY <2>2, DocumentedMeans
  <2> QED
    BY <2>2, <2>3, CharactersAssumption DEF EndsStage
<1> QED
  BY <1>1, <1>2 DEF EndsStage

(* A stage as it is before its words are cut: CutEnd, count_words and the  *)
(* bar or the end agree about where it ends.                               *)
LEMMA StageIs ==
    ASSUME Documented, NEW s \in Starts, NEW c, Uncut(c, s)
    PROVE  /\ s \in 1..(Len(cmd) - 1) /\ EndOfStage(s) \in (s + 1)..Len(cmd)
           /\ cmd[EndOfStage(s)] \in {Bar, Nul} /\ c[EndOfStage(s)] = Nul
           /\ \A k \in s..(EndOfStage(s) - 1) :
                cmd[k] \notin {Bar, Nul} /\ c[k] = cmd[k]
           /\ StringEnd(c, s) = EndOfStage(s) /\ CutEnd(c, s) = EndOfStage(s)
           /\ c[s] # Nul
<1> DEFINE n == Len(cmd)
           e == EndOfStage(s)
<1>1. n \in Nat /\ n >= 3 /\ cmd[n] = Nul /\ Len(c) = n
  BY DocumentedMeans DEF Uncut
<1>2. s \in 1..n /\ cmd[s] \notin {Bar, Nul}
  BY DEF Starts, BeginsStage, Documented
<1>3. s \in 1..(n - 1)
  <2>1. s # n
    BY <1>1, <1>2
  <2> QED
    BY <1>1, <1>2, <2>1
<1>4. \A k \in s..n : c[k] = IF cmd[k] = Bar THEN Nul ELSE cmd[k]
  <2>1. \A k \in s..n : k \in 1..n
    BY <1>1, <1>2
  <2> QED
    BY <2>1, BarsAreCut DEF Uncut
<1> HIDE DEF n
<1>5. /\ e = UpTo(c, {Nul}, s) /\ e \in s..n /\ cmd[e] \in {Bar, Nul}
      /\ \A k \in s..(e - 1) : cmd[k] \notin {Bar, Nul}
  <2> DEFINE S == {Bar, Nul}
             T == {Nul}
  <2>1. /\ \A j \in s..n : cmd[j] \in S <=> c[j] \in T
        /\ n \in s..n /\ cmd[n] \in S
    BY <1>1, <1>2, <1>4
  <2>2. e = UpTo(cmd, S, s)
    BY DEF EndOfStage
  <2> HIDE DEF S, T, e
  <2>3. Alike(cmd, S, c, T, s, n)
    BY <1>1, <1>2, <2>1 DEF Alike, n
  <2>4. /\ e = UpTo(c, T, s) /\ e \in s..n /\ cmd[e] \in S
        /\ \A k \in s..(e - 1) : cmd[k] \notin S
    BY <2>2, <2>3, AlikeUpTo
  <2> QED
    BY <2>4 DEF S, T
<1> HIDE DEF e
<1>6. e # s
  BY <1>2, <1>5
<1>7. e \in (s + 1)..n /\ c[e] = Nul
  BY <1>1, <1>2, <1>4, <1>5, <1>6
<1>8. \A k \in s..(e - 1) : cmd[k] \notin {Bar, Nul} /\ c[k] = cmd[k] /\ c[k] # Nul
  <2>1. \A k \in s..(e - 1) : k \in s..n
    BY <1>1, <1>2, <1>5
  <2> QED
    BY <1>4, <1>5, <2>1
<1>9. CutEnd(c, s) = e
  <2> DEFINE Q == {k \in (s + 1)..Len(c) : c[k] = Nul /\ c[k - 1] \in Gap}
  <2>1. cmd[e - 1] = Blank
    <3>1. e \in 2..n
      BY <1>1, <1>2, <1>7
    <3> QED
      BY <1>5, <3>1, DocumentedMeans DEF n
  <2>2. e - 1 \in s..(e - 1)
    BY <1>1, <1>2, <1>7
  <2>3. e \in Q /\ Q \in SUBSET ((s + 1)..n) /\ s + 1 \in Nat
    BY <1>1, <1>2, <1>7, <1>8, <2>1, <2>2 DEF Gap
  <2>4. \A k \in Q : k \in (s + 1)..n /\ c[k] = Nul
    BY <1>1
  <2> HIDE DEF Q
  <2>5. Min(Q) \in Q /\ Min(Q) <= e
    BY <1>1, <2>3, MinExists
  <2>6. Min(Q) \notin s..(e - 1)
    BY <1>8, <2>4, <2>5
  <2>7. Min(Q) \in (s + 1)..n
    BY <2>4, <2>5
  <2>8. Min(Q) = e
    BY <1>1, <1>2, <1>7, <2>5, <2>6, <2>7
  <2> QED
    BY <2>8 DEF CutEnd, Q
<1>10. s \in s..(e - 1)
  BY <1>1, <1>2, <1>7
<1> QED
  BY <1>3, <1>5, <1>7, <1>8, <1>9, <1>10 DEF StringEnd, e, n

(* argv and argc of a stage: its words, and from the second stage on the   *)
(* empty argument in front of them that argc does not count.               *)
LEMMA ArgsAreWords ==
    ASSUME Documented, NEW s \in Starts, NEW c, Uncut(c, s)
    PROVE  /\ ArgsAt(c, s) = WordsFrom(s) \cup (IF s = 1 THEN {} ELSE {s})
           /\ CountWords(c, s) = Cardinality(WordsFrom(s))
<1> DEFINE n == Len(cmd)
           e == EndOfStage(s)
           W == WordsFrom(s)
<1>1. /\ n \in Nat /\ s \in 1..(n - 1) /\ e \in (s + 1)..n /\ c[s] # Nul
      /\ StringEnd(c, s) = e /\ CutEnd(c, s) = e
  BY StageIs, DocumentedMeans
<1>2. \A k \in s..(e - 1) : cmd[k] \notin {Bar, Nul} /\ c[k] = cmd[k]
  BY StageIs
<1>3. \A k \in s..(e - 1) : k = s \/ (k \in (s + 1)..(e - 1) /\ k - 1 \in s..(e - 1))
  BY <1>1
<1>4. \A k \in (s + 1)..(e - 1) : k \in s..(e - 1) /\ k # s /\ k # 1 /\ k - 1 \in s..(e - 1)
  BY <1>1
<1>5. \A k \in s..(e - 1) : IsChar(k) <=> cmd[k] # Blank
  BY <1>2 DEF IsChar
<1>6. s # 1 => cmd[s] = Blank
  <2> SUFFICES ASSUME s # 1 PROVE cmd[s] = Blank
    OBVIOUS
  <2>1. cmd[s - 1] = Bar
    BY DEF Starts, BeginsStage
  <2>2. s - 1 \in 1..(n - 1) /\ s - 1 + 1 = s
    BY <1>1
  <2> HIDE DEF n
  <2>3. cmd[s - 1 + 1] = Blank
    BY <2>1, <2>2, DocumentedMeans DEF n
  <2> QED
    BY <2>2, <2>3
<1>7. s = 1 => cmd[s] # Blank
  BY DocumentedMeans DEF IsChar
<1>8. \A k \in (s + 1)..(e - 1) : cmd[k - 1] = Blank => cmd[k] # Blank
  <2> SUFFICES ASSUME NEW k \in (s + 1)..(e - 1), cmd[k - 1] = Blank
               PROVE  cmd[k] # Blank
    OBVIOUS
  <2>1. k - 1 \in 1..(n - 2) /\ k - 1 + 1 = k
    BY <1>1
  <2> HIDE DEF n
  <2>2. cmd[k - 1 + 1] # Blank
    BY <2>1, DocumentedMeans DEF n
  <2> QED
    BY <2>1, <2>2
<1>9. ASSUME NEW k \in (s + 1)..(e - 1)
      PROVE  /\ k \in W <=> cmd[k - 1] = Blank
             /\ c[k - 1] \in Gap <=> cmd[k - 1] = Blank
             /\ c[k - 1] = Blank <=> cmd[k - 1] = Blank
             /\ cmd[k - 1] = Blank => c[k] # Blank
  <2>1. /\ k \in s..(e - 1) /\ k # 1 /\ k - 1 \in s..(e - 1)
        /\ c[k] = cmd[k] /\ c[k - 1] = cmd[k - 1] /\ cmd[k - 1] # Nul
    BY <1>2, <1>4
  <2>2. k \in W <=> cmd[k] # Blank /\ cmd[k - 1] = Blank
    BY <1>5, <2>1 DEF WordsFrom
  <2> QED
    BY <1>8, <2>1, <2>2 DEF Gap
<1>10. s \in W <=> s = 1
  <2>1. s \in s..(e - 1)
    BY <1>1
  <2>2. s \in W => IsChar(s)
    BY DEF WordsFrom
  <2>3. s = 1 => s \in W
    BY <2>1, DocumentedMeans DEF WordsFrom
  <2> QED
    BY <1>6, <2>1, <2>2, <2>3 DEF IsChar
<1>11. W \in SUBSET (s..(e - 1))
  BY DEF WordsFrom
<1>12. ArgsAt(c, s) = {s} \cup {k \in (s + 1)..(e - 1) : c[k - 1] \in Gap}
  BY <1>1 DEF ArgsAt
<1>13. CountWords(c, s) =
         Cardinality({k \in s..(e - 1) : c[k] # Blank /\ (k = s \/ c[k - 1] = Blank)})
  BY <1>1 DEF CountWords
<1> HIDE DEF W, e, n
<1>14. {k \in s..(e - 1) : c[k] # Blank /\ (k = s \/ c[k - 1] = Blank)} = W
  <2>1. ASSUME NEW k \in s..(e - 1)
        PROVE  k \in W <=> c[k] # Blank /\ (k = s \/ c[k - 1] = Blank)
    <3>1. CASE k = s
      BY <1>2, <1>6, <1>7, <1>10, <3>1
    <3>2. CASE k # s
      BY <1>3, <1>9, <3>2
    <3> QED
      BY <3>1, <3>2
  <2> QED
    BY <1>11, <2>1
<1>15. {s} \cup {k \in (s + 1)..(e - 1) : c[k - 1] \in Gap}
         = W \cup (IF s = 1 THEN {} ELSE {s})
  <2>1. {k \in (s + 1)..(e - 1) : c[k - 1] \in Gap} = W \ {s}
    <3>1. \A k \in W : k = s \/ k \in (s + 1)..(e - 1)
      BY <1>3, <1>11
    <3> QED
      BY <1>4, <1>9, <3>1
  <2> QED
    BY <1>10, <2>1
<1> QED
  BY <1>12, <1>13, <1>14, <1>15 DEF W

(* Once the words of a stage are cut, each ends where the user ended it,   *)
(* and the stages behind are as they were.                                 *)
LEMMA WordsAreCut ==
    ASSUME Documented, NEW s \in Starts, NEW c, Uncut(c, s)
    PROVE  /\ \A k \in WordsFrom(s) : StringEnd(CutFrom(c, s), k) = EndOfWord(k)
           /\ \A k \in EndOfStage(s)..Len(cmd) : CutFrom(c, s)[k] = AtBars(cmd)[k]
<1> DEFINE n == Len(cmd)
           e == EndOfStage(s)
           new == CutFrom(c, s)
<1>1. /\ n \in Nat /\ s \in 1..(n - 1) /\ e \in (s + 1)..n /\ c[s] # Nul
      /\ CutEnd(c, s) = e /\ cmd[e] \in {Bar, Nul} /\ c[e] = Nul
      /\ c \in Seq(Texts) /\ Len(c) = n /\ DOMAIN c = 1..n
  BY StageIs, DocumentedMeans DEF Uncut
<1>2. \A k \in s..(e - 1) : cmd[k] \notin {Bar, Nul} /\ c[k] = cmd[k]
  BY StageIs
<1>3. new = [k \in 1..n |-> IF k \in s..(e - 1) /\ c[k] \in Gap THEN Nul ELSE c[k]]
  BY <1>1 DEF CutFrom
<1> HIDE DEF n, new, e
<1>4. \A k \in s..(e - 1) : new[k] = IF cmd[k] = Blank THEN Nul ELSE cmd[k]
  <2>1. \A k \in s..(e - 1) : k \in 1..n
    BY <1>1
  <2> QED
    BY <1>2, <1>3, <2>1 DEF Gap
<1>5. \A k \in e..n : new[k] = c[k]
  <2>1. \A k \in e..n : k \in 1..n /\ k \notin s..(e - 1)
    BY <1>1
  <2> QED
    BY <1>3, <2>1
<1>6. Len(new) = n
  <2>1. new \in [1..n -> Texts]
    <3>1. \A k \in 1..n : c[k] \in Texts
      BY <1>1
    <3> QED
      BY <1>3, <3>1 DEF Texts
  <2>2. new \in Seq(Texts)
    BY <1>1, <2>1
  <2> QED
    BY <1>1, <2>1, <2>2
<1>7. ASSUME NEW k \in WordsFrom(s) PROVE StringEnd(new, k) = EndOfWord(k)
  <2> DEFINE S == {Blank, Bar, Nul}
             T == {Nul}
  <2>1. k \in s..(e - 1)
    BY DEF WordsFrom, e
  <2>2. ASSUME NEW j \in k..e PROVE cmd[j] \in S <=> new[j] \in T
    <3>1. CASE j = e
      <4>1. e \in e..n
        BY <1>1
      <4> QED
        BY <1>1, <1>5, <3>1, <4>1
    <3>2. CASE j # e
      <4>1. j \in s..(e - 1)
        BY <1>1, <2>1, <3>2
      <4> QED
        BY <1>2, <1>4, <4>1, CharactersAssumption
    <3> QED
      BY <3>1, <3>2
  <2>3. cmd[e] \in S
    BY <1>1
  <2> HIDE DEF S, T
  <2>4. Alike(cmd, S, new, T, k, e)
    <3>1. Len(cmd) = n
      BY DEF n
    <3>2. k \in 1..n /\ e \in k..n
      BY <1>1, <2>1
    <3> QED
      BY <1>1, <1>6, <2>2, <2>3, <3>1, <3>2 DEF Alike
  <2>5. UpTo(cmd, S, k) = UpTo(new, T, k)
    BY <2>4, AlikeUpTo
  <2> QED
    BY <2>5 DEF S, T, StringEnd, EndOfWord
<1>8. ASSUME NEW k \in e..n PROVE new[k] = AtBars(cmd)[k]
  <2>1. k \in s..n
    BY <1>1
  <2> QED
    BY <1>5, <2>1 DEF Uncut, n
<1> QED
  BY <1>7, <1>8 DEF n, e, new

(* The stages lie one behind the other, the first at the first character.  *)
LEMMA StageIsNth ==
    ASSUME cmd \in Seq(Texts), NEW n \in 1..Stages
    PROVE  Cardinality(Below(Starts, StartOf(n))) = n - 1
<1>1. Starts \in SUBSET (1..Len(cmd)) /\ Len(cmd) \in Nat
  BY DEF Starts
<1>2. IsFiniteSet(Starts) /\ Starts \in SUBSET Nat
  <2>1. IsFiniteSet(1..Len(cmd)) /\ (1..Len(cmd)) \in SUBSET Nat
    BY <1>1, FS_Interval
  <2> QED
    BY <1>1, <2>1, FS_Subset
<1>3. Stages \in Nat /\ n - 1 \in Nat /\ n - 1 < Cardinality(Starts)
  BY <1>2, FS_CardinalityType DEF Stages
<1>4. \E k \in Starts : Cardinality({j \in Starts : j < k}) = n - 1
  BY <1>2, <1>3, NthExists DEF Below
<1> QED
  BY <1>4 DEF StartOf, Below

LEMMA StagesInOrder ==
    ASSUME Documented, NEW n \in 1..Stages
    PROVE  /\ StartOf(n) \in Starts /\ (n = 1 <=> StartOf(n) = 1)
           /\ n + 1 \in 1..Stages =>
                StartOf(n + 1) \in EndOfStage(StartOf(n))..Len(cmd)
<1> DEFINE s == StartOf(n)
           t == StartOf(n + 1)
<1>1. cmd \in Seq(Texts) /\ Len(cmd) \in Nat /\ n \in Nat /\ n >= 1
  BY StagesIsNat DEF Documented
<1>2. s \in Starts /\ Cardinality(Below(Starts, s)) = n - 1
  BY <1>1, StageStarts, StageIsNth
<1>3. Starts \in SUBSET (1..Len(cmd)) /\ IsFiniteSet(1..Len(cmd))
  <2>1. Starts \in SUBSET (1..Len(cmd))
    BY <1>1 DEF Starts
  <2> QED
    BY <1>1, <2>1, FS_Interval
<1>4. \A k : IsFiniteSet(Below(Starts, k)) /\ Cardinality(Below(Starts, k)) \in Nat
  <2> TAKE k
  <2>1. Below(Starts, k) \in SUBSET (1..Len(cmd))
    BY <1>3 DEF Below
  <2> QED
    BY <1>3, <2>1, FS_Subset, FS_CardinalityType
<1>5. 1 \in Starts
  <2>1. 1 \in 1..Len(cmd) /\ IsChar(1)
    BY DocumentedMeans
  <2> QED
    BY <1>1, <2>1 DEF Starts, BeginsStage, IsChar
<1>6. n = 1 => s = 1
  <2> SUFFICES ASSUME n = 1 PROVE s = 1
    OBVIOUS
  <2>1. Below(Starts, s) = {}
    <3>1. Cardinality(Below(Starts, s)) = 0
      BY <1>2
    <3> QED
      BY <1>4, <3>1, FS_EmptySet
  <2>2. ~(1 < s)
    BY <1>5, <2>1 DEF Below
  <2>3. s \in 1..Len(cmd)
    BY <1>2, <1>3
  <2> HIDE DEF s
  <2> QED
    BY <1>1, <2>2, <2>3
<1>7. s = 1 => n = 1
  <2> SUFFICES ASSUME s = 1 PROVE n = 1
    OBVIOUS
  <2>0. \A j \in Starts : ~(j < 1)
    BY <1>1, <1>3
  <2> HIDE DEF s
  <2>1. Below(Starts, s) = {}
    BY <2>0 DEF Below
  <2>2. Cardinality(Below(Starts, s)) = 0
    BY <2>1, FS_EmptySet
  <2> QED
    BY <1>1, <1>2, <2>2
<1>8. n + 1 \in 1..Stages => t \in EndOfStage(s)..Len(cmd)
  <2> SUFFICES ASSUME n + 1 \in 1..Stages PROVE t \in EndOfStage(s)..Len(cmd)
    OBVIOUS
  <2>1. t \in Starts /\ Cardinality(Below(Starts, t)) = n
    BY <1>1, StageStarts, StageIsNth
  <2> HIDE DEF s, t
  <2>2. s \in 1..Len(cmd) /\ t \in 1..Len(cmd)
    BY <1>2, <1>3, <2>1
  <2>3. ~(t <= s)
    <3> SUFFICES ASSUME t <= s PROVE FALSE
      OBVIOUS
    <3>1. \A j \in Starts : j < t => j < s
      BY <1>1, <1>3, <2>2
    <3>2. Below(Starts, t) \in SUBSET Below(Starts, s)
      BY <3>1 DEF Below
    <3>3. n <= n - 1
      BY <1>2, <1>4, <2>1, <3>2, FS_Subset
    <3> QED
      BY <1>1, <3>3
  <2>4. cmd[t - 1] = Bar /\ t - 1 \in s..Len(cmd)
    <3>1. t # 1 /\ t - 1 \in s..Len(cmd)
      BY <1>1, <2>2, <2>3
    <3> QED
      BY <2>1, <3>1 DEF Starts, BeginsStage
  <2>5. /\ EndOfStage(s) \in (s + 1)..Len(cmd)
        /\ \A k \in s..(EndOfStage(s) - 1) : cmd[k] \notin {Bar, Nul}
    <3> DEFINE c == AtBars(cmd)
    <3>1. Uncut(c, s)
      <4>1. c = [k \in 1..Len(cmd) |-> IF EndsStage(cmd, k) THEN Nul ELSE cmd[k]]
        BY <1>1 DEF AtBars
      <4>2. c \in [1..Len(cmd) -> Texts]
        BY <1>1, <4>1 DEF Texts
      <4> HIDE DEF c
      <4>3. c \in Seq(Texts) /\ Len(c) = Len(cmd)
        BY <1>1, <4>2
      <4> QED
        BY <4>3 DEF Uncut, c
    <3> QED
      BY <1>2, <3>1, StageIs
  <2>6. t - 1 \notin s..(EndOfStage(s) - 1)
    BY <2>4, <2>5
  <2> QED
    BY <1>1, <2>2, <2>4, <2>5, <2>6
<1> QED
  BY <1>2, <1>6, <1>7, <1>8

-----------------------------------------------------------------------------
(* Each process on the way: a supervisor has the stages still to come as   *)
(* they were, and so has the child that may become one; the child has the  *)
(* words of its own stage.                                                 *)
RestUncut(r, n) == n <= Stages => Uncut(r.cells, StartOf(n))

ArgvOf(r) ==
    LET words == WordsOf(r.at)
    IN  /\ r.args = words \cup (IF r.at = 1 THEN {} ELSE {StartOf(r.at)})
        /\ r.argc = Cardinality(words)
        /\ \A k \in words : StringEnd(r.cells, k) = EndOfWord(k)

ArgvKept(r) ==
    /\ r.role = "sup" => RestUncut(r, r.at)
    /\ r.role \in Forked => ArgvOf(r) /\ RestUncut(r, r.at + 1)

ArgvInv ==
    /\ procs # <<>> => cmd[Len(cmd)] = Nul
    /\ AsDocumented => \A p \in 1..Len(procs) : ArgvKept(procs[p])

LEMMA ArgvStays ==
    ASSUME ArgvInv, procs # <<>>, cmd' = cmd,
           AsDocumented => \A p \in 1..Len(procs') : ArgvKept(procs'[p])
    PROVE  ArgvInv'
<1>1. \A k : StartOf(k)' = StartOf(k) /\ WordsOf(k)' = WordsOf(k) /\ EndOfWord(k)' = EndOfWord(k)
  BY DEF StartOf, Starts, WordsOf, IsChar, EndOfWord
<1>2. Stages' = Stages /\ AtBars(cmd)' = AtBars(cmd)
  BY DEF Stages, Starts, AtBars
<1>3. AsDocumented' = AsDocumented
  BY DEF AsDocumented, IsChar
<1>4. \A c, k : Uncut(c, k)' = Uncut(c, k)
  BY <1>2 DEF Uncut
<1>5. ASSUME NEW p \in 1..Len(procs'), ArgvKept(procs'[p]) PROVE ArgvKept(procs[p])'
  BY <1>1, <1>2, <1>4, <1>5 DEF ArgvKept, ArgvOf, RestUncut
<1> QED
  BY <1>3, <1>5 DEF ArgvInv

(* One process changes: it ends, stays a child with what it has, or goes   *)
(* on behind its stage as a supervisor.                                    *)
LEMMA ChangeKeepsArgv ==
    ASSUME PipelineInv, ArgvInv, cmd' = cmd, NEW p \in Pids, NEW r,
           procs' = [procs EXCEPT ![p] = r],
           r.cells = procs[p].cells, r.args = procs[p].args, r.argc = procs[p].argc,
           r.role \in Forked => procs[p].role \in Forked /\ r.at = procs[p].at,
           r.role = "sup" => procs[p].role \in Forked /\ r.at = procs[p].at + 1
    PROVE  ArgvInv'
<1>1. /\ p \in 1..Len(procs) /\ Len(procs') = Len(procs)
      /\ procs'[p] = r /\ \A q \in 1..Len(procs) : q # p => procs'[q] = procs[q]
  BY ProcsIsSeq, OneChanged DEF PipelineInv, ProcsType
<1>2. ArgvKept(procs[p]) => ArgvKept(r)
  <2> SUFFICES ASSUME ArgvKept(procs[p]) PROVE ArgvKept(r)
    OBVIOUS
  <2>1. r.role \in Forked => ArgvOf(r) /\ RestUncut(r, r.at + 1)
    BY DEF ArgvKept, ArgvOf, RestUncut
  <2>2. r.role = "sup" => RestUncut(r, r.at)
    BY DEF ArgvKept, RestUncut
  <2> QED
    BY <2>1, <2>2 DEF ArgvKept
<1>3. AsDocumented => \A q \in 1..Len(procs') : ArgvKept(procs'[q])
  BY <1>1, <1>2 DEF ArgvInv
<1>4. procs # <<>>
  BY <1>1
<1> QED
  BY <1>3, <1>4, ArgvStays

LEMMA ForkKeepsArgv ==
    ASSUME PipelineInv, TaskTypes, ArgvInv, NEW p \in Pids, StartStage(p)
    PROVE  ArgvInv'
<1> DEFINE n == Len(procs)
           r == procs[p]
           s == StartOf(r.at)
           c == r.cells
<1>1. /\ p \in 1..n /\ n \in Nat /\ r.role = "sup" /\ IsProc(r) /\ r.at <= Stages
      /\ Len(procs') = n + 1 /\ \A q \in 1..n : q # p => procs'[q] = procs[q]
      /\ procs'[n + 1] = Child(p)
      /\ procs'[p] = [procs[p] EXCEPT !.at = @ + 1, !.out = n + 1, !.cells = Child(p).cells]
      /\ cmd' = cmd
  BY Forking DEF PipelineInv, ProcsType, StartStage
<1>2. procs # <<>>
  BY <1>1
<1>3. ASSUME AsDocumented PROVE \A q \in 1..Len(procs') : ArgvKept(procs'[q])
  <2>1. Documented /\ Stages \in Nat /\ r.at \in 1..Stages
    <3>1. ProcTypeOK(r, n)
      BY <1>1 DEF TaskTypes
    <3> QED
      BY <1>1, <1>2, <1>3, <3>1 DEF Documented, TaskTypes, ArgvInv, ProcTypeOK
  <2>2. s \in Starts /\ (r.at = 1 <=> s = 1)
    BY <2>1, StagesInOrder
  <2>3. Uncut(c, s)
    BY <1>1, <1>3 DEF ArgvInv, ArgvKept, RestUncut
  <2> DEFINE child == Child(p)
             sup == procs'[p]
  <2>4. /\ child.role = "new" /\ child.at = r.at /\ child.cells = CutFrom(c, s)
        /\ child.args = ArgsAt(c, s) /\ child.argc = CountWords(c, s)
    BY <1>1 DEF Child, IsProc
  <2>5. sup.role = "sup" /\ sup.at = r.at + 1 /\ sup.cells = child.cells
    <3> HIDE DEF child
    <3> QED
      BY <1>1 DEF IsProc, child
  <2> HIDE DEF child, sup, c
  <2>6. WordsOf(r.at) = WordsFrom(s)
    BY DEF WordsOf, WordsFrom, EndOfStage
  <2> HIDE DEF s
  <2>7. ArgvOf(child)
    <3>1. /\ ArgsAt(c, s) = WordsFrom(s) \cup (IF s = 1 THEN {} ELSE {s})
          /\ CountWords(c, s) = Cardinality(WordsFrom(s))
          /\ \A k \in WordsFrom(s) : StringEnd(CutFrom(c, s), k) = EndOfWord(k)
      BY <2>1, <2>2, <2>3, ArgsAreWords, WordsAreCut
    <3> QED
      BY <2>2, <2>4, <2>6, <3>1 DEF ArgvOf, s
  <2>8. ASSUME r.at + 1 <= Stages PROVE Uncut(child.cells, StartOf(r.at + 1))
    <3> DEFINE t == StartOf(r.at + 1)
    <3>1. r.at + 1 \in 1..Stages
      BY <2>1, <2>8
    <3>2. t \in EndOfStage(s)..Len(cmd)
      BY <2>1, <3>1, StagesInOrder DEF s
    <3>3. \A k \in EndOfStage(s)..Len(cmd) : CutFrom(c, s)[k] = AtBars(cmd)[k]
      BY <2>1, <2>2, <2>3, WordsAreCut
    <3>4. CutFrom(c, s) \in Seq(Texts) /\ Len(CutFrom(c, s)) = Len(cmd)
      <4>1. EndsInGap(c) /\ Len(cmd) >= 2
        BY <1>1, <1>2 DEF TaskTypes, ProcTypeOK, c
      <4>2. s \in 1..Len(c)
        BY <2>1, <2>2, <4>1 DEF Starts, EndsInGap, Documented
      <4> QED
        BY <4>1, <4>2, CutKeepsEnd DEF EndsInGap
    <3> HIDE DEF t
    <3>5. \A k \in t..Len(cmd) : k \in EndOfStage(s)..Len(cmd)
      <4>1. Len(cmd) \in Nat /\ EndOfStage(s) \in Int
        <5>1. s \in 1..(Len(cmd) - 1) /\ EndOfStage(s) \in (s + 1)..Len(cmd)
          BY <2>1, <2>2, <2>3, StageIs
        <5> QED
          BY <2>1, <5>1, DocumentedMeans
      <4> QED
        BY <3>2, <4>1
    <3> QED
      BY <2>4, <3>3, <3>4, <3>5 DEF Uncut, t
  <2>9. ArgvKept(child) /\ ArgvKept(sup)
    <3>1. RestUncut(child, child.at + 1) /\ RestUncut(sup, sup.at)
      BY <2>4, <2>5, <2>8 DEF RestUncut
    <3> QED
      BY <2>4, <2>5, <2>7, <3>1 DEF ArgvKept, Forked
  <2>10. ASSUME NEW q \in 1..Len(procs') PROVE ArgvKept(procs'[q])
    <3>1. CASE q = p
      BY <2>9, <3>1 DEF sup
    <3>2. CASE q = n + 1
      BY <1>1, <2>9, <3>2 DEF child
    <3>3. CASE q # p /\ q # n + 1
      <4>1. q \in 1..n /\ procs'[q] = procs[q]
        BY <1>1, <3>3
      <4> QED
        BY <1>3, <4>1 DEF ArgvInv
    <3> QED
      BY <3>1, <3>2, <3>3
  <2> QED
    BY <2>10
<1> QED
  BY <1>1, <1>2, <1>3, ArgvStays

LEMMA KillKeepsArgv ==
    ASSUME PipelineInv, ArgvInv, Kill
    PROVE  ArgvInv'
<1> DEFINE n == Len(procs)
           After(p) == IF procs[p].group = 1 THEN [procs[p] EXCEPT !.role = "ended"]
                                             ELSE procs[p]
           S == {After(p) : p \in 1..n}
<1>1. n \in Nat /\ \A p \in 1..n : IsProc(procs[p])
  BY DEF PipelineInv, ProcsType
<1>2. procs' = [p \in 1..n |-> After(p)]
  BY ProcsIsSeq DEF PipelineInv, Kill
<1>3. ASSUME NEW p \in 1..n, ArgvKept(procs[p]) PROVE ArgvKept(After(p))
  <2>1. CASE procs[p].group = 1
    <3>1. After(p).role = "ended"
      BY <1>1, <2>1 DEF IsProc
    <3> HIDE DEF After
    <3> QED
      BY <3>1 DEF ArgvKept, Forked
  <2>2. CASE procs[p].group # 1
    BY <1>3, <2>2
  <2> QED
    BY <2>1, <2>2
<1>4. procs' \in [1..n -> S]
  BY <1>2
<1> HIDE DEF After, S
<1>5. Len(procs') = n
  BY <1>1, <1>4
<1>6. \A p \in 1..n : procs'[p] = After(p)
  BY <1>2
<1>7. AsDocumented => \A p \in 1..Len(procs') : ArgvKept(procs'[p])
  BY <1>3, <1>5, <1>6 DEF ArgvInv
<1>8. procs # <<>> /\ cmd' = cmd
  BY DEF Kill
<1> QED
  BY <1>7, <1>8, ArgvStays

LEMMA StepKeepsArgv ==
    ASSUME PipelineInv, TaskTypes, ArgvInv, ExecStep
    PROVE  ArgvInv'
<1>1. ASSUME NEW p \in Pids PROVE IsProc(procs[p])
  BY <1>1, ProcsIsSeq DEF PipelineInv, ProcsType
<1>2. ASSUME NEW p \in Pids, SupEnds(p) \/ StageEnds(p) PROVE ArgvInv'
  <2> DEFINE r == [procs[p] EXCEPT !.role = "ended"]
  <2>1. procs' = [procs EXCEPT ![p] = r] /\ cmd' = cmd
    BY <1>2 DEF SupEnds, StageEnds, Becomes
  <2>2. /\ r.role = "ended" /\ r.cells = procs[p].cells
        /\ r.args = procs[p].args /\ r.argc = procs[p].argc
    BY <1>1 DEF IsProc
  <2> HIDE DEF r
  <2>3. r.role # "sup" /\ r.role \notin Forked
    BY <2>2 DEF Forked
  <2> QED
    BY <2>1, <2>2, <2>3, ChangeKeepsArgv
<1>3. ASSUME NEW p \in Pids, Setsid(p) PROVE ArgvInv'
  <2> DEFINE r == [procs[p] EXCEPT !.role = "own", !.group = p, !.in = p]
  <2>1. procs' = [procs EXCEPT ![p] = r] /\ procs[p].role \in Forked /\ cmd' = cmd
    BY <1>3 DEF Setsid, Forked
  <2>2. /\ r.role = "own" /\ r.at = procs[p].at /\ r.cells = procs[p].cells
        /\ r.args = procs[p].args /\ r.argc = procs[p].argc
    BY <1>1 DEF IsProc
  <2> HIDE DEF r
  <2> QED
    BY <2>1, <2>2, ChangeKeepsArgv
<1>4. ASSUME NEW p \in Pids, Exec(p) PROVE ArgvInv'
  <2> DEFINE r == [procs[p] EXCEPT !.role = "stage"]
  <2>1. procs' = [procs EXCEPT ![p] = r] /\ procs[p].role \in Forked /\ cmd' = cmd
    BY <1>4 DEF Exec, Becomes, Forked
  <2>2. /\ r.role = "stage" /\ r.at = procs[p].at /\ r.cells = procs[p].cells
        /\ r.args = procs[p].args /\ r.argc = procs[p].argc
    BY <1>1 DEF IsProc
  <2> HIDE DEF r
  <2> QED
    BY <2>1, <2>2, ChangeKeepsArgv
<1>5. ASSUME NEW p \in Pids, ExecFails(p) PROVE ArgvInv'
  <2> DEFINE r == [procs[p] EXCEPT !.role = "sup", !.at = @ + 1]
  <2>1. procs' = [procs EXCEPT ![p] = r] /\ procs[p].role \in Forked /\ cmd' = cmd
    BY <1>5 DEF ExecFails, Forked
  <2>2. /\ r.role = "sup" /\ r.at = procs[p].at + 1 /\ r.cells = procs[p].cells
        /\ r.args = procs[p].args /\ r.argc = procs[p].argc
    BY <1>1 DEF IsProc
  <2> HIDE DEF r
  <2>3. r.role \notin Forked
    BY <2>2 DEF Forked
  <2> QED
    BY <2>1, <2>2, <2>3, ChangeKeepsArgv
<1> QED
  BY <1>2, <1>3, <1>4, <1>5, ForkKeepsArgv, KillKeepsArgv DEF ExecStep, SupStep, ChildStep

LEMMA LaunchStartsArgv ==
    ASSUME TaskTypes', NEW text \in Seq(Chars), Launch(text)
    PROVE  ArgvInv'
<1> DEFINE n == Len(text)
           s == Supervisor(cmd')
<1>1. cmd' = Append(text, Nul) /\ Len(procs') = 1 /\ procs'[1] = s
  BY DEF Launch
<1>2. Len(cmd') = n + 1 /\ n \in Nat /\ cmd'[n + 1] = Nul
  BY <1>1 DEF Texts
<1>3. s.role = "sup" /\ s.cells = AtBars(cmd')
  BY DEF Supervisor
<1> HIDE DEF s
<1>4. s.cells \in Seq(Texts) /\ Len(s.cells) = Len(cmd')
  BY <1>1 DEF TaskTypes, ProcTypeOK, EndsInGap
<1>5. ArgvKept(procs[1])'
  BY <1>1, <1>3, <1>4 DEF ArgvKept, RestUncut, Uncut, AtBars, Forked
<1> QED
  BY <1>1, <1>2, <1>5 DEF ArgvInv

LEMMA ArgvMeans ==
    ASSUME PipelineInv, ArgvInv
    PROVE  WordsReachTheirStage
<1> SUFFICES ASSUME AsDocumented, NEW q \in Pids, procs[q].role \in Forked
             PROVE  /\ WordsOf(procs[q].at) \subseteq procs[q].args
                    /\ procs[q].at = 1 =>
                         /\ procs[q].args = WordsOf(procs[q].at)
                         /\ procs[q].argc = Cardinality(procs[q].args)
                    /\ \A k \in WordsOf(procs[q].at) :
                         StringEnd(procs[q].cells, k) = EndOfWord(k)
  BY DEF WordsReachTheirStage
<1>1. ArgvOf(procs[q])
  BY ProcsIsSeq DEF PipelineInv, ArgvInv, ArgvKept
<1> QED
  BY <1>1 DEF ArgvOf
=============================================================================
