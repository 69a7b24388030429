------------------------------ MODULE TaskExec ------------------------------
(***************************************************************************)
(* What the server forks for a task (server.c:274-333): a supervisor that  *)
(* cuts the command at its bars and blanks, in place, and forks one        *)
(* process for each stage of the pipeline.  Process 1 is the supervisor;   *)
(* the others are numbered in the order of their forks, and pipe q is the  *)
(* one made just before the fork of process q.                             *)
(***************************************************************************)
EXTENDS Characters

CONSTANT
    MaxFails     \* bound: how many calls of execv return

ASSUME ExecAssumption == MaxFails \in Nat

VARIABLES
    cmd,         \* cmd_start as it came, with its end
    procs,       \* the processes of the task
    fails,       \* the stages whose execv has returned, in order
    killed       \* the server has sent its SIGTERM

execVars == <<cmd, procs, fails, killed>>

Pids == DOMAIN procs

(***************************************************************************)
(* A process is in the loop over the stages ("sup"), or was forked for     *)
(* stage number at ("new"), has left the group ("own"), and runs a program *)
(* ("stage"), until it is "ended".  cells is its copy of cmd_start, args   *)
(* the places its argv points to, entry by entry, and argc how many of     *)
(* them there was room for; in and out are the pipes of its standard input *)
(* and output, 0 for those of the server.                                  *)
(***************************************************************************)
Roles == {"sup", "new", "own", "stage", "ended"}
Forked == {"new", "own", "stage"}

ExecInit == cmd = <<>> /\ procs = <<>> /\ fails = <<>> /\ killed = FALSE

-----------------------------------------------------------------------------
(* Cutting the command.                                                    *)

(* strtok(cmd_start, "|"), called until it returns NULL: a stage begins    *)
(* behind any number of bars, and the one bar that ends it is overwritten. *)
BeginsStage(c, k) == c[k] \notin {Bar, Nul} /\ (k = 1 \/ c[k - 1] = Bar)
EndsStage(c, k) == c[k] = Bar /\ k > 1 /\ c[k - 1] # Bar

Starts == {k \in DOMAIN cmd : BeginsStage(cmd, k)}
Stages == Cardinality(Starts)
StartOf(n) ==
    LET S == Starts IN CHOOSE k \in S : Cardinality({j \in S : j < k}) = n - 1
AtBars(c) == [k \in DOMAIN c |-> IF EndsStage(c, k) THEN Nul ELSE c[k]]

(* count_words, from place s to the end of the string there.               *)
StringEnd(c, s) == UpTo(c, {Nul}, s)
CountWords(c, s) ==
    Cardinality({k \in s..(StringEnd(c, s) - 1) :
                    c[k] # Blank /\ (k = s \/ c[k - 1] = Blank)})

(***************************************************************************)
(* The loop that fills argv: it stores where it stands, goes on to the     *)
(* next blank or end, overwrites that and steps behind it, until it stands *)
(* on an end.  It stops on an end only where it has stepped onto it from a *)
(* blank or from another end: behind a stage that ends in a word it runs   *)
(* on into the next one.                                                   *)
(***************************************************************************)
Gap == {Blank, Nul}
CutEnd(c, s) == Min({k \in (s + 1)..Len(c) : c[k] = Nul /\ c[k - 1] \in Gap})

(* Variant: the end is stored as well.                                     *)
ArgsAtWithEnd(c, s) == {s} \cup {k \in (s + 1)..CutEnd(c, s) : c[k - 1] \in Gap}

ArgsAt(c, s) ==
    IF c[s] = Nul THEN {}
    ELSE {s} \cup {k \in (s + 1)..(CutEnd(c, s) - 1) : c[k - 1] \in Gap}

CutFrom(c, s) ==
    IF c[s] = Nul THEN c
    ELSE [k \in DOMAIN c |->
            IF k \in s..(CutEnd(c, s) - 1) /\ c[k] \in Gap THEN Nul ELSE c[k]]

-----------------------------------------------------------------------------
(* The processes.                                                          *)

Supervisor(c) ==
    [role |-> "sup", at |-> 1, group |-> 1, in |-> 0, out |-> 0,
     cells |-> AtBars(c), args |-> {}, argc |-> 0]

(* strndup and strtok, once the supervisor has called setsid.              *)
Launch(text) ==
    /\ cmd' = Append(text, Nul)
    /\ procs' = <<Supervisor(cmd')>>
    /\ UNCHANGED <<fails, killed>>

(***************************************************************************)
(* One turn of the loop: cut the stage, make a pipe, fork.  The child has  *)
(* the output that the supervisor had until then; the supervisor goes on   *)
(* with the pipe the child will read.                                      *)
(***************************************************************************)
Child(p) ==
    LET s == StartOf(procs[p].at)
        c == procs[p].cells
    IN  [procs[p] EXCEPT !.role = "new", !.cells = CutFrom(c, s),
                         !.args = ArgsAt(c, s), !.argc = CountWords(c, s)]

(* Variant: the supervisor's output is redirected before the fork.         *)
WithChildDupFirst(p, child) ==
    Append([procs EXCEPT ![p].at = @ + 1, ![p].out = Len(procs) + 1,
                         ![p].cells = child.cells],
           [child EXCEPT !.out = Len(procs) + 1])

WithChild(p, child) ==
    Append([procs EXCEPT ![p].at = @ + 1, ![p].out = Len(procs) + 1,
                         ![p].cells = child.cells],
           child)

StartStage(p) ==
    /\ procs[p].role = "sup" /\ procs[p].at <= Stages
    /\ procs' = WithChild(p, Child(p))
    /\ UNCHANGED <<cmd, fails, killed>>

Becomes(p, role) == procs' = [procs EXCEPT ![p].role = role]

(***************************************************************************)
(* procs_end counts bytes as pointers, so that the loops write and read    *)
(* behind the array: the supervisor may break down at any time, and does   *)
(* when it comes to the first entry that is NULL.  It ends as well when a  *)
(* fork fails.                                                             *)
(***************************************************************************)
(* Variant: it waits for the processes it has forked.                      *)
SupEndsAfterStages(p) ==
    /\ procs[p].role = "sup" /\ \A q \in Pids \ {p} : procs[q].role = "ended"
    /\ Becomes(p, "ended")
    /\ UNCHANGED <<cmd, fails, killed>>

SupEnds(p) ==
    /\ procs[p].role = "sup"
    /\ Becomes(p, "ended")
    /\ UNCHANGED <<cmd, fails, killed>>

(* The child: setsid, and dup2 of the pipe it was forked with.             *)
Setsid(q) ==
    /\ procs[q].role = "new"
    /\ procs' = [procs EXCEPT ![q].role = "own", ![q].group = q, ![q].in = q]
    /\ UNCHANGED <<cmd, fails, killed>>

(* execv of cmd_start, which is the same program for every stage.          *)
Exec(q) ==
    /\ procs[q].role = "own" /\ procs[q].cells[1] # Nul
    /\ Becomes(q, "stage")
    /\ UNCHANGED <<cmd, fails, killed>>

(* Variants: the child skips a stage; it starts over with the first one.   *)
ExecFailsSkips(q) ==
    /\ procs[q].role = "own" /\ Len(fails) < MaxFails
    /\ procs' = [procs EXCEPT ![q].role = "sup", ![q].at = @ + 2]
    /\ fails' = Append(fails, procs[q].at)
    /\ UNCHANGED <<cmd, killed>>

ExecFailsStartsOver(q) ==
    /\ procs[q].role = "own" /\ Len(fails) < MaxFails
    /\ procs' = [procs EXCEPT ![q].role = "sup", ![q].at = 1]
    /\ fails' = Append(fails, procs[q].at)
    /\ UNCHANGED <<cmd, killed>>

(* execv returns: the child falls out of the switch and goes on with the   *)
(* loop, a second supervisor.                                              *)
ExecFails(q) ==
    /\ procs[q].role = "own" /\ Len(fails) < MaxFails
    /\ procs' = [procs EXCEPT ![q].role = "sup", ![q].at = @ + 1]
    /\ fails' = Append(fails, procs[q].at)
    /\ UNCHANGED <<cmd, killed>>

StageEnds(q) ==
    /\ procs[q].role = "stage"
    /\ Becomes(q, "ended")
    /\ UNCHANGED <<cmd, fails, killed>>

(***************************************************************************)
(* kill(-group, SIGTERM) of an end command.  A member that has not left    *)
(* the group still has the handler of the server, and exits.               *)
(***************************************************************************)
Kill ==
    /\ procs # <<>> /\ ~killed /\ killed' = TRUE
    /\ procs' = [p \in Pids |->
                    IF procs[p].group = 1 THEN [procs[p] EXCEPT !.role = "ended"]
                                          ELSE procs[p]]
    /\ UNCHANGED <<cmd, fails>>

SupStep == \E p \in Pids : StartStage(p) \/ SupEnds(p)
ChildStep == \E q \in Pids : Setsid(q) \/ Exec(q)

ExecStep ==
    \/ SupStep \/ ChildStep \/ Kill
    \/ \E q \in Pids : ExecFails(q) \/ StageEnds(q)

-----------------------------------------------------------------------------
(* Properties.                                                             *)

ProcOK(p) ==
    /\ p.role \in Roles /\ p.at \in 1..(Stages + 1)
    /\ p.group \in Pids /\ p.in \in 0..Len(procs) /\ p.out \in 0..Len(procs)
    /\ DOMAIN p.cells = DOMAIN cmd /\ p.args \subseteq DOMAIN cmd
    /\ p.argc \in 0..Len(cmd)

ExecTypeOK ==
    /\ \A p \in Pids : ProcOK(procs[p])
    /\ fails \in Seq(1..Stages) /\ Len(fails) <= MaxFails /\ killed \in BOOLEAN

(***************************************************************************)
(* A command as the comment at server.c:275 writes it: words, one blank    *)
(* between two words, and one on each side of a bar.                       *)
(***************************************************************************)
IsChar(k) == cmd[k] \notin {Blank, Bar, Nul}
AsDocumented ==
    /\ cmd # <<>> /\ IsChar(1) /\ cmd[Len(cmd) - 1] = Blank
    /\ \A k \in 2..(Len(cmd) - 2) : cmd[k] # Nul /\
           CASE cmd[k] = Bar   -> cmd[k - 1] = Blank /\ cmd[k + 1] = Blank
             [] cmd[k] = Blank -> (IsChar(k - 1) /\ cmd[k + 1] # Blank)
                                    \/ (cmd[k - 1] = Bar /\ IsChar(k + 1))
             [] OTHER          -> TRUE

(* The words of stage n as the user wrote them.                            *)
WordsOf(n) ==
    LET first == StartOf(n)
        end == UpTo(cmd, {Bar, Nul}, first)
    IN  {k \in first..(end - 1) : IsChar(k) /\ (k = 1 \/ ~IsChar(k - 1))}
EndOfWord(k) == UpTo(cmd, {Blank, Bar, Nul}, k)

(***************************************************************************)
(* Of a command as documented every word gets to its stage: it is an entry *)
(* of argv and ends where the user ended it, however many stages were cut  *)
(* before it in the same string.  The first stage gets nothing else, and   *)
(* its argv ends where count_words says (server.c:286-307).                *)
(***************************************************************************)
WordsReachTheirStage ==
    AsDocumented => \A q \in Pids : procs[q].role \in Forked =>
        LET p == procs[q]
            words == WordsOf(p.at)
        IN  /\ words \subseteq p.args
            /\ p.at = 1 => p.args = words /\ p.argc = Cardinality(p.args)
            /\ \A k \in words : StringEnd(p.cells, k) = EndOfWord(k)

Running(q) == procs[q].role = "stage"
Feeds(r, q) == Running(q) /\ Running(r) /\ procs[r].out = procs[q].in
Failed(n) == \E i \in DOMAIN fails : fails[i] = n

(* A pipe joins two stages that follow each other, or between which only   *)
(* stages lie whose execv has returned: no stage reads what it writes, and *)
(* none is left out, whatever supervisors share the work (server.c:310-330).*)
LinksNeighbours ==
    \A q, r \in Pids : Feeds(r, q) =>
        LET a == procs[q].at
            b == procs[r].at
        IN  /\ a # b
            /\ \A n \in (a + 1)..(b - 1) \cup (b + 1)..(a - 1) : Failed(n)

(***************************************************************************)
(* client.c:221 "[task1 | task2 | ...]", and server.c:306-307 "argv[] = {  *)
(* p1\0, arg1\0, arg2\0, NULL }": of two programs that run joined by a     *)
(* pipe, the one that reads stands behind the one that writes, and the     *)
(* argv of either holds the words of its stage and no more entries than    *)
(* there is room for in front of the NULL.                                 *)
(***************************************************************************)
ArgvAsCommented(p) == p.args = WordsOf(p.at) /\ Cardinality(p.args) <= p.argc

PipelineAsDocumented ==
    AsDocumented => \A q, r \in Pids : Feeds(r, q) =>
        /\ procs[r].at < procs[q].at
        /\ ArgvAsCommented(procs[q]) /\ ArgvAsCommented(procs[r])

(***************************************************************************)
(* A stage runs once, and once more at most for each execv of a stage      *)
(* before it that has returned, in whichever process it did: a child that  *)
(* becomes a supervisor goes on behind its own stage (server.c:323-330).   *)
(***************************************************************************)
StageRepeatedByFailuresOnly ==
    \A q \in Pids : Running(q) =>
        LET n == procs[q].at
        IN  Cardinality({r \in Pids : Running(r) /\ procs[r].at = n})
                <= 1 + Cardinality({i \in DOMAIN fails : fails[i] < n})

(* No supervisor stays, whatever the stages do: each comes to the end of   *)
(* the array, and past it (server.c:281-331).                              *)
SupervisorsEnd == <>[](\A p \in Pids : procs[p].role # "sup")

(* client.c:230, -t: "End a task with id 'n'".                             *)
EndReachesStages ==
    [][killed' /\ ~killed => \A p \in Pids : procs'[p].role = "ended"]_execVars
=============================================================================
