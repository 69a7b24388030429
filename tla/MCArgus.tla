------------------------------ MODULE MCArgus -------------------------------
(***************************************************************************)
(* Small instances of Argus for TLC.  The first client is always a shell,  *)
(* which is what gets a server past its start-up (two list commands would  *)
(* do it as well); the scenarios differ in what the others are started for *)
(* and in how often things may happen.                                     *)
(***************************************************************************)
EXTENDS Argus, TLC

CONSTANTS c1, c2, c3, c4

Three == {c1, c2, c3}
Four == {c1, c2, c3, c4}
Tids == 0..1

Job(f, a) == [flag |-> f, arg |-> a]
Exec == Job("e", 0)
End(id) == Job("t", id)
List == Job("l", 0)

(* A shell, a task and another command.                                    *)
Pair(k, n, m, t) ==
    [started |-> Three, boots |-> n, stops |-> m, typed |-> t,
     jobs |-> c1 :> Job("shell", 0) @@ c2 :> Exec @@ c3 :> k @@ c4 :> k]

(* A shell, two tasks and a client that ends one of them.                  *)
TwoTasks(id) ==
    [started |-> Four, boots |-> 1, stops |-> 0, typed |-> 0,
     jobs |-> c1 :> Job("shell", 0) @@ c2 :> Exec @@ c3 :> Exec @@ c4 :> End(id)]

Restarts == {Pair(End(0), 2, 1, 0), Pair(List, 2, 1, 0)}
Typing == {Pair(List, 1, 1, 1)}
Commands == Restarts \cup Typing \cup {TwoTasks(0), TwoTasks(1)}

(* One start and no stop, for what happens in any case.                    *)
ExecAndEnd == {Pair(End(0), 1, 0, 0)}
ExecAndList == {Pair(List, 1, 0, 0)}
ExecAndTyped == {Pair(List, 1, 0, 1)}

(* What a client is for is part of the state (job); beyond that Next and   *)
(* the invariants treat all clients alike, so that exchanging two of them  *)
(* changes nothing.                                                        *)
Interchangeable == Permutations({c2, c3})
=============================================================================
