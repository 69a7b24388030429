------------------------------ MODULE TaskSeq -------------------------------
(***************************************************************************)
(* What the user of a TaskVec sees: a sequence of tasks, while it is live. *)
(***************************************************************************)
EXTENDS SequencesExt

CONSTANT Tasks

VARIABLES tasks, live

seqVars == <<tasks, live>>

Init == tasks = <<>> /\ live = TRUE

InsertOne == \E t \in Tasks, i \in 1..(Len(tasks) + 1) : tasks' = InsertAt(tasks, i, t)
RemoveOne == \E i \in DOMAIN tasks : tasks' = RemoveAt(tasks, i)

(* The last task takes the place of the one removed.                       *)
SwapRemove ==
    \E i \in DOMAIN tasks : tasks' = Front(ReplaceAt(tasks, i, Last(tasks)))

Change == live /\ UNCHANGED live /\ (InsertOne \/ RemoveOne \/ SwapRemove)

(* Dropped, or gone wrong: nothing is promised any more.                   *)
End == live /\ live' = FALSE /\ tasks' = <<>>

Next == Change \/ End

Spec == Init /\ [][Next]_seqVars
=============================================================================
