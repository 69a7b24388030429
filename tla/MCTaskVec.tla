----------------------------- MODULE MCTaskVec ------------------------------
(***************************************************************************)
(* Small instances of TaskVec for TLC, and the sequence it implements.     *)
(***************************************************************************)
EXTENDS TaskVec

TwoIds == {0, 1}
OneGroup == {7}

(* Any small capacity, every shrink and no memory; and as argus does it.   *)
MCUses ==
    [cap : 0..3, shrinks : {0..3}, fails : {TRUE}]
        \cup [cap : {0, 2, 3}, shrinks : {{}}, fails : {FALSE}]

Contents == IF st = "ok" THEN [i \in 1..len |-> mem[i]] ELSE <<>>

AbstractSeq == INSTANCE TaskSeq WITH tasks <- Contents, live <- st = "ok"

(* Every call that keeps the vector intact inserts one task, removes one,  *)
(* puts the last in the place of one, or leaves the contents as they are:  *)
(* growth, shrinking and memmove lose, repeat and reorder nothing.         *)
ImplementsSeq == AbstractSeq!Spec
=============================================================================
