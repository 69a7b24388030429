----------------------------- MODULE ByteStream -----------------------------
(***************************************************************************)
(* What a caller may rely on when it writes through a BufWriter: bytes go  *)
(* out in the order in which they were accepted, each at least once unless *)
(* it is discarded, and a repetition starts over without leaving a gap.    *)
(***************************************************************************)
EXTENDS Naturals, Sequences

VARIABLES
    accepted,   \* how many bytes were accepted
    high,       \* the last byte that was sent or discarded
    sent        \* the bytes sent

streamVars == <<accepted, high, sent>>

Init == accepted = 0 /\ high = 0 /\ sent = <<>>

Run(from, to) == [i \in 1..(to - from + 1) |-> from + i - 1]

AcceptMore == accepted' \in Nat /\ accepted' >= accepted

(* Bytes are accepted, and none is sent.                                   *)
Buffer == AcceptMore /\ UNCHANGED <<high, sent>>

(* A run of bytes is sent, some of them perhaps again.                     *)
Send ==
    /\ AcceptMore
    /\ \E from \in 1..(high + 1) : \E to \in from..accepted' :
        /\ sent' = sent \o Run(from, to)
        /\ high' = IF to > high THEN to ELSE high

(* All that is not sent is given up.                                       *)
GiveUp ==
    /\ UNCHANGED <<accepted, sent>>
    /\ high' = accepted

Next == Buffer \/ Send \/ GiveUp

Spec == Init /\ [][Next]_streamVars
=============================================================================
