---------------------------- MODULE MCBufWriter -----------------------------
(***************************************************************************)
(* Small instances of BufWriter for TLC, and the abstract stream the       *)
(* writer is to implement.                                                 *)
(***************************************************************************)
EXTENDS BufWriter, FiniteSetsExt

TwoCaps == {2, 3}

(* The last byte of the stream that is out of the writer's hands.          *)
High == Max({0} \cup gone \cup {out[i] : i \in DOMAIN out})

AtLeastOnce == INSTANCE ByteStream WITH accepted <- acc, high <- High, sent <- out

(* The writer is an at-least-once stream: every step of it accepts some    *)
(* bytes and sends a run of bytes that starts at or before the first one   *)
(* that was not sent yet.                                                  *)
ImplementsStream == AtLeastOnce!Spec
=============================================================================
