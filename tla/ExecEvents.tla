----------------------------- MODULE ExecEvents -----------------------------
(***************************************************************************)
(* What a stream of events promises the code that iterates over it: the   *)
(* frames the remote side produced, each once and in order, then           *)
(* StopIteration (only when nothing was left out) or one error.  The      *)
(* iterator may stop answering (the session was cancelled or detached); it *)
(* never answers wrongly.  ExecSession and SessionStream implement this    *)
(* module.                                                                 *)
(***************************************************************************)
EXTENDS Naturals, Sequences

CONSTANTS FrameKinds,     \* kinds of response frames
          LastKinds       \* those after which nothing follows, as "exit"

VARIABLES produced,      \* the frames the remote side has sent, in order
          finished,      \* TRUE once the remote stream ended without an error
          consumed       \* what the iterator has answered, in order

vars == <<produced, finished, consumed>>

Frame(n) == [kind |-> "frame", n |-> n]
End      == [kind |-> "end",   n |-> 0]
Failure  == [kind |-> "error", n |-> 0]

\* The iterator has already raised StopIteration or an error.
Over == \E i \in DOMAIN consumed : consumed[i].kind # "frame"

\* The last frame was one that ends the stream.
Exited == produced # <<>> /\ produced[Len(produced)] \in LastKinds

Init == produced = <<>> /\ finished = FALSE /\ consumed = <<>>

Produce == /\ ~finished /\ ~Exited
           /\ \E k \in FrameKinds : produced' = Append(produced, k)
           /\ UNCHANGED <<finished, consumed>>

Finish == /\ ~finished
          /\ finished' = TRUE
          /\ UNCHANGED <<produced, consumed>>

Deliver == /\ ~Over
           /\ Len(consumed) < Len(produced)
           /\ consumed' = Append(consumed, Frame(Len(consumed) + 1))
           /\ UNCHANGED <<produced, finished>>

Stop == /\ ~Over
        /\ finished \/ Exited
        /\ Len(consumed) = Len(produced)
        /\ consumed' = Append(consumed, End)
        /\ UNCHANGED <<produced, finished>>

Fail == /\ ~Over
        /\ consumed' = Append(consumed, Failure)
        /\ UNCHANGED <<produced, finished>>

Next == Produce \/ Finish \/ Deliver \/ Stop \/ Fail

Spec == Init /\ [][Next]_vars
=============================================================================
