------------------------------ MODULE FileCalls ------------------------------
(***************************************************************************)
(* What the filesystem calls of a sandbox promise the program that makes   *)
(* them: a read answers a whole file; a change of the remote side is made  *)
(* at most once, for a call that returns before it returns, for one that   *)
(* raises perhaps later or never, and a write publishes its payload whole; *)
(* a download replaces its destination at once, and when it returns no     *)
(* power failure brings the old file back.  FileTransfer implements this   *)
(* module.                                                                 *)
(***************************************************************************)
EXTENDS Naturals

CONSTANTS Calls, Kinds,
          Nothing,     \* a file before any call
          New          \* the payload of the calls

VARIABLES kind,        \* the kind of each call
          status,      \* "open", "returned" or "raised"
          got,         \* what a read has answered
          changes,     \* how often the guest has done a call's change
          remote,      \* the remote file
          file,        \* the local destination
          saved,       \* the destination as a power failure may leave it
          off          \* the power was lost

vars == <<kind, status, got, changes, remote, file, saved, off>>

Init ==
    /\ kind \in [Calls -> Kinds] /\ status = [c \in Calls |-> "open"]
    /\ got = [c \in Calls |-> Nothing] /\ changes = [c \in Calls |-> 0]
    /\ remote = Nothing /\ file = Nothing /\ saved = Nothing /\ off = FALSE

Changes(c) == kind[c] \in {"write", "mutate"}

\* The guest does the change, also after the call raised or the power failed here.
Change(c) ==
    /\ Changes(c) /\ status[c] # "returned" /\ changes[c] = 0
    /\ changes' = [changes EXCEPT ![c] = 1]
    /\ remote' = IF kind[c] = "write" THEN New ELSE remote
    /\ UNCHANGED <<kind, status, got, file, saved, off>>

Replace(c) ==
    /\ kind[c] = "download" /\ status[c] = "open" /\ ~off
    /\ file' = New
    /\ UNCHANGED <<kind, status, got, changes, remote, saved, off>>

Return(c) ==
    /\ status[c] = "open" /\ ~off
    /\ Changes(c) => changes[c] = 1
    /\ kind[c] = "download" => file = New
    /\ status' = [status EXCEPT ![c] = "returned"]
    /\ got' = IF kind[c] = "read" THEN [got EXCEPT ![c] = New] ELSE got
    /\ saved' = IF kind[c] = "download" THEN New ELSE saved
    /\ UNCHANGED <<kind, changes, remote, file, off>>

Raise(c) ==
    /\ status[c] = "open" /\ ~off
    /\ status' = [status EXCEPT ![c] = "raised"]
    /\ UNCHANGED <<kind, got, changes, remote, file, saved, off>>

PowerLoss ==
    /\ ~off /\ off' = TRUE
    /\ file' \in {file, saved} /\ saved' = file'
    /\ UNCHANGED <<kind, status, got, changes, remote>>

Next == \/ \E c \in Calls : Change(c) \/ Replace(c) \/ Return(c) \/ Raise(c)
        \/ PowerLoss

Spec == Init /\ [][Next]_vars
=============================================================================
