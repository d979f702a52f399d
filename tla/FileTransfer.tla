---------------------------- MODULE FileTransfer ----------------------------
(***************************************************************************)
(* The filesystem calls of a Sandbox handle (src/tyto/_sandbox.py):       *)
(* read_file and list_files collect a stream in memory, download_file      *)
(* writes it to a temporary file that replaces the destination, write_file *)
(* and upload_file send a stream, the other calls are one RPC.  All run in *)
(* _with_file_capability_refresh: a call whose capability is rejected is   *)
(* made once more with a fresh one.  Calls of several threads share the    *)
(* handle's capability and may download to one destination; the machine   *)
(* may lose its power at any moment.  A file is the sequence of its chunks. *)
(***************************************************************************)
EXTENDS Naturals, Sequences

CONSTANTS Calls,        \* calls the program makes, each in its own thread
          Ops,          \* the kinds of call it makes
          Size,         \* chunks of the files (remote and local ones alike)
          Limits,       \* filesystem_read_limit of the client, in chunks: its values
          MaxTokens,    \* bound: capabilities that expire
          LateRejects   \* kinds of call the service may reject after some chunks

ASSUME TransferAssumption ==
    /\ Ops \subseteq {"read", "download", "write", "mutate"}
    /\ LateRejects \subseteq Ops
    /\ Size \in Nat \ {0} /\ Limits \subseteq Nat /\ MaxTokens \in Nat

VARIABLES
    op,        \* the kind of each call
    pc,        \* where it is
    attempt,   \* 1, or 2 after the refresh
    token,     \* the capability its attempt was made with
    taken,     \* chunks of the stream that went through in this attempt
    data,      \* what it has collected: the bytearray, or the temporary file
    temp,      \* its temporary file: "none", "written", "synced"
    limit,     \* _filesystem_read_limit of the client
    cap,       \* _capability of the handle
    good,      \* the capability the service accepts
    dest,      \* the local destination
    disk,      \* the destination as the disk's directory has it
    staged,    \* what the guest has received of a write
    remote,    \* the remote file
    applied,   \* how often the guest did a call's change
    lost       \* the power was lost

callVars  == <<op, pc, attempt, token, taken, data>>
capVars   == <<limit, cap, good>>
localVars == <<temp, dest, disk, lost>>
guestVars == <<staged, remote, applied>>
vars == <<callVars, capVars, localVars, guestVars>>

Whole == [i \in 1..Size |-> i]
Old   == [chunks |-> <<>>, synced |-> TRUE]      \* what was there before
Raised == {"raised", "gaveUp"}          \* gaveUp: its request may still be on its way
Ended  == {"returned"} \cup Raised

Init ==
    /\ op \in [Calls -> Ops] /\ pc = [c \in Calls |-> "idle"]
    /\ attempt = [c \in Calls |-> 1] /\ token = [c \in Calls |-> 0]
    /\ taken = [c \in Calls |-> 0] /\ data = [c \in Calls |-> <<>>]
    /\ temp = [c \in Calls |-> "none"]
    /\ limit \in Limits /\ cap = 0 /\ good = 0
    /\ dest = Old /\ disk = Old /\ lost = FALSE
    /\ staged = [c \in Calls |-> <<>>] /\ remote = <<>>
    /\ applied = [c \in Calls |-> 0]

-----------------------------------------------------------------------------
At(c, step)   == ~lost /\ pc[c] = step
Goto(c, step) == pc' = [pc EXCEPT ![c] = step]

\* download_file opens its temporary file first, under a name nobody else uses.
Begin(c) ==
    /\ At(c, "idle")
    /\ Goto(c, "call")
    /\ temp' = IF op[c] = "download" THEN [temp EXCEPT ![c] = "written"] ELSE temp
    /\ UNCHANGED <<op, attempt, token, taken, data, capVars, dest, disk, lost, guestVars>>

\* (Mutant: the bytearray and the request generator are made outside call().)
AttemptReusing(c) ==
    /\ At(c, "call")
    /\ token' = [token EXCEPT ![c] = cap]
    /\ taken' = IF op[c] = "write" THEN taken ELSE [taken EXCEPT ![c] = 0]
    /\ staged' = [staged EXCEPT ![c] = <<>>]
    /\ Goto(c, "stream")
    /\ UNCHANGED <<op, attempt, data, capVars, localVars, remote, applied>>

\* call(): a new stream; a read starts a new bytearray, a write a new generator,
\* a download goes on with the file it has.
Attempt(c) ==
    /\ At(c, "call")
    /\ token' = [token EXCEPT ![c] = cap]
    /\ taken' = [taken EXCEPT ![c] = 0]
    /\ data' = IF op[c] = "read" THEN [data EXCEPT ![c] = <<>>] ELSE data
    /\ staged' = [staged EXCEPT ![c] = <<>>]
    /\ Goto(c, "stream")
    /\ UNCHANGED <<op, attempt, capVars, localVars, remote, applied>>

\* (Mutant: the temporary file is not removed.)
FailLeavingTemp(c) == Goto(c, "raised")

\* What a call does with an error: a download removes its temporary file.
Fail(c) == Goto(c, IF op[c] = "download" THEN "unlink" ELSE "raised")

\* (Mutant: the limit is tested after the chunk was added.)
ReceiveThenTest(c) ==
    /\ At(c, "stream") /\ op[c] \in {"read", "download"} /\ taken[c] < Size
    /\ taken' = [taken EXCEPT ![c] = @ + 1]
    /\ data' = [data EXCEPT ![c] = Append(@, taken[c] + 1)]
    /\ IF op[c] = "read" /\ Len(data[c]) > limit THEN Fail(c) ELSE UNCHANGED pc
    /\ UNCHANGED <<op, attempt, token, capVars, localVars, guestVars>>

\* A chunk of a read or a download arrives; a read checks its limit first.
Receive(c) ==
    /\ At(c, "stream") /\ op[c] \in {"read", "download"} /\ taken[c] < Size
    /\ IF op[c] = "read" /\ Len(data[c]) + 1 > limit
       THEN Fail(c) /\ UNCHANGED <<taken, data>>
       ELSE /\ taken' = [taken EXCEPT ![c] = @ + 1]
            /\ data' = [data EXCEPT ![c] = Append(@, taken[c] + 1)]
            /\ UNCHANGED pc
    /\ UNCHANGED <<op, attempt, token, capVars, localVars, guestVars>>

\* A chunk of a write is sent.
SendChunk(c) ==
    /\ At(c, "stream") /\ op[c] = "write" /\ taken[c] < Size
    /\ taken' = [taken EXCEPT ![c] = @ + 1]
    /\ staged' = [staged EXCEPT ![c] = Append(@, taken[c] + 1)]
    /\ UNCHANGED <<op, pc, attempt, token, data, capVars, localVars, remote, applied>>

\* The stream of a read or a download is exhausted.
Received(c) ==
    /\ At(c, "stream") /\ op[c] \in {"read", "download"} /\ taken[c] = Size
    /\ Goto(c, IF op[c] = "read" THEN "returned" ELSE "sync")
    /\ UNCHANGED <<op, attempt, token, taken, data, capVars, localVars, guestVars>>

\* The request for a change is complete.
Requested(c) == op[c] = "mutate" \/ (op[c] = "write" /\ taken[c] = Size)

\* The guest does a change, perhaps when nobody waits for it any more: a write
\* publishes what it staged.
Apply(c) ==
    /\ pc[c] \in {"stream", "gaveUp"} /\ Requested(c)
    /\ remote' = IF op[c] = "write" THEN staged[c] ELSE remote
    /\ applied' = [applied EXCEPT ![c] = @ + 1]
    /\ Goto(c, IF pc[c] = "stream" THEN "answer" ELSE "raised")
    /\ UNCHANGED <<op, attempt, token, taken, data, capVars, localVars, staged>>

\* (Mutant: every FilesystemError is tried again, not only a rejection.)
AnswerRetried(c) ==
    /\ At(c, "answer")
    /\ Goto(c, "returned") \/ IF attempt[c] = 1 THEN Goto(c, "refresh") ELSE Fail(c)
    /\ UNCHANGED <<op, attempt, token, taken, data, capVars, localVars, guestVars>>

\* Its answer arrives, or is lost and the call raises.
Answer(c) ==
    /\ At(c, "answer")
    /\ Goto(c, "returned") \/ Fail(c)
    /\ UNCHANGED <<op, attempt, token, taken, data, capVars, localVars, guestVars>>

\* CapabilityRejectedError, which the second attempt raises.
Rejected(c) ==
    /\ At(c, "stream") /\ token[c] < good
    /\ taken[c] = 0 \/ op[c] \in LateRejects
    /\ IF attempt[c] = 1 THEN Goto(c, "refresh") ELSE Fail(c)
    /\ UNCHANGED <<op, attempt, token, taken, data, capVars, localVars, guestVars>>

\* Any other error of the handle's checks, the stream or a local file; a complete
\* request may reach the guest all the same.
Error(c) ==
    /\ At(c, "call") \/ At(c, "stream")
    /\ IF pc[c] = "stream" /\ Requested(c) THEN Goto(c, "gaveUp") ELSE Fail(c)
    /\ UNCHANGED <<op, attempt, token, taken, data, capVars, localVars, guestVars>>

\* _refresh_capability_once: GetSandbox answered a capability newer than the
\* rejected one, by now perhaps not the newest, or the call raises.
Refresh(c) ==
    /\ At(c, "refresh")
    /\ \/ /\ Goto(c, "call") /\ attempt' = [attempt EXCEPT ![c] = 2]
          /\ cap' \in (token[c] + 1)..good
       \/ Fail(c) /\ UNCHANGED <<attempt, cap>>
    /\ UNCHANGED <<op, token, taken, data, limit, good, localVars, guestVars>>

-----------------------------------------------------------------------------
(* The end of download_file.                                               *)

\* (Mutant: no fsync of the temporary file.)
FlushOnly(c) ==
    /\ At(c, "sync")
    /\ Goto(c, "replace")
    /\ UNCHANGED <<op, attempt, token, taken, data, capVars, temp, dest, disk, lost,
                   guestVars>>

\* flush and fsync.
Sync(c) ==
    /\ At(c, "sync")
    /\ \/ temp' = [temp EXCEPT ![c] = "synced"] /\ Goto(c, "replace")
       \/ Fail(c) /\ UNCHANGED temp
    /\ UNCHANGED <<op, attempt, token, taken, data, capVars, dest, disk, lost, guestVars>>

\* os.replace.
Replace(c) ==
    /\ At(c, "replace")
    /\ \/ /\ dest' = [chunks |-> data[c], synced |-> (temp[c] = "synced")]
          /\ temp' = [temp EXCEPT ![c] = "none"]
          /\ Goto(c, "syncParent")
       \/ Fail(c) /\ UNCHANGED <<dest, temp>>
    /\ UNCHANGED <<op, attempt, token, taken, data, capVars, disk, lost, guestVars>>

\* (Mutant: the parent directory is not synced.)
SkipParent(c) ==
    /\ At(c, "syncParent")
    /\ Goto(c, "returned")
    /\ UNCHANGED <<op, attempt, token, taken, data, capVars, localVars, guestVars>>

\* _fsync_parent, on a filesystem that supports it; it may raise, too late to
\* keep the old file.
SyncParent(c) ==
    /\ At(c, "syncParent")
    /\ \/ disk' = dest /\ Goto(c, "returned")
       \/ UNCHANGED disk /\ Goto(c, "raised")
    /\ UNCHANGED <<op, attempt, token, taken, data, capVars, temp, dest, lost, guestVars>>

\* The finally of download_file.
Unlink(c) ==
    /\ At(c, "unlink")
    /\ temp' = [temp EXCEPT ![c] = "none"]
    /\ Goto(c, "raised")
    /\ UNCHANGED <<op, attempt, token, taken, data, capVars, dest, disk, lost, guestVars>>

-----------------------------------------------------------------------------
(* The capability's time runs out; the power fails.                        *)

Expire ==
    /\ ~lost /\ good < MaxTokens
    /\ good' = good + 1
    /\ UNCHANGED <<callVars, limit, cap, localVars, guestVars>>

\* What is left of a file: all of it when it was synced, else some beginning.
Remains(f) == IF f.synced THEN {f.chunks}
              ELSE {SubSeq(f.chunks, 1, n) : n \in 0..Len(f.chunks)}

\* The destination's name is on disk as it was at some moment since the last
\* sync of the directory: as the disk has it, or as it is now.
PowerLoss ==
    /\ ~lost /\ lost' = TRUE
    /\ \E f \in {dest, disk} : \E left \in Remains(f) :
          /\ dest' = [chunks |-> left, synced |-> TRUE]
          /\ disk' = dest'
    /\ UNCHANGED <<callVars, capVars, temp, guestVars>>

-----------------------------------------------------------------------------
Next == \/ \E c \in Calls :
              \/ Begin(c) \/ Attempt(c) \/ Receive(c) \/ SendChunk(c) \/ Received(c)
              \/ Apply(c) \/ Answer(c) \/ Rejected(c) \/ Error(c) \/ Refresh(c)
              \/ Sync(c) \/ Replace(c) \/ SyncParent(c) \/ Unlink(c)
        \/ Expire \/ PowerLoss

Spec == Init /\ [][Next]_vars

-----------------------------------------------------------------------------
(* Properties.                                                             *)

Steps == {"idle", "call", "stream", "answer", "refresh", "sync", "replace",
          "syncParent", "unlink"} \cup Ended
File  == [chunks : Seq(1..Size), synced : BOOLEAN]

\* Types; a read never holds more than filesystem_read_limit in memory.
TypeOK ==
    /\ op \in [Calls -> Ops] /\ pc \in [Calls -> Steps]
    /\ attempt \in [Calls -> 1..2] /\ token \in [Calls -> 0..MaxTokens]
    /\ taken \in [Calls -> 0..Size] /\ data \in [Calls -> Seq(1..Size)]
    /\ \A c \in Calls : op[c] = "read" => Len(data[c]) <= limit
    /\ temp \in [Calls -> {"none", "written", "synced"}]
    /\ limit \in Limits /\ cap \in 0..good /\ good \in 0..MaxTokens
    /\ dest \in File /\ disk \in File /\ lost \in BOOLEAN
    /\ staged \in [Calls -> Seq(1..Size)] /\ remote \in Seq(1..Size)
    /\ applied \in [Calls -> Nat]

\* README: download_file "streams a remote file into a hidden temporary file,
\* fsyncs it, atomically replaces the destination".  Whatever fails, and also
\* after a power failure, the destination is the old file or the whole new one.
DestinationIsWhole == dest.chunks \in {<<>>, Whole}

\* Once a download has returned, a power failure does not bring the old file back.
ReturnedIsDurable ==
    (\E c \in Calls : op[c] = "download" /\ pc[c] = "returned") =>
        disk.chunks # <<>> /\ disk.synced

\* read_file answers the whole file, and a write publishes the whole payload or
\* nothing, also when the first attempt was rejected in the middle.
PayloadIsWhole ==
    /\ \A c \in Calls : op[c] = "read" /\ pc[c] = "returned" => data[c] = Whole
    /\ remote \in {<<>>, Whole}

\* README: "Filesystem writes, uploads, moves, mkdir, and removes are not retried
\* after ambiguous transport errors": the guest does a change at most once.
AppliedOnce == \A c \in Calls : applied[c] <= 1

\* README: an error before the replacement removes the temporary file; none is
\* left when a download has ended in whatever way.
NoTempLeft == \A c \in Calls : pc[c] \in Ended => temp[c] = "none"

\* The calls implement what FileCalls promises of them.
Status(step) == CASE step = "returned" -> "returned"
                  [] step \in Raised -> "raised"
                  [] OTHER -> "open"
Answered(c) == IF op[c] = "read" /\ pc[c] = "returned" THEN data[c] ELSE <<>>

Promise == INSTANCE FileCalls
    WITH Kinds <- Ops, Nothing <- <<>>, New <- Whole,
         kind <- op, status <- [c \in Calls |-> Status(pc[c])],
         got <- [c \in Calls |-> Answered(c)], changes <- applied,
         file <- dest.chunks, saved <- disk.chunks, off <- lost

ImplementsFileCalls == Promise!Spec
=============================================================================
