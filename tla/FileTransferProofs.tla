------------------------- MODULE FileTransferProofs -------------------------
(***************************************************************************)
(* FileTransfer, for every number of calls, of chunks, of expired          *)
(* capabilities and every limit: nothing is applied twice, no payload is   *)
(* torn, and a download replaces its destination by the whole file.        *)
(***************************************************************************)
EXTENDS FileTransfer, SequenceTheorems, TLAPS

\* The first n chunks of a file.
Chunks(n) == [i \in 1..n |-> i]

\* The types of FileTransfer, without the bound on what a read holds.
Types ==
    /\ op \in [Calls -> Ops] /\ pc \in [Calls -> Steps]
    /\ attempt \in [Calls -> 1..2] /\ token \in [Calls -> 0..MaxTokens]
    /\ taken \in [Calls -> 0..Size] /\ data \in [Calls -> Seq(1..Size)]
    /\ temp \in [Calls -> {"none", "written", "synced"}]
    /\ limit \in Limits /\ cap \in 0..good /\ good \in 0..MaxTokens
    /\ dest \in File /\ disk \in File /\ lost \in BOOLEAN
    /\ staged \in [Calls -> Seq(1..Size)] /\ remote \in Seq(1..Size)
    /\ applied \in [Calls -> Nat]

\* A read has collected exactly what this attempt's stream gave it, within the limit.
ReadInv(c) ==
    op[c] = "read" =>
        /\ Len(data[c]) <= limit
        /\ pc[c] = "idle" => data[c] = <<>>
        /\ pc[c] = "stream" => data[c] = Chunks(taken[c])
        /\ pc[c] = "returned" => data[c] = Whole

\* What the guest has of a write is exactly what this attempt sent.
WriteInv(c) == op[c] = "write" /\ pc[c] \in {"stream", "gaveUp"} => staged[c] = Chunks(taken[c])

\* A change is applied as a call's last step on the guest, never before another attempt,
\* and answered when it has been.
ChangeInv(c) ==
    /\ pc[c] \in {"answer", "gaveUp"} => op[c] \in {"write", "mutate"}
    /\ applied[c] <= 1
    /\ pc[c] \in {"idle", "call", "stream", "refresh", "gaveUp"} => applied[c] = 0
    /\ pc[c] = "answer" => applied[c] = 1

\* Only a download has a temporary file, which it ends with; what it moves to the
\* destination is synced and not empty.
DownloadInv(c) ==
    /\ pc[c] \in {"sync", "replace", "syncParent", "unlink"} => op[c] = "download"
    /\ op[c] # "download" => temp[c] = "none"
    /\ pc[c] \in {"idle", "syncParent"} \cup Ended => temp[c] = "none"
    /\ pc[c] = "replace" => temp[c] = "synced"
    /\ op[c] = "download" /\ pc[c] = "stream" => Len(data[c]) >= taken[c]
    /\ pc[c] \in {"sync", "replace"} => data[c] # <<>>

\* The destination and what the disk has of it.
LocalInv ==
    /\ dest.synced /\ disk.synced
    /\ \A c \in Calls : op[c] = "download" /\ pc[c] = "returned" =>
           dest.chunks # <<>> /\ disk.chunks # <<>>
    /\ ~lost => \A c \in Calls : pc[c] = "syncParent" => dest.chunks # <<>>

IInv == /\ Types
        /\ remote \in {<<>>, Whole}
        /\ \A c \in Calls : ReadInv(c) /\ WriteInv(c) /\ ChangeInv(c) /\ DownloadInv(c)
        /\ LocalInv

-----------------------------------------------------------------------------
(* What a stream hands over.                                               *)

\* Nothing, and then one chunk more.
LEMMA NoChunks == Chunks(0) = <<>>
BY DEF Chunks

LEMMA ChunksGrow == ASSUME NEW n \in Nat PROVE Append(Chunks(n), n + 1) = Chunks(n + 1)
<1>1. Chunks(n) \in Seq(Nat) /\ Len(Chunks(n)) = n /\ Chunks(n + 1) \in Seq(Nat)
  BY DEF Chunks
<1>2. Len(Append(Chunks(n), n + 1)) = n + 1 /\ Len(Chunks(n + 1)) = n + 1
  BY <1>1 DEF Chunks
<1>3. ASSUME NEW i \in 1..(n + 1) PROVE Append(Chunks(n), n + 1)[i] = Chunks(n + 1)[i]
  BY <1>1 DEF Chunks
<1> QED BY <1>1, <1>2, <1>3, SeqEqual

LEMMA WholeIsNotEmpty == Whole \in Seq(1..Size) /\ Len(Whole) = Size /\ Whole # <<>>
                         /\ Chunks(Size) = Whole
BY TransferAssumption DEF Whole, Chunks

-----------------------------------------------------------------------------
(* The types.                                                              *)

LEMMA TypesInit == Init => Types
<1> SUFFICES ASSUME Init PROVE Types
  OBVIOUS
<1> USE TransferAssumption DEF Init
<1>1. Old \in File /\ <<>> \in Seq(1..Size)
  BY DEF Old, File
<1>2. op \in [Calls -> Ops] /\ pc \in [Calls -> Steps]
  BY DEF Steps
<1>3. cap \in 0..good /\ good \in 0..MaxTokens /\ limit \in Limits
  BY DEF Init
<1>4. /\ attempt \in [Calls -> 1..2] /\ token \in [Calls -> 0..MaxTokens]
      /\ taken \in [Calls -> 0..Size]
  BY DEF Init
<1>5. data \in [Calls -> Seq(1..Size)] /\ staged \in [Calls -> Seq(1..Size)]
  BY <1>1
<1>6. temp \in [Calls -> {"none", "written", "synced"}] /\ applied \in [Calls -> Nat]
  BY DEF Init
<1> QED BY <1>1, <1>2, <1>3, <1>4, <1>5, <1>6 DEF Types

LEMMA TypesStep == Types /\ [Next]_vars => Types'
<1> SUFFICES ASSUME Types, [Next]_vars PROVE Types'
  OBVIOUS
<1> USE TransferAssumption DEF Types, Steps, Ended, Raised
<1>1. ASSUME NEW c \in Calls, Begin(c) PROVE Types'
  BY <1>1 DEF Begin, At, Goto, capVars, guestVars
<1>2. ASSUME NEW c \in Calls, Attempt(c) PROVE Types'
  BY <1>2 DEF Attempt, At, Goto, capVars, localVars
<1>3. ASSUME NEW c \in Calls, Receive(c) PROVE Types'
  <2>1. pc' \in [Calls -> Steps]
    BY <1>3 DEF Receive, Goto, Fail
  <2>2. taken' \in [Calls -> 0..Size] /\ data' \in [Calls -> Seq(1..Size)]
    <3>1. CASE UNCHANGED <<taken, data>>
      BY <3>1
    <3>2. CASE /\ taken' = [taken EXCEPT ![c] = @ + 1]
               /\ data' = [data EXCEPT ![c] = Append(@, taken[c] + 1)]
      <4>1. taken[c] + 1 \in 1..Size
        BY <1>3 DEF Receive
      <4>2. Append(data[c], taken[c] + 1) \in Seq(1..Size)
        BY <4>1
      <4> QED BY <3>2, <4>1, <4>2
    <3> QED BY <1>3, <3>1, <3>2 DEF Receive
  <2> QED BY <1>3, <2>1, <2>2 DEF Receive, capVars, localVars, guestVars
<1>4. ASSUME NEW c \in Calls, SendChunk(c) PROVE Types'
  BY <1>4 DEF SendChunk, At, capVars, localVars
<1>5. ASSUME NEW c \in Calls, Received(c) PROVE Types'
  BY <1>5 DEF Received, At, Goto, capVars, localVars, guestVars
<1>6. ASSUME NEW c \in Calls, Apply(c) PROVE Types'
  BY <1>6 DEF Apply, Requested, At, Goto, capVars, localVars
<1>7. ASSUME NEW c \in Calls, Answer(c) PROVE Types'
  BY <1>7 DEF Answer, At, Goto, Fail, capVars, localVars, guestVars
<1>8. ASSUME NEW c \in Calls, Rejected(c) PROVE Types'
  BY <1>8 DEF Rejected, At, Goto, Fail, capVars, localVars, guestVars
<1>9. ASSUME NEW c \in Calls, Error(c) PROVE Types'
  BY <1>9 DEF Error, Requested, At, Goto, Fail, capVars, localVars, guestVars
<1>10. ASSUME NEW c \in Calls, Refresh(c) PROVE Types'
  <2>1. pc' \in [Calls -> Steps]
    BY <1>10 DEF Refresh, Goto, Fail
  <2>2. attempt' \in [Calls -> 1..2]
    <3>1. attempt' = attempt \/ attempt' = [attempt EXCEPT ![c] = 2]
      BY <1>10 DEF Refresh
    <3>2. ASSUME attempt' = [attempt EXCEPT ![c] = 2] PROVE attempt' \in [Calls -> 1..2]
      BY <3>2
    <3> QED BY <3>1, <3>2
  <2>3. cap' \in 0..good
    BY <1>10 DEF Refresh
  <2> QED BY <1>10, <2>1, <2>2, <2>3 DEF Refresh, localVars, guestVars
<1>11. ASSUME NEW c \in Calls, Sync(c) PROVE Types'
  BY <1>11 DEF Sync, At, Goto, Fail, capVars, guestVars
<1>12. ASSUME NEW c \in Calls, Replace(c) PROVE Types'
  <2>1. dest' \in File
    <3>1. [chunks |-> data[c], synced |-> (temp[c] = "synced")] \in File
      BY DEF File
    <3> QED BY <1>12, <3>1 DEF Replace
  <2>2. pc' \in [Calls -> Steps] /\ temp' \in [Calls -> {"none", "written", "synced"}]
    BY <1>12 DEF Replace, Goto, Fail
  <2> QED BY <1>12, <2>1, <2>2 DEF Replace, capVars, guestVars
<1>13. ASSUME NEW c \in Calls, SyncParent(c) PROVE Types'
  BY <1>13 DEF SyncParent, At, Goto, capVars, guestVars
<1>14. ASSUME NEW c \in Calls, Unlink(c) PROVE Types'
  BY <1>14 DEF Unlink, At, Goto, capVars, guestVars
<1>15. CASE Expire
  BY <1>15 DEF Expire, callVars, localVars, guestVars
<1>16. CASE PowerLoss
  <2>1. ASSUME NEW f \in File, NEW left \in Remains(f) PROVE left \in Seq(1..Size)
    <3>1. f.chunks \in Seq(1..Size)
      BY DEF File
    <3>2. CASE left = f.chunks
      BY <3>1, <3>2
    <3>3. ASSUME NEW n \in 0..Len(f.chunks), left = SubSeq(f.chunks, 1, n)
          PROVE  left \in Seq(1..Size)
      BY <3>1, <3>3, SubSeqProperties
    <3> QED BY <2>1, <3>2, <3>3 DEF Remains
  <2> QED BY <1>16, <2>1 DEF PowerLoss, File, callVars, capVars, guestVars
<1>17. CASE UNCHANGED vars
  BY <1>17 DEF vars, callVars, capVars, localVars, guestVars
<1> QED BY <1>1, <1>2, <1>3, <1>4, <1>5, <1>6, <1>7, <1>8, <1>9, <1>10, <1>11, <1>12,
           <1>13, <1>14, <1>15, <1>16, <1>17 DEF Next

-----------------------------------------------------------------------------
(* Each call on its own.                                                   *)

CallInv(c) == ReadInv(c) /\ WriteInv(c) /\ ChangeInv(c) /\ DownloadInv(c)

\* A step leaves the other calls what they have.
Spares(d) == /\ op'[d] = op[d] /\ pc'[d] = pc[d] /\ taken'[d] = taken[d] /\ data'[d] = data[d]
             /\ temp'[d] = temp[d] /\ staged'[d] = staged[d] /\ applied'[d] = applied[d]
             /\ limit' = limit

LEMMA SparedInv == ASSUME NEW d \in Calls, CallInv(d), Spares(d) PROVE CallInv(d)'
BY DEF CallInv, Spares, ReadInv, WriteInv, ChangeInv, DownloadInv

\* A step of call c.
Step(c) == \/ Begin(c) \/ Attempt(c) \/ Receive(c) \/ SendChunk(c) \/ Received(c)
           \/ Apply(c) \/ Answer(c) \/ Rejected(c) \/ Error(c) \/ Refresh(c)
           \/ Sync(c) \/ Replace(c) \/ SyncParent(c) \/ Unlink(c)

LEMMA StepSpares ==
  ASSUME Types, NEW c \in Calls, NEW d \in Calls, c # d, Step(c)
  PROVE  Spares(d)
<1> USE DEF Types, Spares
<1>1. CASE Begin(c)
  BY <1>1 DEF Begin, At, Goto, capVars, guestVars
<1>2. CASE Attempt(c)
  BY <1>2 DEF Attempt, At, Goto, capVars, localVars
<1>3. CASE Receive(c)
  BY <1>3 DEF Receive, At, Goto, Fail, capVars, localVars, guestVars
<1>4. CASE SendChunk(c)
  BY <1>4 DEF SendChunk, At, capVars, localVars
<1>5. CASE Received(c)
  BY <1>5 DEF Received, At, Goto, capVars, localVars, guestVars
<1>6. CASE Apply(c)
  BY <1>6 DEF Apply, Requested, At, Goto, capVars, localVars
<1>7. CASE Answer(c)
  BY <1>7 DEF Answer, At, Goto, Fail, capVars, localVars, guestVars
<1>8. CASE Rejected(c)
  BY <1>8 DEF Rejected, At, Goto, Fail, capVars, localVars, guestVars
<1>9. CASE Error(c)
  BY <1>9 DEF Error, Requested, At, Goto, Fail, capVars, localVars, guestVars
<1>10. CASE Refresh(c)
  BY <1>10 DEF Refresh, At, Goto, Fail, localVars, guestVars
<1>11. CASE Sync(c)
  BY <1>11 DEF Sync, At, Goto, Fail, capVars, guestVars
<1>12. CASE Replace(c)
  BY <1>12 DEF Replace, At, Goto, Fail, capVars, guestVars
<1>13. CASE SyncParent(c)
  BY <1>13 DEF SyncParent, At, Goto, capVars, guestVars
<1>14. CASE Unlink(c)
  BY <1>14 DEF Unlink, At, Goto, capVars, guestVars
<1> QED BY <1>1, <1>2, <1>3, <1>4, <1>5, <1>6, <1>7, <1>8, <1>9, <1>10, <1>11, <1>12,
           <1>13, <1>14 DEF Step

LEMMA CallsStep ==
  ASSUME Types, [Next]_vars, NEW d \in Calls, CallInv(d)
  PROVE  CallInv(d)'
<1> USE TransferAssumption DEF Types
<1>1. CASE Begin(d)
  BY <1>1 DEF Begin, At, Goto, capVars, guestVars,
     CallInv, ReadInv, WriteInv, ChangeInv, DownloadInv, Ended, Raised
<1>2. CASE Attempt(d)
  BY <1>2, NoChunks DEF Attempt, At, Goto, capVars, localVars,
     CallInv, ReadInv, WriteInv, ChangeInv, DownloadInv, Ended, Raised
<1>3. CASE Receive(d)
  <2>1. CASE pc' = pc
    <3>1. /\ taken[d] \in Nat /\ data[d] \in Seq(1..Size) /\ taken[d] + 1 \in 1..Size
          /\ data'[d] = Append(data[d], taken[d] + 1) /\ taken'[d] = taken[d] + 1
          /\ op[d] = "read" => Len(data[d]) + 1 <= limit
      BY <1>3, <2>1 DEF Receive, At, Goto, Fail
    <3>2. /\ Len(data'[d]) = Len(data[d]) + 1
          /\ data[d] = Chunks(taken[d]) => data'[d] = Chunks(taken'[d])
      <4>1. Append(Chunks(taken[d]), taken[d] + 1) = Chunks(taken[d] + 1)
        BY <3>1, ChunksGrow
      <4>2. Len(Append(data[d], taken[d] + 1)) = Len(data[d]) + 1
        BY <3>1
      <4> QED BY <3>1, <4>1, <4>2
    <3>3. UNCHANGED <<op, limit, staged, applied, temp>>
      BY <1>3 DEF Receive, capVars, localVars, guestVars
    <3>4. pc[d] = "stream"
      BY <1>3 DEF Receive, At
    <3>5. ReadInv(d)'
      BY <2>1, <3>1, <3>2, <3>3, <3>4 DEF CallInv, ReadInv
    <3>6. WriteInv(d)' /\ ChangeInv(d)'
      BY <2>1, <3>3, <3>4, <1>3 DEF Receive, CallInv, WriteInv, ChangeInv
    <3>7. DownloadInv(d)'
      BY <2>1, <3>1, <3>2, <3>3, <3>4 DEF CallInv, DownloadInv, Ended, Raised
    <3> QED BY <3>5, <3>6, <3>7 DEF CallInv
  <2>2. CASE pc' # pc
    <3>1. /\ Fail(d) /\ UNCHANGED <<taken, data, op, limit, staged, applied, temp>>
          /\ op[d] = "read"
      BY <1>3, <2>2 DEF Receive, capVars, localVars, guestVars
    <3> QED BY <3>1
            DEF Fail, Goto, CallInv, ReadInv, WriteInv, ChangeInv, DownloadInv, Ended, Raised
  <2> QED BY <2>1, <2>2
<1>4. CASE SendChunk(d)
  <2>1. /\ taken'[d] = taken[d] + 1 /\ staged'[d] = Append(staged[d], taken[d] + 1)
        /\ UNCHANGED <<op, pc, data, limit, applied, temp>>
        /\ op[d] = "write" /\ pc[d] = "stream" /\ taken[d] \in Nat
    BY <1>4 DEF SendChunk, At, capVars, localVars
  <2> QED BY <2>1, ChunksGrow
          DEF CallInv, ReadInv, WriteInv, ChangeInv, DownloadInv, Ended, Raised
<1>5. CASE Received(d)
  <2>1. /\ pc'[d] = IF op[d] = "read" THEN "returned" ELSE "sync"
        /\ UNCHANGED <<op, taken, data, limit, staged, applied, temp>>
        /\ op[d] \in {"read", "download"} /\ pc[d] = "stream" /\ taken[d] = Size
    BY <1>5 DEF Received, At, Goto, capVars, localVars, guestVars
  <2>2. Len(data[d]) >= Size /\ data[d] \in Seq(1..Size) => data[d] # <<>>
    OBVIOUS
  <2> QED BY <2>1, <2>2, WholeIsNotEmpty
          DEF CallInv, ReadInv, WriteInv, ChangeInv, DownloadInv, Ended, Raised
<1>6. CASE Apply(d)
  BY <1>6 DEF Apply, Requested, At, Goto, capVars, localVars,
     CallInv, ReadInv, WriteInv, ChangeInv, DownloadInv, Ended, Raised
<1>7. CASE Answer(d)
  BY <1>7 DEF Answer, At, Goto, Fail, capVars, localVars, guestVars,
     CallInv, ReadInv, WriteInv, ChangeInv, DownloadInv, Ended, Raised
<1>8. CASE Rejected(d)
  BY <1>8 DEF Rejected, At, Goto, Fail, capVars, localVars, guestVars,
     CallInv, ReadInv, WriteInv, ChangeInv, DownloadInv, Ended, Raised
<1>9. CASE Error(d)
  BY <1>9 DEF Error, Requested, At, Goto, Fail, capVars, localVars, guestVars,
     CallInv, ReadInv, WriteInv, ChangeInv, DownloadInv, Ended, Raised
<1>10. CASE Refresh(d)
  BY <1>10 DEF Refresh, At, Goto, Fail, localVars, guestVars,
     CallInv, ReadInv, WriteInv, ChangeInv, DownloadInv, Ended, Raised
<1>11. CASE Sync(d)
  BY <1>11 DEF Sync, At, Goto, Fail, capVars, guestVars,
     CallInv, ReadInv, WriteInv, ChangeInv, DownloadInv, Ended, Raised
<1>12. CASE Replace(d)
  BY <1>12 DEF Replace, At, Goto, Fail, capVars, guestVars,
     CallInv, ReadInv, WriteInv, ChangeInv, DownloadInv, Ended, Raised
<1>13. CASE SyncParent(d)
  BY <1>13 DEF SyncParent, At, Goto, capVars, guestVars,
     CallInv, ReadInv, WriteInv, ChangeInv, DownloadInv, Ended, Raised
<1>14. CASE Unlink(d)
  BY <1>14 DEF Unlink, At, Goto, capVars, guestVars,
     CallInv, ReadInv, WriteInv, ChangeInv, DownloadInv, Ended, Raised
<1>15. CASE Expire \/ PowerLoss \/ UNCHANGED vars
  <2>1. Spares(d)
    BY <1>15 DEF Expire, PowerLoss, vars, Spares, callVars, capVars, localVars, guestVars
  <2> QED BY <2>1, SparedInv
<1>16. ASSUME NEW c \in Calls, c # d, Step(c) PROVE CallInv(d)'
  BY <1>16, StepSpares, SparedInv
<1> QED BY <1>1, <1>2, <1>3, <1>4, <1>5, <1>6, <1>7, <1>8, <1>9, <1>10, <1>11, <1>12,
           <1>13, <1>14, <1>15, <1>16 DEF Next, Step

-----------------------------------------------------------------------------
(* The remote file and the destination.                                    *)

LEMMA RemoteStep ==
  ASSUME Types, [Next]_vars, \A c \in Calls : CallInv(c), remote \in {<<>>, Whole}
  PROVE  remote' \in {<<>>, Whole}
<1>1. ASSUME NEW c \in Calls, Apply(c) PROVE remote' \in {<<>>, Whole}
  BY <1>1, WholeIsNotEmpty DEF Apply, Requested, CallInv, WriteInv
<1>2. CASE UNCHANGED remote
  BY <1>2
<1> QED BY <1>1, <1>2 DEF Next, vars, guestVars, Begin, Attempt, Receive, SendChunk, Received,
           Answer, Rejected, Error, Refresh, Sync, Replace, SyncParent, Unlink, Expire,
           PowerLoss

\* What is left of a synced file is the file.
LEMMA SyncedRemains == ASSUME NEW f, f.synced PROVE Remains(f) = {f.chunks}
BY DEF Remains

LEMMA LocalStep ==
  ASSUME Types, [Next]_vars, \A c \in Calls : CallInv(c), LocalInv
  PROVE  LocalInv'
<1>1. ASSUME NEW c \in Calls, Replace(c) PROVE LocalInv'
  <2>1. CASE /\ dest' = [chunks |-> data[c], synced |-> (temp[c] = "synced")]
             /\ Goto(c, "syncParent")
    <3>1. dest'.synced /\ dest'.chunks # <<>>
      BY <1>1, <2>1 DEF Replace, At, CallInv, DownloadInv
    <3>2. op' = op /\ disk' = disk
      BY <1>1 DEF Replace
    <3>3. \A d \in Calls : pc'[d] = "returned" => pc[d] = "returned"
      BY <2>1 DEF Goto, Types
    <3> QED BY <3>1, <3>2, <3>3 DEF LocalInv
  <2>2. CASE UNCHANGED dest /\ Fail(c)
    <3>1. \A d \in Calls : /\ pc'[d] = "syncParent" => pc[d] = "syncParent"
                           /\ pc'[d] = "returned" => pc[d] = "returned"
      BY <2>2 DEF Fail, Goto, Types
    <3>2. op' = op /\ disk' = disk /\ lost' = lost
      BY <1>1 DEF Replace
    <3> QED BY <2>2, <3>1, <3>2 DEF LocalInv
  <2> QED BY <1>1, <2>1, <2>2 DEF Replace
<1>2. ASSUME NEW c \in Calls, SyncParent(c) PROVE LocalInv'
  BY <1>2 DEF SyncParent, At, Goto, capVars, guestVars, LocalInv, Types
<1>3. CASE PowerLoss
  <2>1. PICK f \in {dest, disk} : \E left \in Remains(f) :
            /\ dest' = [chunks |-> left, synced |-> TRUE]
            /\ disk' = dest'
    BY <1>3 DEF PowerLoss
  <2>2. f.synced
    BY <2>1 DEF LocalInv
  <2>3. dest' = [chunks |-> f.chunks, synced |-> TRUE] /\ disk' = dest'
    BY <2>1, <2>2, SyncedRemains
  <2>4. dest'.synced /\ disk'.synced /\ dest'.chunks = f.chunks /\ disk'.chunks = f.chunks
    BY <2>3
  <2>5. lost' /\ UNCHANGED <<op, pc>>
    BY <1>3 DEF PowerLoss, callVars
  <2> QED BY <2>1, <2>4, <2>5 DEF LocalInv
<1>4. ASSUME UNCHANGED <<op, dest, disk, lost>>,
             \A d \in Calls : /\ pc'[d] = "syncParent" => pc[d] = "syncParent"
                              /\ pc'[d] = "returned" /\ op[d] = "download" => pc[d] = "returned"
      PROVE  LocalInv'
  <2>1. op' = op /\ dest' = dest /\ disk' = disk /\ (lost' <=> lost)
    BY <1>4
  <2>2. dest'.synced /\ disk'.synced
    BY <2>1 DEF LocalInv
  <2>3. ASSUME NEW d \in Calls, op'[d] = "download", pc'[d] = "returned"
        PROVE  dest'.chunks # <<>> /\ disk'.chunks # <<>>
    BY <1>4, <2>1, <2>3 DEF LocalInv
  <2>4. \A d \in Calls : pc'[d] = "syncParent" => pc[d] = "syncParent"
    BY <1>4
  <2>5. ~lost' => \A d \in Calls : pc'[d] = "syncParent" => dest'.chunks # <<>>
    BY <2>1, <2>4 DEF LocalInv
  <2> QED BY <2>2, <2>3, <2>5 DEF LocalInv
<1>5. ASSUME NEW c \in Calls,
             \/ Begin(c) \/ Attempt(c) \/ Receive(c) \/ SendChunk(c) \/ Received(c)
             \/ Apply(c) \/ Answer(c) \/ Rejected(c) \/ Error(c) \/ Refresh(c)
             \/ Sync(c) \/ Unlink(c)
      PROVE  LocalInv'
  <2>1. UNCHANGED <<op, dest, disk, lost>>
    BY <1>5 DEF Begin, Attempt, Receive, SendChunk, Received, Apply, Answer, Rejected, Error,
       Refresh, Sync, Unlink, localVars
  <2>2. \A d \in Calls : /\ pc'[d] = "syncParent" => pc[d] = "syncParent"
                         /\ pc'[d] = "returned" /\ op[d] = "download" => pc[d] = "returned"
    <3>1. CASE Begin(c) \/ Attempt(c) \/ Receive(c) \/ SendChunk(c) \/ Received(c)
      BY <3>1 DEF Begin, Attempt, Receive, SendChunk, Received, Goto, Fail, Types
    <3>2. CASE Apply(c) \/ Rejected(c) \/ Error(c) \/ Refresh(c) \/ Sync(c) \/ Unlink(c)
      BY <3>2 DEF Apply, Rejected, Error, Refresh, Sync, Unlink, Goto, Fail, Types
    <3>3. CASE Answer(c)
      BY <3>3 DEF Answer, At, Goto, Fail, CallInv, ChangeInv, Types
    <3> QED BY <1>5, <3>1, <3>2, <3>3
  <2> QED BY <1>4, <2>1, <2>2
<1>6. CASE Expire \/ UNCHANGED vars
  BY <1>4, <1>6 DEF Expire, vars, callVars, localVars
<1> QED BY <1>1, <1>2, <1>3, <1>5, <1>6 DEF Next

-----------------------------------------------------------------------------
(* The invariant, and what follows from it.                                *)

LEMMA IInvInit == Init => IInv
<1> SUFFICES ASSUME Init PROVE IInv
  OBVIOUS
<1>1. ASSUME NEW c \in Calls PROVE CallInv(c)
  BY TransferAssumption DEF Init, CallInv, ReadInv, WriteInv, ChangeInv, DownloadInv, Ended,
     Raised
<1>2. LocalInv /\ remote \in {<<>>, Whole}
  BY DEF Init, LocalInv, Old
<1> QED BY TypesInit, <1>1, <1>2 DEF IInv, CallInv

LEMMA IInvStep == IInv /\ [Next]_vars => IInv'
<1> SUFFICES ASSUME IInv, [Next]_vars PROVE IInv'
  OBVIOUS
<1>1. Types /\ LocalInv /\ remote \in {<<>>, Whole} /\ \A c \in Calls : CallInv(c)
  BY DEF IInv, CallInv
<1>2. Types' /\ LocalInv' /\ remote' \in {<<>>, Whole}
  BY <1>1, TypesStep, LocalStep, RemoteStep
<1>3. \A c \in Calls : CallInv(c)'
  BY <1>1, CallsStep
<1> QED BY <1>2, <1>3 DEF IInv, CallInv

THEOREM Invariance == Spec => []IInv
BY IInvInit, IInvStep, PTL DEF Spec

-----------------------------------------------------------------------------
(* What the runs check, for every value of the constants.                  *)

\* Every variable has its type, and a read holds no more than its limit.
THEOREM TypeCorrect == Spec => []TypeOK
<1>1. IInv => TypeOK
  BY DEF IInv, Types, ReadInv, TypeOK
<1> QED BY <1>1, Invariance, PTL

\* No retry and no refresh applies a change to the remote filesystem twice.
THEOREM Once == Spec => []AppliedOnce
<1>1. IInv => AppliedOnce
  BY DEF IInv, ChangeInv, AppliedOnce
<1> QED BY <1>1, Invariance, PTL

\* A read and a published write are whole, whichever attempt they are of.
THEOREM Payloads == Spec => []PayloadIsWhole
<1>1. IInv => PayloadIsWhole
  BY DEF IInv, ReadInv, PayloadIsWhole
<1> QED BY <1>1, Invariance, PTL

\* Every download that ended has removed or moved its temporary file.
THEOREM TempsAreRemoved == Spec => []NoTempLeft
<1>1. IInv => NoTempLeft
  BY DEF IInv, DownloadInv, NoTempLeft
<1> QED BY <1>1, Invariance, PTL

\* A download that returned survives a power failure.
THEOREM Durable == Spec => []ReturnedIsDurable
<1>1. IInv => ReturnedIsDurable
  BY DEF IInv, LocalInv, ReturnedIsDurable
<1> QED BY <1>1, Invariance, PTL

-----------------------------------------------------------------------------
(* The destination, when a download is rejected only before its first chunk. *)

\* The temporary file of a download holds what this attempt's stream gave it.
FreshInv(c) ==
    op[c] = "download" =>
        /\ pc[c] \in {"idle", "call", "refresh"} => data[c] = <<>>
        /\ pc[c] = "stream" => data[c] = Chunks(taken[c])
        /\ pc[c] \in {"sync", "replace"} => data[c] = Whole

WholeInv == /\ dest.chunks \in {<<>>, Whole} /\ disk.chunks \in {<<>>, Whole}
            /\ \A c \in Calls : FreshInv(c)

LEMMA SparedFresh == ASSUME NEW d \in Calls, FreshInv(d), Spares(d) PROVE FreshInv(d)'
BY DEF FreshInv, Spares

LEMMA FreshStep ==
  ASSUME Types, [Next]_vars, "download" \notin LateRejects,
         NEW d \in Calls, CallInv(d), FreshInv(d)
  PROVE  FreshInv(d)'
<1> USE TransferAssumption DEF Types
<1>1. ASSUME NEW c \in Calls, Step(c), c # d PROVE FreshInv(d)'
  BY <1>1, StepSpares, SparedFresh
<1>2. ASSUME UNCHANGED op, data'[d] = data[d], taken'[d] = taken[d],
             pc'[d] \in {"returned", "raised", "gaveUp", "unlink", "answer", "syncParent"}
      PROVE  FreshInv(d)'
  BY <1>2 DEF FreshInv
<1>3. CASE Begin(d) \/ Attempt(d) \/ Refresh(d)
  BY <1>3, NoChunks DEF Begin, Attempt, Refresh, FreshInv, At, Goto, Fail
<1>4. CASE Receive(d)
  <2>1. CASE pc' = pc
    <3>1. /\ taken[d] \in Nat /\ op' = op /\ pc[d] = "stream"
          /\ data'[d] = Append(data[d], taken[d] + 1) /\ taken'[d] = taken[d] + 1
      BY <1>4, <2>1 DEF Receive, At, Goto, Fail
    <3>2. Append(Chunks(taken[d]), taken[d] + 1) = Chunks(taken[d] + 1)
      BY <3>1, ChunksGrow
    <3> QED BY <2>1, <3>1, <3>2 DEF FreshInv
  <2>2. CASE pc' # pc
    BY <1>4, <2>2 DEF Receive, FreshInv
  <2> QED BY <2>1, <2>2
<1>5. CASE SendChunk(d)
  BY <1>5 DEF SendChunk, FreshInv
<1>6. CASE Received(d)
  <2>1. /\ op' = op /\ data' = data /\ taken[d] = Size /\ pc[d] = "stream"
        /\ pc'[d] \in {"returned", "sync"}
    BY <1>6 DEF Received, At, Goto
  <2> QED BY <2>1, WholeIsNotEmpty DEF FreshInv
<1>7. CASE Apply(d) \/ Answer(d) \/ SyncParent(d) \/ Unlink(d) \/ Error(d)
  BY <1>2, <1>7 DEF Apply, Answer, SyncParent, Unlink, Error, Goto, Fail
<1>8. CASE Rejected(d)
  BY <1>8, NoChunks DEF Rejected, FreshInv, At, Goto, Fail
<1>9. CASE Sync(d) \/ Replace(d)
  BY <1>9 DEF Sync, Replace, FreshInv, At, Goto, Fail
<1>10. CASE Expire \/ PowerLoss \/ UNCHANGED vars
  <2>1. Spares(d)
    BY <1>10 DEF Expire, PowerLoss, vars, Spares, callVars, capVars, localVars, guestVars
  <2> QED BY <2>1, SparedFresh
<1> QED BY <1>1, <1>3, <1>4, <1>5, <1>6, <1>7, <1>8, <1>9, <1>10 DEF Next, Step

LEMMA WholeStep ==
  "download" \notin LateRejects /\ IInv /\ WholeInv /\ [Next]_vars => WholeInv'
<1> SUFFICES ASSUME "download" \notin LateRejects, IInv, WholeInv, [Next]_vars
             PROVE  WholeInv'
  OBVIOUS
<1>1. \A c \in Calls : FreshInv(c)'
  BY FreshStep DEF IInv, WholeInv, CallInv
<1>2. dest'.chunks \in {<<>>, Whole} /\ disk'.chunks \in {<<>>, Whole}
  <2>1. ASSUME NEW c \in Calls, Replace(c)
        PROVE  dest'.chunks \in {<<>>, Whole} /\ disk'.chunks \in {<<>>, Whole}
    BY <2>1 DEF Replace, At, WholeInv, FreshInv, IInv, DownloadInv
  <2>2. ASSUME NEW c \in Calls, SyncParent(c)
        PROVE  dest'.chunks \in {<<>>, Whole} /\ disk'.chunks \in {<<>>, Whole}
    BY <2>2 DEF SyncParent, WholeInv
  <2>3. CASE PowerLoss
    BY <2>3, SyncedRemains DEF PowerLoss, WholeInv, IInv, LocalInv
  <2>4. CASE UNCHANGED <<dest, disk>>
    BY <2>4 DEF WholeInv
  <2> QED BY <2>1, <2>2, <2>3, <2>4 DEF Next, vars, localVars, Begin, Attempt, Receive,
             SendChunk, Received, Apply, Answer, Rejected, Error, Refresh, Sync, Unlink, Expire
<1> QED BY <1>1, <1>2 DEF WholeInv

\* Unless the service rejects the capability of a download that has begun to arrive,
\* the destination is the old file or the whole new one, power failures included.
THEOREM DownloadIsWhole == "download" \notin LateRejects /\ Spec => []DestinationIsWhole
<1> SUFFICES ASSUME "download" \notin LateRejects PROVE Spec => []DestinationIsWhole
  OBVIOUS
<1>1. Init => WholeInv
  BY DEF Init, WholeInv, FreshInv, Old
<1>2. IInv /\ WholeInv /\ [Next]_vars => WholeInv'
  BY WholeStep
<1>3. WholeInv => DestinationIsWhole
  BY DEF WholeInv, DestinationIsWhole
<1> QED BY <1>1, <1>2, <1>3, Invariance, PTL DEF Spec

-----------------------------------------------------------------------------
(* What the calls promise: FileTransfer implements FileCalls.              *)

\* What FileCalls does not see of a step of call c that goes to the given step.
Unseen(c, step) ==
    /\ pc' = [pc EXCEPT ![c] = step] /\ pc[c] \notin Ended /\ step \notin Ended
    /\ \A d \in Calls : d # c => data'[d] = data[d]
    /\ UNCHANGED <<op, applied, remote, dest, disk, lost>>

LEMMA UnseenStep ==
  ASSUME Types, NEW c \in Calls, NEW step \in Steps, Unseen(c, step)
  PROVE  UNCHANGED Promise!vars
<1>1. \A d \in Calls : pc'[d] = (IF d = c THEN step ELSE pc[d])
  BY DEF Unseen, Types
<1>2. Status(step) = "open" /\ Status(pc[c]) = "open"
  BY DEF Unseen, Status, Ended, Raised
<1>3. \A d \in Calls : Status(pc[d])' = Status(pc[d])
  BY <1>1, <1>2
<1>4. \A d \in Calls : Answered(d)' = Answered(d)
  BY <1>1 DEF Unseen, Answered, Ended
<1>5. [d \in Calls |-> Status(pc[d])]' = [d \in Calls |-> Status(pc[d])]
  BY <1>3
<1>6. [d \in Calls |-> Answered(d)]' = [d \in Calls |-> Answered(d)]
  BY <1>4
<1> QED BY <1>5, <1>6 DEF Unseen, Promise!vars

\* A call that ends with an error, and does nothing else.
Ends(c, step) ==
    /\ ~lost /\ pc[c] \notin Ended /\ pc' = [pc EXCEPT ![c] = step]
    /\ UNCHANGED <<op, data, applied, remote, dest, disk, lost>>

LEMMA RaiseStep ==
  ASSUME Types, NEW c \in Calls, NEW step \in Raised, Ends(c, step)
  PROVE  Promise!Raise(c)
<1>1. \A d \in Calls : pc'[d] = (IF d = c THEN step ELSE pc[d])
  BY DEF Ends, Types
<1>2. Status(step) = "raised" /\ Status(pc[c]) = "open"
  BY DEF Ends, Status, Ended, Raised
<1>3. [d \in Calls |-> Status(pc[d])]'
      = [[d \in Calls |-> Status(pc[d])] EXCEPT ![c] = "raised"]
  BY <1>1, <1>2
<1>4. \A d \in Calls : Answered(d)' = Answered(d)
  BY <1>1 DEF Ends, Answered, Ended, Raised
<1>5. [d \in Calls |-> Answered(d)]' = [d \in Calls |-> Answered(d)]
  BY <1>4
<1>6. [d \in Calls |-> Status(pc[d])][c] = "open"
  BY <1>2
<1> QED BY <1>3, <1>5, <1>6 DEF Ends, Promise!Raise

LEMMA FailStep ==
  ASSUME Types, NEW c \in Calls, ~lost, pc[c] \notin Ended, Fail(c),
         UNCHANGED <<op, data, applied, remote, dest, disk, lost>>
  PROVE  Promise!Raise(c) \/ UNCHANGED Promise!vars
<1>1. CASE op[c] = "download"
  <2>1. Unseen(c, "unlink")
    BY <1>1 DEF Unseen, Fail, Goto, Ended, Raised
  <2> QED BY <2>1, UnseenStep DEF Steps
<1>2. CASE op[c] # "download"
  <2>1. Ends(c, "raised")
    BY <1>2 DEF Ends, Fail, Goto
  <2> QED BY <2>1, RaiseStep DEF Raised
<1> QED BY <1>1, <1>2

\* A call that returns: what it answers and what it promises to keep.
LEMMA ReturnStep ==
  ASSUME Types, NEW c \in Calls, ~lost, pc[c] \notin Ended,
         pc' = [pc EXCEPT ![c] = "returned"],
         UNCHANGED <<op, data, applied, remote, dest, lost>>,
         op[c] = "read" => data[c] = Whole,
         op[c] \in {"write", "mutate"} => applied[c] = 1,
         op[c] = "download" => dest.chunks = Whole /\ disk' = dest,
         op[c] # "download" => disk' = disk
  PROVE  Promise!Return(c)
<1>1. \A d \in Calls : pc'[d] = (IF d = c THEN "returned" ELSE pc[d])
  BY DEF Types
<1>2. Status("returned") = "returned" /\ Status(pc[c]) = "open"
  BY DEF Status, Ended, Raised
<1>3. [d \in Calls |-> Status(pc[d])]'
      = [[d \in Calls |-> Status(pc[d])] EXCEPT ![c] = "returned"]
  <2>1. \A d \in Calls : Status(pc[d])' = (IF d = c THEN "returned" ELSE Status(pc[d]))
    BY <1>1, <1>2
  <2> QED BY <2>1
<1>4. [d \in Calls |-> Status(pc[d])][c] = "open"
  BY <1>2
<1>5. \A d \in Calls : Answered(d)' = IF d = c /\ op[c] = "read" THEN Whole ELSE Answered(d)
  BY <1>1 DEF Answered, Ended
<1>6. [d \in Calls |-> Answered(d)]' = IF op[c] = "read"
                                       THEN [[d \in Calls |-> Answered(d)] EXCEPT ![c] = Whole]
                                       ELSE [d \in Calls |-> Answered(d)]
  BY <1>5
<1>7. /\ disk'.chunks = IF op[c] = "download" THEN Whole ELSE disk.chunks
      /\ dest'.chunks = dest.chunks
  OBVIOUS
<1> QED BY <1>3, <1>4, <1>6, <1>7 DEF Promise!Return, Promise!Changes

LEMMA PromiseStep ==
  ASSUME IInv, WholeInv, [Next]_vars
  PROVE  [Promise!Next]_(Promise!vars)
<1> USE TransferAssumption
<1>1. Types /\ LocalInv /\ \A d \in Calls : CallInv(d) /\ FreshInv(d)
  BY DEF IInv, WholeInv, CallInv
<1>2. dest.chunks \in {<<>>, Whole} /\ disk.chunks \in {<<>>, Whole}
  BY DEF WholeInv
<1>3. ASSUME NEW c \in Calls, Promise!Change(c) \/ Promise!Replace(c) \/ Promise!Return(c)
                             \/ Promise!Raise(c)
      PROVE  Promise!Next
  BY <1>3 DEF Promise!Next
<1>4. ASSUME NEW c \in Calls, ~lost, pc[c] \notin Ended, Fail(c),
             UNCHANGED <<op, data, applied, remote, dest, disk, lost>>
      PROVE  [Promise!Next]_(Promise!vars)
  BY <1>1, <1>3, <1>4, FailStep
<1>5. ASSUME NEW c \in Calls, NEW step \in Steps, Unseen(c, step)
      PROVE  [Promise!Next]_(Promise!vars)
  BY <1>1, <1>5, UnseenStep
<1>6. ASSUME NEW c \in Calls,
             Begin(c) \/ Attempt(c) \/ SendChunk(c) \/ Unlink(c)
      PROVE  [Promise!Next]_(Promise!vars)
  <2>1. CASE Begin(c)
    <3>1. Unseen(c, "call")
      BY <2>1 DEF Begin, Unseen, At, Goto, Ended, Raised, capVars, guestVars
    <3> QED BY <3>1, <1>5 DEF Steps
  <2>2. CASE Attempt(c)
    <3>1. Unseen(c, "stream")
      BY <1>1, <2>2 DEF Attempt, Unseen, At, Goto, Ended, Raised, localVars, Types
    <3> QED BY <3>1, <1>5 DEF Steps
  <2>3. CASE SendChunk(c)
    <3>1. Unseen(c, "stream")
      BY <1>1, <2>3 DEF SendChunk, Unseen, At, Ended, Raised, localVars, Types
    <3> QED BY <3>1, <1>5 DEF Steps
  <2>4. CASE Unlink(c)
    <3>1. Ends(c, "raised")
      BY <2>4 DEF Unlink, Ends, At, Goto, Ended, Raised, guestVars
    <3> QED BY <1>1, <1>3, <3>1, RaiseStep DEF Raised
  <2> QED BY <1>6, <2>1, <2>2, <2>3, <2>4
<1>7. ASSUME NEW c \in Calls, Receive(c) \/ Received(c)
      PROVE  [Promise!Next]_(Promise!vars)
  <2>1. CASE Receive(c)
    <3>1. CASE Fail(c) /\ UNCHANGED data
      BY <1>4, <2>1, <3>1 DEF Receive, At, Ended, Raised, localVars, guestVars
    <3>2. CASE UNCHANGED pc
      <4>1. Unseen(c, "stream")
        BY <1>1, <2>1, <3>2 DEF Receive, Unseen, At, Ended, Raised, localVars, guestVars, Types
      <4> QED BY <4>1, <1>5 DEF Steps
    <3> QED BY <2>1, <3>1, <3>2 DEF Receive
  <2>2. CASE Received(c) /\ op[c] = "read"
    <3>1. data[c] = Whole
      BY <1>1, <2>2, WholeIsNotEmpty DEF Received, At, CallInv, ReadInv
    <3>2. Promise!Return(c)
      BY <1>1, <2>2, <3>1, ReturnStep
         DEF Received, At, Goto, Ended, Raised, localVars, guestVars
    <3> QED BY <1>3, <3>2
  <2>3. CASE Received(c) /\ op[c] # "read"
    <3>1. Unseen(c, "sync")
      BY <2>3 DEF Received, Unseen, At, Goto, Ended, Raised, localVars, guestVars
    <3> QED BY <3>1, <1>5 DEF Steps
  <2> QED BY <1>7, <2>1, <2>2, <2>3
<1>8. ASSUME NEW c \in Calls, Apply(c) PROVE Promise!Change(c)
  <2>1. /\ op[c] \in {"write", "mutate"} /\ applied[c] = 0
        /\ op[c] = "write" => staged[c] = Whole
    BY <1>1, <1>8, WholeIsNotEmpty DEF Apply, Requested, CallInv, WriteInv, ChangeInv
  <2>2. applied' = [applied EXCEPT ![c] = 1]
    BY <1>1, <1>8, <2>1 DEF Apply, Types
  <2>3. \A d \in Calls : /\ Status(pc[d])' = Status(pc[d])
                         /\ Answered(d)' = Answered(d)
    BY <1>1, <1>8 DEF Apply, Goto, Status, Answered, Raised, Types
  <2>4. /\ [d \in Calls |-> Status(pc[d])]' = [d \in Calls |-> Status(pc[d])]
        /\ [d \in Calls |-> Answered(d)]' = [d \in Calls |-> Answered(d)]
    BY <2>3
  <2>5. [d \in Calls |-> Status(pc[d])][c] # "returned"
    BY <1>8 DEF Apply, Status, Raised
  <2> QED BY <1>8, <2>1, <2>2, <2>4, <2>5
          DEF Apply, localVars, Promise!Change, Promise!Changes
<1>9. ASSUME NEW c \in Calls, Answer(c) PROVE [Promise!Next]_(Promise!vars)
  <2>1. op[c] \in {"write", "mutate"} /\ applied[c] = 1 /\ ~lost /\ pc[c] \notin Ended
    BY <1>1, <1>9 DEF Answer, At, CallInv, ChangeInv, Ended, Raised
  <2>2. UNCHANGED <<op, data, applied, remote, dest, disk, lost>>
    BY <1>9 DEF Answer, localVars, guestVars
  <2>3. CASE Goto(c, "returned")
    BY <1>1, <1>3, <2>1, <2>2, <2>3, ReturnStep DEF Goto
  <2>4. CASE Fail(c)
    BY <1>4, <2>1, <2>2, <2>4
  <2> QED BY <1>9, <2>3, <2>4 DEF Answer
<1>10. ASSUME NEW c \in Calls, Rejected(c) \/ Error(c) \/ Refresh(c) \/ Sync(c)
       PROVE  [Promise!Next]_(Promise!vars)
  <2>1. /\ ~lost /\ pc[c] \notin Ended
        /\ UNCHANGED <<op, data, applied, remote, dest, disk, lost>>
    BY <1>10 DEF Rejected, Error, Refresh, Sync, At, Ended, Raised, localVars, guestVars
  <2>2. CASE Fail(c)
    BY <1>4, <2>1, <2>2
  <2>3. ASSUME NEW step \in {"refresh", "call", "replace"}, Goto(c, step)
        PROVE  [Promise!Next]_(Promise!vars)
    <3>1. Unseen(c, step)
      BY <2>1, <2>3 DEF Unseen, Goto, Ended, Raised
    <3> QED BY <3>1, <1>5 DEF Steps
  <2>4. CASE Goto(c, "gaveUp")
    <3>1. Ends(c, "gaveUp")
      BY <2>1, <2>4 DEF Ends, Goto
    <3> QED BY <1>1, <1>3, <3>1, RaiseStep DEF Raised
  <2> QED BY <1>10, <2>2, <2>3, <2>4 DEF Rejected, Error, Refresh, Sync
<1>11. ASSUME NEW c \in Calls, Replace(c) PROVE [Promise!Next]_(Promise!vars)
  <2>1. /\ op[c] = "download" /\ data[c] = Whole /\ ~lost /\ pc[c] = "replace"
        /\ UNCHANGED <<op, data, applied, remote, disk, lost>>
    BY <1>1, <1>11 DEF Replace, At, CallInv, DownloadInv, FreshInv, guestVars
  <2>2. CASE UNCHANGED dest /\ Fail(c)
    BY <1>4, <2>1, <2>2 DEF Ended, Raised
  <2>3. CASE /\ dest' = [chunks |-> data[c], synced |-> (temp[c] = "synced")]
             /\ Goto(c, "syncParent")
    <3>1. dest'.chunks = Whole
      BY <2>1, <2>3
    <3>2. \A d \in Calls : /\ Status(pc[d])' = Status(pc[d])
                           /\ Answered(d)' = Answered(d)
      BY <1>1, <2>1, <2>3 DEF Goto, Status, Answered, Raised, Types
    <3>3. /\ [d \in Calls |-> Status(pc[d])]' = [d \in Calls |-> Status(pc[d])]
          /\ [d \in Calls |-> Answered(d)]' = [d \in Calls |-> Answered(d)]
      BY <3>2
    <3>4. [d \in Calls |-> Status(pc[d])][c] = "open"
      BY <2>1 DEF Status, Raised
    <3>5. Promise!Replace(c)
      BY <2>1, <3>1, <3>3, <3>4 DEF Promise!Replace
    <3> QED BY <1>3, <3>5
  <2> QED BY <1>11, <2>2, <2>3 DEF Replace
<1>12. ASSUME NEW c \in Calls, SyncParent(c) PROVE [Promise!Next]_(Promise!vars)
  <2>1. /\ op[c] = "download" /\ ~lost /\ pc[c] \notin Ended /\ dest.chunks = Whole
        /\ UNCHANGED <<op, data, applied, remote, dest, lost>>
    BY <1>1, <1>2, <1>12
       DEF SyncParent, At, CallInv, DownloadInv, LocalInv, Ended, Raised, guestVars
  <2>2. CASE disk' = dest /\ Goto(c, "returned")
    BY <1>1, <1>3, <2>1, <2>2, ReturnStep DEF Goto
  <2>3. CASE UNCHANGED disk /\ Goto(c, "raised")
    <3>1. Ends(c, "raised")
      BY <2>1, <2>3 DEF Ends, Goto
    <3> QED BY <1>1, <1>3, <3>1, RaiseStep DEF Raised
  <2> QED BY <1>12, <2>2, <2>3 DEF SyncParent
<1>13. CASE Expire \/ UNCHANGED vars
  <2>1. UNCHANGED <<op, pc, data, applied, remote, dest, disk, lost>>
    BY <1>13 DEF Expire, vars, callVars, localVars, guestVars
  <2>2. /\ [d \in Calls |-> Status(pc[d])]' = [d \in Calls |-> Status(pc[d])]
        /\ [d \in Calls |-> Answered(d)]' = [d \in Calls |-> Answered(d)]
    BY <2>1 DEF Answered
  <2> QED BY <2>1, <2>2 DEF Promise!vars
<1>14. CASE PowerLoss
  <2>1. PICK f \in {dest, disk} : \E left \in Remains(f) :
            /\ dest' = [chunks |-> left, synced |-> TRUE]
            /\ disk' = dest'
    BY <1>14 DEF PowerLoss
  <2>2. Remains(f) = {f.chunks}
    BY <1>1, <2>1, SyncedRemains DEF LocalInv
  <2>3. dest'.chunks \in {dest.chunks, disk.chunks} /\ disk'.chunks = dest'.chunks
    BY <2>1, <2>2
  <2>4. ~lost /\ lost' = TRUE /\ UNCHANGED <<op, pc, data, applied, remote>>
    BY <1>14 DEF PowerLoss, callVars, guestVars
  <2>5. /\ [d \in Calls |-> Status(pc[d])]' = [d \in Calls |-> Status(pc[d])]
        /\ [d \in Calls |-> Answered(d)]' = [d \in Calls |-> Answered(d)]
    BY <2>4 DEF Answered
  <2>6. Promise!PowerLoss
    BY <2>3, <2>4, <2>5 DEF Promise!PowerLoss
  <2> QED BY <2>6 DEF Promise!Next
<1> QED BY <1>3, <1>6, <1>7, <1>8, <1>9, <1>10, <1>11, <1>12, <1>13, <1>14 DEF Next

LEMMA PromiseInit == Init => Promise!Init
<1> SUFFICES ASSUME Init PROVE Promise!Init
  OBVIOUS
<1>1. [d \in Calls |-> Status(pc[d])] = [d \in Calls |-> "open"]
  BY DEF Init, Status, Raised
<1>2. [d \in Calls |-> Answered(d)] = [d \in Calls |-> <<>>]
  BY DEF Init, Answered
<1> QED BY <1>1, <1>2 DEF Init, Old, Promise!Init

\* Unless the service rejects the capability of a download that has begun to arrive,
\* the filesystem calls are those of FileCalls: whatever is rejected, refreshed, lost or
\* late, each does its change at most once and before it returns, a read and a write are
\* whole, and a download replaces its destination at once and for good.
THEOREM TransferImplementsCalls ==
    "download" \notin LateRejects /\ Spec => ImplementsFileCalls
<1> SUFFICES ASSUME "download" \notin LateRejects PROVE Spec => ImplementsFileCalls
  OBVIOUS
<1>1. Init => WholeInv
  BY DEF Init, WholeInv, FreshInv, Old
<1>2. IInv /\ WholeInv /\ [Next]_vars => WholeInv'
  BY WholeStep
<1>3. IInv /\ WholeInv /\ [Next]_vars => [Promise!Next]_(Promise!vars)
  BY PromiseStep
<1> QED BY <1>1, <1>2, <1>3, PromiseInit, Invariance, PTL
        DEF Spec, ImplementsFileCalls, Promise!Spec
=============================================================================
