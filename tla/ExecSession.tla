---------------------------- MODULE ExecSession ----------------------------
(***************************************************************************)
(* ExecSession of src/tyto/_session.py: one bidirectional Exec RPC shared *)
(* by                                                                      *)
(*   - caller threads (write, resize, close_stdin, cancel, close, next),  *)
(*   - the reader thread that moves response frames to a bounded queue,   *)
(*   - gRPC's thread that runs _request_iter and takes request frames,    *)
(*   - the remote side and the clock.                                     *)
(* A caller's call is split where it releases a lock, waits or reads a    *)
(* field without the lock.  A call that raises without changing anything  *)
(* is a call that is not enabled.                                         *)
(***************************************************************************)
EXTENDS Naturals, Sequences, FiniteSets

CONSTANTS Threads,            \* caller threads
          RequestQueueSize,   \* capacity of _requests (16 in the code)
          ResponseQueueSize,  \* capacity of _responses (16 in the code)
          Tty,                \* the session was opened with tty=True
          MaxInputs,          \* bound: write() and resize() calls accepted
          MaxFrames           \* bound: frames the remote side sends

\* The start frame is queued before anything can drain it.
ASSUME ExecAssumption ==
    /\ RequestQueueSize \in Nat \ {0}
    /\ ResponseQueueSize \in Nat \ {0}
    /\ Tty \in BOOLEAN
    /\ MaxInputs \in Nat
    /\ MaxFrames \in Nat

VARIABLES
    requests,       \* _requests, guarded by _request_cv
    iter,           \* _request_iter: running, leaving, left, or dropped by gRPC
    wire,           \* request frames gRPC has taken for the RPC, in order
    inputs,         \* number of accepted write() and resize() calls
    closed,         \* _closed
    cancelled,      \* _cancelled
    stdinClosed,    \* _stdin_closed
    responses,      \* _responses
    reader,         \* the reader thread's position
    held,           \* the item the reader is about to put in _responses
    got,            \* number of frames the reader has taken from the stream
    stream,         \* status of the RPC
    sent,           \* frames the remote side has sent
    expired,        \* the session's deadline has passed
    pc,             \* where each caller thread is
    delivered,      \* what next() has answered, in order
    cancelReturned  \* the one effective cancel() has returned normally

requestVars  == <<requests, iter, wire, inputs>>
flagVars     == <<closed, cancelled, stdinClosed>>
responseVars == <<responses, reader, held, got>>
remoteVars   == <<stream, sent, expired>>
callVars     == <<pc, delivered, cancelReturned>>
vars == <<requestVars, flagVars, responseVars, remoteVars, callVars>>

-----------------------------------------------------------------------------
InputFrames == {"stdin", "resize"}
Sentinels   == {"halfClose", "end"}           \* _HALF_CLOSE, _END_REQUESTS
RequestItems == {"start", "cancel"} \cup InputFrames \cup Sentinels
FrameKinds  == {"out", "exit", "bad"}         \* bad: WhichOneof is None

Frame(n) == [kind |-> "frame", n |-> n]
End      == [kind |-> "end",   n |-> 0]
Failure  == [kind |-> "error", n |-> 0]
NoItem   == [kind |-> "none",  n |-> 0]
Items    == [kind : {"frame", "end", "error", "none"}, n : 0..MaxFrames]

ReaderSteps == {"unstarted", "starting", "reading", "checking", "putting",
                "marking", "markPut", "done"}
CancelSteps == {"branch", "putCancel", "waitCancel", "putEnd", "cleanup", "join"}
CallSteps   == {"idle", "stdin", "resize", "halfClose",
                "start", "remaining", "wait"} \cup CancelSteps

\* _request_ended, written by the finally of _request_iter.
RequestEnded == iter = "ended"

\* _ensure_reader keeps _lock while Thread.start() runs; every other user of
\* _lock releases it within one step.
LockFree == reader # "starting"

Shut == closed \/ cancelled

RequestRoom  == Len(requests) < RequestQueueSize
ResponseRoom == Len(responses) < ResponseQueueSize

Goto(t, step) == pc' = [pc EXCEPT ![t] = step]

ExitSent == sent # <<>> /\ sent[Len(sent)] = "exit"
ExitRead == got > 0 /\ sent[got] = "exit"

-----------------------------------------------------------------------------
Init ==
    /\ requests = <<"start">> /\ iter = "run" /\ wire = <<>> /\ inputs = 0
    /\ closed = FALSE /\ cancelled = FALSE /\ stdinClosed = FALSE
    /\ responses = <<>> /\ reader = "unstarted" /\ held = NoItem /\ got = 0
    /\ stream = "live" /\ sent = <<>> /\ expired = FALSE
    /\ pc = [t \in Threads |-> "idle"] /\ delivered = <<>>
    /\ cancelReturned = FALSE

-----------------------------------------------------------------------------
(* write, resize and close_stdin: the flags are checked under _lock, the   *)
(* item is put after _lock is released.                                    *)

SubmitInput(t, frame) ==
    /\ pc[t] = "idle" /\ LockFree
    /\ ~Shut /\ ~stdinClosed
    /\ inputs < MaxInputs
    /\ inputs' = inputs + 1
    /\ Goto(t, frame)
    /\ UNCHANGED <<requests, iter, wire, flagVars, responseVars, remoteVars,
                   delivered, cancelReturned>>

Write(t)  == SubmitInput(t, "stdin")
Resize(t) == Tty /\ SubmitInput(t, "resize")

CloseStdin(t) ==
    /\ pc[t] = "idle" /\ LockFree
    /\ ~stdinClosed
    /\ stdinClosed' = TRUE
    /\ Goto(t, "halfClose")
    /\ UNCHANGED <<requestVars, closed, cancelled, responseVars, remoteVars,
                   delivered, cancelReturned>>

\* (Mutant: _put without its deadline.)
PutWithoutDeadline(t) ==
    /\ pc[t] \in InputFrames \cup {"halfClose"}
    /\ RequestRoom /\ requests' = Append(requests, pc[t])
    /\ Goto(t, "idle")
    /\ UNCHANGED <<iter, wire, inputs, flagVars, responseVars, remoteVars,
                   delivered, cancelReturned>>

\* _put: append when there is room, TimeoutError when full at the deadline.
Put(t) ==
    /\ pc[t] \in InputFrames \cup {"halfClose"}
    /\ \/ RequestRoom /\ requests' = Append(requests, pc[t])
       \/ ~RequestRoom /\ expired /\ UNCHANGED requests
    /\ Goto(t, "idle")
    /\ UNCHANGED <<iter, wire, inputs, flagVars, responseVars, remoteVars,
                   delivered, cancelReturned>>

\* (Mutant: the sentinel is appended without waiting for room.)
PutUnbounded(item) == requests' = Append(requests, item)

\* _put_cleanup: the item is dropped when the queue stays full for the whole
\* cleanup timeout.
PutOrDrop(item) ==
    \/ RequestRoom /\ requests' = Append(requests, item)
    \/ ~RequestRoom /\ UNCHANGED requests

-----------------------------------------------------------------------------
(* cancel.                                                                 *)

\* (Mutant: _cancelled is not part of the guard.)
EnterCancelTwice(t) ==
    /\ LockFree
    /\ \/ /\ closed /\ Goto(t, "idle")
          /\ UNCHANGED <<cancelled, stdinClosed>>
       \/ /\ ~closed /\ Goto(t, "branch")
          /\ cancelled' = TRUE /\ stdinClosed' = TRUE

\* The locked part: the first caller latches the flags, the others return.
EnterCancel(t) ==
    /\ LockFree
    /\ \/ /\ Shut /\ Goto(t, "idle")
          /\ UNCHANGED <<cancelled, stdinClosed>>
       \/ /\ ~Shut /\ Goto(t, "branch")
          /\ cancelled' = TRUE /\ stdinClosed' = TRUE

\* cancel() or close(), which adds a check of _closed that cancel() repeats.
Cancel(t) ==
    /\ pc[t] = "idle" /\ ~Shut
    /\ EnterCancel(t)
    /\ UNCHANGED <<requestVars, closed, responseVars, remoteVars, delivered,
                   cancelReturned>>

\* _cancel_rpc: a no-op once the RPC has its status.
CancelRpc == stream' = IF stream = "live" THEN "failed" ELSE stream

\* _request_ended is read without _lock.
CancelBranch(t) ==
    /\ pc[t] = "branch"
    /\ \/ RequestEnded /\ CancelRpc /\ Goto(t, "cleanup")
       \/ ~RequestEnded /\ UNCHANGED stream /\ Goto(t, "putCancel")
    /\ UNCHANGED <<requestVars, flagVars, responseVars, sent, expired,
                   delivered, cancelReturned>>

\* The ways to keep a set of positions of requests, in order (there is one).
Keeping(places) ==
    {[i \in DOMAIN g |-> requests[g[i]]] :
        g \in {f \in [1..Cardinality(places) -> places] :
                  \A i, j \in DOMAIN f : i < j => f[i] < f[j]}}

\* _put_cleanup of the cancel frame: pending half-closes are removed once, then
\* it waits for room and gives up silently after the cleanup timeout.
PutCancel(t) ==
    /\ pc[t] = "putCancel"
    /\ \E kept \in Keeping({i \in DOMAIN requests : requests[i] # "halfClose"}) :
          IF Len(kept) < RequestQueueSize
          THEN /\ requests' = Append(kept, "cancel") /\ Goto(t, "putEnd")
          ELSE /\ requests' = kept /\ Goto(t, "waitCancel")
    /\ UNCHANGED <<iter, wire, inputs, flagVars, responseVars, remoteVars,
                   delivered, cancelReturned>>

WaitCancel(t) ==
    /\ pc[t] = "waitCancel"
    /\ PutOrDrop("cancel")
    /\ Goto(t, "putEnd")
    /\ UNCHANGED <<iter, wire, inputs, flagVars, responseVars, remoteVars,
                   delivered, cancelReturned>>

PutEnd(t) ==
    /\ pc[t] = "putEnd"
    /\ PutOrDrop("end")
    /\ Goto(t, "cleanup")
    /\ UNCHANGED <<iter, wire, inputs, flagVars, responseVars, remoteVars,
                   delivered, cancelReturned>>

\* _wait_for_cleanup before the join: no reader, cancel the RPC; a reader whose
\* start() has not run yet makes join() raise RuntimeError.
Cleanup(t) ==
    /\ pc[t] = "cleanup"
    /\ \/ /\ reader = "unstarted"
          /\ CancelRpc /\ cancelReturned' = TRUE
          /\ Goto(t, "idle")
       \/ /\ reader = "starting"
          /\ Goto(t, "idle")
          /\ UNCHANGED <<stream, cancelReturned>>
       \/ /\ reader \notin {"unstarted", "starting"}
          /\ Goto(t, "join")
          /\ UNCHANGED <<stream, cancelReturned>>
    /\ UNCHANGED <<requestVars, flagVars, responseVars, sent, expired,
                   delivered>>

\* The join ends with the reader, or times out and cancels the RPC.
Join(t) ==
    /\ pc[t] = "join"
    /\ IF reader = "done" THEN UNCHANGED stream ELSE CancelRpc
    /\ cancelReturned' = TRUE
    /\ Goto(t, "idle")
    /\ UNCHANGED <<requestVars, flagVars, responseVars, sent, expired,
                   delivered>>

-----------------------------------------------------------------------------
(* next.                                                                   *)

\* (Mutant: _ensure_reader tests and sets _reader_started without _lock.)
CallNextUnlocked(t) ==
    /\ pc[t] = "idle"
    /\ \/ reader \in {"unstarted", "starting"} /\ reader' = "starting" /\ Goto(t, "start")
       \/ reader \notin {"unstarted", "starting"} /\ UNCHANGED reader
          /\ Goto(t, "remaining")
    /\ UNCHANGED <<requestVars, flagVars, responses, held, got, remoteVars,
                   delivered, cancelReturned>>

CallNext(t) ==
    /\ pc[t] = "idle" /\ LockFree
    /\ \/ reader = "unstarted" /\ reader' = "starting" /\ Goto(t, "start")
       \/ reader # "unstarted" /\ UNCHANGED reader /\ Goto(t, "remaining")
    /\ UNCHANGED <<requestVars, flagVars, responses, held, got, remoteVars,
                   delivered, cancelReturned>>

StartReader(t) ==
    /\ pc[t] = "start"
    /\ reader' = "reading"
    /\ Goto(t, "remaining")
    /\ UNCHANGED <<requestVars, flagVars, responses, held, got, remoteVars,
                   delivered, cancelReturned>>

\* _deadline.remaining() raises when the deadline has passed.
WaitForItem(t) ==
    /\ pc[t] = "remaining" /\ ~expired
    /\ Goto(t, "wait")
    /\ UNCHANGED <<requestVars, flagVars, responseVars, remoteVars, delivered,
                   cancelReturned>>

GetItem(t) ==
    /\ pc[t] = "wait" /\ responses # <<>>
    /\ delivered' = Append(delivered, Head(responses))
    /\ responses' = Tail(responses)
    /\ Goto(t, "idle")
    /\ UNCHANGED <<requestVars, flagVars, reader, held, got, remoteVars,
                   cancelReturned>>

\* TimeoutError: the session is cancelled first.
NextTimesOut(t) ==
    /\ expired
    /\ pc[t] = "remaining" \/ (pc[t] = "wait" /\ responses = <<>>)
    /\ EnterCancel(t)
    /\ UNCHANGED <<requestVars, closed, responseVars, remoteVars, delivered,
                   cancelReturned>>

-----------------------------------------------------------------------------
(* The reader thread.                                                      *)

\* A frame comes out of the stream; got counts those with an event.
ReadFrame ==
    /\ reader = "reading"
    /\ got < Len(sent) /\ sent[got + 1] # "bad"
    /\ got' = got + 1
    /\ held' = Frame(got + 1)
    /\ reader' = "checking"
    /\ UNCHANGED <<requestVars, flagVars, responses, remoteVars, callVars>>

\* The stream is exhausted without an exit frame.
ReadEnd ==
    /\ reader = "reading"
    /\ stream = "ok" /\ got = Len(sent)
    /\ held' = End
    /\ reader' = "checking"
    /\ UNCHANGED <<requestVars, flagVars, responses, got, remoteVars, callVars>>

\* (Mutant: an error of the stream ends the iteration normally.)
ReadErrorAsEnd ==
    /\ reader = "reading"
    /\ stream = "failed"
    /\ held' = End
    /\ reader' = IF Shut THEN "done" ELSE "checking"
    /\ UNCHANGED <<requestVars, flagVars, responses, got, remoteVars, callVars>>

\* The stream raises (frames still in flight may be dropped), or a frame has
\* no event.  After close or cancel the reader's last put never succeeds.
ReadError ==
    /\ reader = "reading"
    /\ \/ stream = "failed"
       \/ got < Len(sent) /\ sent[got + 1] = "bad"
    /\ IF Shut THEN reader' = "done" /\ UNCHANGED held
               ELSE reader' = "checking" /\ held' = Failure
    /\ UNCHANGED <<requestVars, flagVars, responses, got, remoteVars, callVars>>

\* What the reader does once the item it holds was put or refused.
AfterPut(accepted) ==
    /\ held' = NoItem
    /\ reader' = IF held = End /\ ExitRead THEN "marking"
                 ELSE IF held.kind = "frame" /\ accepted THEN "reading"
                 ELSE "done"

\* (Mutant: _put_response does not look at the flags again.)
CheckNothing ==
    /\ reader = "checking"
    /\ reader' = "putting"
    /\ UNCHANGED <<requestVars, flagVars, responses, held, got, remoteVars,
                   callVars>>

\* _put_response checks the flags before every attempt to put.
CheckFlags ==
    /\ reader = "checking" /\ LockFree
    /\ IF Shut THEN AfterPut(FALSE)
               ELSE reader' = "putting" /\ UNCHANGED held
    /\ UNCHANGED <<requestVars, flagVars, responses, got, remoteVars, callVars>>

\* (Mutant: queue.Full drops the item.)
PutResponseDropping ==
    /\ reader = "putting"
    /\ responses' = IF ResponseRoom THEN Append(responses, held) ELSE responses
    /\ IF held.kind = "frame" /\ ExitRead THEN held' = End /\ reader' = "checking"
                                         ELSE AfterPut(TRUE)
    /\ UNCHANGED <<requestVars, flagVars, got, remoteVars, callVars>>

\* (Mutant: queue.Full makes _put_response return False.)
PutResponseOnce ==
    /\ reader = "putting"
    /\ responses' = IF ResponseRoom THEN Append(responses, held) ELSE responses
    /\ IF ResponseRoom /\ held.kind = "frame" /\ ExitRead
       THEN held' = End /\ reader' = "checking"
       ELSE AfterPut(ResponseRoom)
    /\ UNCHANGED <<requestVars, flagVars, got, remoteVars, callVars>>

\* (Mutant: the session is marked terminal before the end marker is put.)
PutResponseMarksFirst ==
    /\ reader = "putting" /\ ResponseRoom
    /\ responses' = Append(responses, held)
    /\ IF held.kind = "frame" /\ ExitRead THEN held' = End /\ reader' = "marking"
                                         ELSE AfterPut(TRUE)
    /\ UNCHANGED <<requestVars, flagVars, got, remoteVars, callVars>>

\* After the exit frame the next item is _END_REQUESTS.
PutResponse ==
    /\ reader = "putting"
    /\ \/ /\ ResponseRoom /\ held.kind = "frame" /\ ExitRead
          /\ responses' = Append(responses, held)
          /\ held' = End /\ reader' = "checking"
       \/ /\ ResponseRoom /\ ~(held.kind = "frame" /\ ExitRead)
          /\ responses' = Append(responses, held)
          /\ AfterPut(TRUE)
       \/ /\ ~ResponseRoom /\ reader' = "checking"
          /\ UNCHANGED <<responses, held>>
    /\ UNCHANGED <<requestVars, flagVars, got, remoteVars, callVars>>

\* _mark_terminal: the flags under _lock, then the end of the requests.
MarkTerminal ==
    /\ reader = "marking" /\ LockFree
    /\ closed' = TRUE /\ stdinClosed' = TRUE
    /\ reader' = "markPut"
    /\ UNCHANGED <<requestVars, cancelled, responses, held, got, remoteVars,
                   callVars>>

MarkPut ==
    /\ reader = "markPut"
    /\ PutOrDrop("end")
    /\ reader' = "done"
    /\ UNCHANGED <<iter, wire, inputs, flagVars, responses, held, got,
                   remoteVars, callVars>>

-----------------------------------------------------------------------------
(* gRPC's request thread.                                                  *)

\* A sentinel makes the generator return.  Once the RPC is over gRPC takes one
\* more item, drops it and drops the generator, whose finally then may run.
TakeRequest ==
    /\ iter = "run" /\ requests # <<>>
    /\ requests' = Tail(requests)
    /\ \/ /\ Head(requests) \in Sentinels
          /\ iter' = "ending" /\ UNCHANGED wire
       \/ /\ Head(requests) \notin Sentinels /\ stream = "live"
          /\ wire' = Append(wire, Head(requests)) /\ UNCHANGED iter
       \/ /\ Head(requests) \notin Sentinels /\ stream # "live"
          /\ iter' \in {"ending", "dropped"} /\ UNCHANGED wire
    /\ UNCHANGED <<inputs, flagVars, responseVars, remoteVars, callVars>>

\* The finally of _request_iter.
EndRequests ==
    /\ iter = "ending" /\ LockFree
    /\ iter' = "ended"
    /\ UNCHANGED <<requests, wire, inputs, flagVars, responseVars, remoteVars,
                   callVars>>

-----------------------------------------------------------------------------
(* The remote side and the clock.                                          *)

SendFrame ==
    /\ stream = "live" /\ ~ExitSent
    /\ Len(sent) < MaxFrames
    /\ \E k \in FrameKinds : sent' = Append(sent, k)
    /\ UNCHANGED <<requestVars, flagVars, responseVars, stream, expired,
                   callVars>>

StreamEnds ==
    /\ stream = "live"
    /\ stream' \in {"ok", "failed"}
    /\ UNCHANGED <<requestVars, flagVars, responseVars, sent, expired,
                   callVars>>

\* The RPC's own timeout is later than the session's deadline.
StreamExpires ==
    /\ stream = "live" /\ expired
    /\ stream' = "failed"
    /\ UNCHANGED <<requestVars, flagVars, responseVars, sent, expired,
                   callVars>>

Expire ==
    /\ ~expired
    /\ expired' = TRUE
    /\ UNCHANGED <<requestVars, flagVars, responseVars, stream, sent,
                   callVars>>

-----------------------------------------------------------------------------
Calls(t) == Write(t) \/ Resize(t) \/ CloseStdin(t) \/ Cancel(t) \/ CallNext(t)

CancelNext(t) == \/ CancelBranch(t) \/ PutCancel(t) \/ WaitCancel(t)
                 \/ PutEnd(t) \/ Cleanup(t) \/ Join(t)

Continue(t) == \/ Put(t) \/ CancelNext(t) \/ StartReader(t) \/ WaitForItem(t)
               \/ GetItem(t) \/ NextTimesOut(t)

Reader == \/ ReadFrame \/ ReadEnd \/ ReadError \/ CheckFlags \/ PutResponse
          \/ MarkTerminal \/ MarkPut

Remote == SendFrame \/ StreamEnds \/ StreamExpires

Next == \/ \E t \in Threads : Calls(t) \/ Continue(t)
        \/ Reader \/ TakeRequest \/ EndRequests \/ Remote \/ Expire

Spec == Init /\ [][Next]_vars

\* A call under way, the reader and the generator's finally keep running; the
\* deadline passes and the RPC ends with it.  Nobody is obliged to call, gRPC is
\* not obliged to take requests (flow control), the remote side may stay silent.
Fairness == /\ \A t \in Threads : WF_vars(Continue(t))
            /\ WF_vars(Reader)
            /\ WF_vars(EndRequests)
            /\ WF_vars(Expire)
            /\ WF_vars(StreamExpires)

FairSpec == Spec /\ Fairness

-----------------------------------------------------------------------------
(* Properties.                                                             *)

RequestsOK ==
    /\ requests \in Seq(RequestItems) /\ Len(requests) <= RequestQueueSize
    /\ iter \in {"run", "ending", "ended", "dropped"}
    /\ wire \in Seq(RequestItems)
    /\ inputs \in 0..MaxInputs
FlagsOK ==
    /\ closed \in BOOLEAN /\ cancelled \in BOOLEAN /\ stdinClosed \in BOOLEAN
    /\ expired \in BOOLEAN /\ cancelReturned \in BOOLEAN
ResponsesOK ==
    /\ responses \in Seq(Items) /\ Len(responses) <= ResponseQueueSize
    /\ reader \in ReaderSteps /\ held \in Items
    /\ got \in 0..Len(sent)
RemoteOK ==
    /\ stream \in {"live", "ok", "failed"}
    /\ sent \in Seq(FrameKinds) /\ Len(sent) <= MaxFrames
CallsOK ==
    /\ pc \in [Threads -> CallSteps]
    /\ delivered \in Seq(Items)

\* Types, with the bounds of the two queues (_put, _put_cleanup, queue.Queue).
TypeOK == RequestsOK /\ FlagsOK /\ ResponsesOK /\ RemoteOK /\ CallsOK

\* The iteration answers the frames of the stream each once and in order, and
\* nothing after StopIteration or an error, whatever cancel, close, the deadline
\* and a second iterating thread do meanwhile (_put_response retries on Full
\* and gives up only when the session is shut).
DeliveredInOrder ==
    \A i \in DOMAIN delivered :
        IF delivered[i].kind = "frame" THEN delivered[i].n = i
                                       ELSE i = Len(delivered)

\* StopIteration never hides output: when next() raises it, every frame the
\* remote side sent was delivered before, and the last one was the exit frame
\* or the RPC ended with status OK.
StopAfterAll ==
    \A i \in DOMAIN delivered :
        delivered[i].kind = "end" =>
            i - 1 = Len(sent) /\ (stream = "ok" \/ ExitSent)

\* All the iteration has answered, and what is queued for it.
Told == delivered \o responses

\* _closed is set by the reader only after the exit frame and the end marker
\* were queued, so a session that closed itself still answers both.
ClosedMeansComplete ==
    closed => cancelled \/ (Told # <<>> /\ Told[Len(Told)] = End)

Asked == wire \o requests

\* However many threads cancel, close or time out at once, and whenever stdin
\* is half-closed, the remote side is asked to cancel at most once.
OneCancelFrame ==
    \A i, j \in DOMAIN Asked :
        Asked[i] = "cancel" /\ Asked[j] = "cancel" => i = j

\* The inductive invariant behind it: one thread at most is on its way to ask,
\* and then, or while the session is open, nobody has asked.
NoCancelAsked == \A i \in DOMAIN Asked : Asked[i] # "cancel"
Cancelling(t) == pc[t] \in {"branch", "putCancel", "waitCancel"}
OneCanceller ==
    /\ ~Shut => NoCancelAsked /\ \A t \in Threads : ~Cancelling(t)
    /\ \A t \in Threads : Cancelling(t) =>
          NoCancelAsked /\ \A u \in Threads : Cancelling(u) => u = t

\* README "Closing an unfinished session cancels the remote Exec": once the
\* effective cancel() or close() has returned, the RPC is over, or the remote
\* side has the cancel frame, or the frame is still going to be taken.
RemoteOver == stream # "live" \/ ExitSent
CancelComes ==
    \/ \E i \in DOMAIN wire : wire[i] = "cancel"
    \/ iter = "run" /\ \E i \in DOMAIN requests :
           /\ requests[i] = "cancel"
           /\ \A j \in 1..(i - 1) : requests[j] \notin Sentinels
ClosingCancelsRemote == cancelReturned => RemoteOver \/ CancelComes

\* It does not hold of the code, for two reasons only: _put_cleanup may give up at a
\* full queue, and a half-close may be on its way to the generator, or taken by it,
\* while the session is cancelled.
CancelFits == [][\A t \in Threads : WaitCancel(t) => requests' # requests]_vars
HalfClosing == \/ iter = "ending" \/ \E u \in Threads : pc[u] = "halfClose"
               \/ \E i \in DOMAIN requests : requests[i] = "halfClose"
StdinSettled == ~RemoteOver /\ HalfClosing => \A t \in Threads : ~Cancelling(t)

\* Every call ends: no combination of full queues, a silent remote side and
\* calls that cancel each other leaves a caller blocked after the deadline and
\* the cleanup timeouts: every thread is outside of a call again and again.
EveryCallReturns == \A t \in Threads : []<>(pc[t] = "idle")

\* A cancelled or closed session gets its reader thread back, also when nobody
\* takes responses any more and the queue is full.  The flags are never reset,
\* so this is: once shut, the reader ends.
ReaderStops == []<>(Shut => reader \in {"unstarted", "done"})

\* The reader ends only after it has queued a final answer, unless the session
\* was cancelled: an iterating thread is not left to its deadline.
FinalAnswer ==
    reader = "done" /\ ~cancelled =>
        Told # <<>> /\ Told[Len(Told)].kind # "frame"

\* The inductive invariant behind ClosedMeansComplete and FinalAnswer.
VerdictQueued ==
    /\ closed => reader \in {"markPut", "done"}
    /\ ~cancelled /\ (closed \/ reader \in {"marking", "markPut"}) =>
          Told # <<>> /\ Told[Len(Told)] = End
    /\ FinalAnswer

\* The inductive invariant behind DeliveredInOrder and StopAfterAll: the answers
\* given, the answers queued and the item in the reader's hands are together the
\* first frames of the stream, in order, with at most one verdict, the last.
Answered  == Len(delivered) + Len(responses)
NoVerdict == /\ \A i \in DOMAIN delivered : delivered[i].kind = "frame"
             /\ \A i \in DOMAIN responses : responses[i].kind = "frame"
Complete(n) == n = Len(sent) /\ (stream = "ok" \/ ExitSent)

FramesInOrder ==
    /\ \A i \in DOMAIN delivered :
          \/ delivered[i] = Frame(i)
          \/ delivered[i] \in {End, Failure} /\ i = Len(delivered) /\ responses = <<>>
    /\ \A i \in DOMAIN responses :
          \/ responses[i] = Frame(Len(delivered) + i)
          \/ responses[i] \in {End, Failure} /\ i = Len(responses)

ReaderPosition ==
    /\ reader \in {"unstarted", "starting", "reading"} =>
          NoVerdict /\ got = Answered
    /\ reader \in {"checking", "putting"} =>
          /\ NoVerdict
          /\ \/ held = Frame(got) /\ got = Answered + 1
             \/ held \in {End, Failure} /\ got = Answered

EndIsComplete ==
    /\ held = End => Complete(got)
    /\ \A i \in DOMAIN delivered : delivered[i] = End => Complete(i - 1)
    /\ \A i \in DOMAIN responses :
          responses[i] = End => Complete(Len(delivered) + i - 1)

\* Only frames the reader has read are queued.
QueuedWasRead ==
    \A i \in DOMAIN responses :
        responses[i].kind = "frame" => Len(delivered) + i <= got

ExitLast == \A i \in DOMAIN sent : sent[i] = "exit" => i = Len(sent)

\* The thread inside Thread.start() is alone there: it holds _lock.
OneStarter ==
    \A t \in Threads : pc[t] = "start" =>
        reader = "starting" /\ \A u \in Threads : pc[u] = "start" => u = t

IInv == FramesInOrder /\ ReaderPosition /\ EndIsComplete /\ ExitLast
        /\ QueuedWasRead /\ OneStarter

\* Refinement: what the iterating thread sees is what ExecEvents allows.
Events == INSTANCE ExecEvents
              WITH LastKinds <- {"exit"}, produced <- sent,
                   finished <- (stream = "ok"), consumed <- delivered
ImplementsEvents == Events!Spec
=============================================================================
