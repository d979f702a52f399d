--------------------------- MODULE SessionStream ---------------------------
(***************************************************************************)
(* SessionStream of src/tyto/_sessions.py: the attachment to a managed     *)
(* session, one bidirectional AttachSession RPC shared by                  *)
(*   - the constructor, which waits for the accepted frame,                *)
(*   - caller threads (write, resize, detach, close, next),                *)
(*   - the reader thread and gRPC's request thread,                        *)
(*   - the remote side, which also ends the attachment when another client *)
(*     takes the session over, and the clock.                              *)
(* Steps are split as in ExecSession: where a call releases a lock, waits, *)
(* or reads a field without the lock.                                      *)
(***************************************************************************)
EXTENDS Naturals, Sequences

CONSTANTS Threads,            \* caller threads
          RequestQueueSize,   \* _request_queue_size (16 in the code)
          ResponseQueueSize,  \* capacity of _responses (16 in the code)
          MaxInputs,          \* bound: write() and resize() calls accepted
          MaxFrames           \* bound: frames after the accepted frame

ASSUME AttachAssumption ==
    /\ RequestQueueSize \in Nat \ {0}
    /\ ResponseQueueSize \in Nat \ {0}
    /\ MaxInputs \in Nat
    /\ MaxFrames \in Nat

VARIABLES
    phase,          \* of the constructor: opening, open, refused
    requests,       \* _requests, guarded by _request_cv
    iter,           \* _request_iter: running, leaving, left, or dropped by gRPC
    wire,           \* request frames gRPC has taken for the RPC, in order
    inputs,         \* number of accepted write() and resize() calls
    closed,         \* _closed
    detached,       \* a detach(), close() or timed out next() set _closed
    responses,      \* _responses
    reader,         \* the reader thread's position
    held,           \* the item the reader is about to put in _responses
    got,            \* number of frames the reader has taken from the stream
    stream,         \* status of the RPC
    sent,           \* frames the remote side has sent after the accepted one
    expired,        \* the attachment's deadline has passed
    pc,             \* where each caller thread is
    delivered       \* what next() has answered, in order

requestVars  == <<requests, iter, wire, inputs>>
flagVars     == <<phase, closed, detached>>
responseVars == <<responses, reader, held, got>>
remoteVars   == <<stream, sent, expired>>
callVars     == <<pc, delivered>>
vars == <<requestVars, flagVars, responseVars, remoteVars, callVars>>

-----------------------------------------------------------------------------
\* input: stdin and resize; end: _END_REQUESTS.
RequestItems == {"start", "input", "detach", "end"}

\* out: output and output_dropped; bad: a response without a known frame; exit:
\* Exit, and SessionEnded by a takeover; detached: SessionEnded, DETACHED.
LastKinds  == {"exit", "detached"}
FrameKinds == {"out", "bad"} \cup LastKinds

Frame(n) == [kind |-> "frame", n |-> n]
End      == [kind |-> "end",   n |-> 0]
Failure  == [kind |-> "error", n |-> 0]
NoItem   == [kind |-> "none",  n |-> 0]
Items    == [kind : {"frame", "end", "error", "none"}, n : 0..MaxFrames]

ReaderSteps == {"unstarted", "starting", "reading", "checking", "putting",
                "marking", "markPut", "done"}
DetachSteps == {"branch", "putDetach", "putEnd", "cleanup", "join"}
CallSteps   == {"idle", "input", "start", "remaining", "wait"}
               \cup DetachSteps

RequestEnded == iter = "ended"                \* _request_ended

\* Thread.start() runs under _lock; nobody else keeps it from step to step.
LockFree == reader # "starting"

RequestRoom  == Len(requests) < RequestQueueSize
ResponseRoom == Len(responses) < ResponseQueueSize

Goto(t, step) == pc' = [pc EXCEPT ![t] = step]

LastSent == sent # <<>> /\ sent[Len(sent)] \in LastKinds
LastRead == got > 0 /\ sent[got] \in LastKinds

-----------------------------------------------------------------------------
Init ==
    /\ phase = "opening" /\ closed = FALSE /\ detached = FALSE
    /\ requests = <<"start">> /\ iter = "run" /\ wire = <<>> /\ inputs = 0
    /\ responses = <<>> /\ reader = "unstarted" /\ held = NoItem /\ got = 0
    /\ stream = "live" /\ sent = <<>> /\ expired = FALSE
    /\ pc = [t \in Threads |-> "idle"] /\ delivered = <<>>

\* _cancel_rpc: a no-op once the RPC has its status.
CancelRpc == stream' = IF stream = "live" THEN "failed" ELSE stream

\* The first frame is the accepted one: the constructor returns.
Admit ==
    /\ phase = "opening" /\ stream = "live"
    /\ phase' = "open"
    /\ UNCHANGED <<requestVars, closed, detached, responseVars, remoteVars,
                   callVars>>

\* The RPC fails, or its first frame is another one: cancelled, and raised.
Refuse ==
    /\ phase = "opening"
    /\ phase' = "refused" /\ CancelRpc
    /\ UNCHANGED <<requestVars, closed, detached, responseVars, sent, expired,
                   callVars>>

\* There is no stream to call after that.
Refused == phase = "refused" /\ UNCHANGED vars

-----------------------------------------------------------------------------
(* write and resize: _closed is checked under _lock, the frame put after.  *)

Write(t) ==
    /\ phase = "open" /\ pc[t] = "idle" /\ LockFree
    /\ ~closed
    /\ inputs < MaxInputs
    /\ inputs' = inputs + 1
    /\ Goto(t, "input")
    /\ UNCHANGED <<requests, iter, wire, flagVars, responseVars, remoteVars,
                   delivered>>

\* (Mutant: _put without its deadline.)
PutWithoutDeadline(t) ==
    /\ pc[t] = "input"
    /\ RequestRoom /\ requests' = Append(requests, "input")
    /\ Goto(t, "idle")
    /\ UNCHANGED <<iter, wire, inputs, flagVars, responseVars, remoteVars,
                   delivered>>

\* _put: append when there is room, TimeoutError when full at the deadline.
Put(t) ==
    /\ pc[t] = "input"
    /\ \/ RequestRoom /\ requests' = Append(requests, "input")
       \/ ~RequestRoom /\ expired /\ UNCHANGED requests
    /\ Goto(t, "idle")
    /\ UNCHANGED <<iter, wire, inputs, flagVars, responseVars, remoteVars,
                   delivered>>

\* (Mutant: the item is appended without waiting for room.)
PutUnbounded(item) == requests' = Append(requests, item)

\* _put_cleanup: the item is dropped when the queue stays full for the whole
\* cleanup timeout.
PutOrDrop(item) ==
    \/ RequestRoom /\ requests' = Append(requests, item)
    \/ ~RequestRoom /\ UNCHANGED requests

-----------------------------------------------------------------------------
(* detach, close.                                                          *)

\* (Mutant: close() detaches without looking at _closed.)
EnterDetachAgain(t) ==
    /\ LockFree
    /\ closed' = TRUE /\ detached' = TRUE
    /\ Goto(t, "branch")

\* The locked part: the first caller sets _closed, the others return.
EnterDetach(t) ==
    /\ LockFree
    /\ \/ closed /\ Goto(t, "idle") /\ UNCHANGED <<closed, detached>>
       \/ ~closed /\ Goto(t, "branch") /\ closed' = TRUE /\ detached' = TRUE

\* detach(), or close(), whose own check detach() repeats.
Detach(t) ==
    /\ phase = "open" /\ pc[t] = "idle"
    /\ EnterDetach(t)
    /\ UNCHANGED <<requestVars, phase, responseVars, remoteVars, delivered>>

\* _request_ended is read without _lock.
DetachBranch(t) ==
    /\ pc[t] = "branch"
    /\ \/ RequestEnded /\ CancelRpc /\ Goto(t, "cleanup")
       \/ ~RequestEnded /\ UNCHANGED stream /\ Goto(t, "putDetach")
    /\ UNCHANGED <<requestVars, flagVars, responseVars, sent, expired,
                   delivered>>

PutCleanup(t, step, item, next) ==
    /\ pc[t] = step
    /\ PutOrDrop(item)
    /\ Goto(t, next)
    /\ UNCHANGED <<iter, wire, inputs, flagVars, responseVars, remoteVars,
                   delivered>>

PutDetach(t) == PutCleanup(t, "putDetach", "detach", "putEnd")
PutEnd(t)    == PutCleanup(t, "putEnd", "end", "cleanup")

\* _wait_for_cleanup before the join: no reader, cancel the RPC; a reader whose
\* start() has not run yet makes join() raise RuntimeError.
Cleanup(t) ==
    /\ pc[t] = "cleanup"
    /\ \/ reader = "unstarted" /\ CancelRpc /\ Goto(t, "idle")
       \/ reader = "starting" /\ UNCHANGED stream /\ Goto(t, "idle")
       \/ /\ reader \notin {"unstarted", "starting"}
          /\ UNCHANGED stream /\ Goto(t, "join")
    /\ UNCHANGED <<requestVars, flagVars, responseVars, sent, expired,
                   delivered>>

\* The join ends with the reader, or times out and cancels the RPC.
Join(t) ==
    /\ pc[t] = "join"
    /\ IF reader = "done" THEN UNCHANGED stream ELSE CancelRpc
    /\ Goto(t, "idle")
    /\ UNCHANGED <<requestVars, flagVars, responseVars, sent, expired,
                   delivered>>

-----------------------------------------------------------------------------
(* next.                                                                   *)

CallNext(t) ==
    /\ phase = "open" /\ pc[t] = "idle" /\ LockFree
    /\ \/ reader = "unstarted" /\ reader' = "starting" /\ Goto(t, "start")
       \/ reader # "unstarted" /\ UNCHANGED reader /\ Goto(t, "remaining")
    /\ UNCHANGED <<requestVars, flagVars, responses, held, got, remoteVars,
                   delivered>>

StartReader(t) ==
    /\ pc[t] = "start"
    /\ reader' = "reading"
    /\ Goto(t, "remaining")
    /\ UNCHANGED <<requestVars, flagVars, responses, held, got, remoteVars,
                   delivered>>

WaitForItem(t) ==
    /\ pc[t] = "remaining" /\ ~expired
    /\ Goto(t, "wait")
    /\ UNCHANGED <<requestVars, flagVars, responseVars, remoteVars, delivered>>

GetItem(t) ==
    /\ pc[t] = "wait" /\ responses # <<>>
    /\ delivered' = Append(delivered, Head(responses))
    /\ responses' = Tail(responses)
    /\ Goto(t, "idle")
    /\ UNCHANGED <<requestVars, flagVars, reader, held, got, remoteVars>>

\* TimeoutError: the stream is closed first.
NextTimesOut(t) ==
    /\ expired
    /\ pc[t] = "remaining" \/ (pc[t] = "wait" /\ responses = <<>>)
    /\ EnterDetach(t)
    /\ UNCHANGED <<requestVars, phase, responseVars, remoteVars, delivered>>

-----------------------------------------------------------------------------
(* The reader thread.                                                      *)

ReadFrame ==
    /\ reader = "reading"
    /\ got < Len(sent) /\ sent[got + 1] # "bad"
    /\ got' = got + 1
    /\ held' = Frame(got + 1)
    /\ reader' = "checking"
    /\ UNCHANGED <<requestVars, flagVars, responses, remoteVars, callVars>>

\* The stream is exhausted without a last frame.
ReadEnd ==
    /\ reader = "reading"
    /\ stream = "ok" /\ got = Len(sent)
    /\ held' = End
    /\ reader' = "checking"
    /\ UNCHANGED <<requestVars, flagVars, responses, got, remoteVars, callVars>>

\* (Mutant: an error of the stream ends the iteration normally.)
ReadErrorAsEnd ==
    /\ reader = "reading" /\ stream = "failed"
    /\ held' = End
    /\ reader' = IF closed THEN "done" ELSE "checking"
    /\ UNCHANGED <<requestVars, flagVars, responses, got, remoteVars, callVars>>

\* The stream raises (frames still in flight may be dropped), or a response has
\* no frame.  Once _closed is set the reader's last put never succeeds.
ReadError ==
    /\ reader = "reading"
    /\ \/ stream = "failed"
       \/ got < Len(sent) /\ sent[got + 1] = "bad"
    /\ IF closed THEN reader' = "done" /\ UNCHANGED held
                 ELSE reader' = "checking" /\ held' = Failure
    /\ UNCHANGED <<requestVars, flagVars, responses, got, remoteVars, callVars>>

\* What the reader does once the item it holds was put or refused.
AfterPut(accepted) ==
    /\ held' = NoItem
    /\ reader' = IF held = End /\ LastRead THEN "marking"
                 ELSE IF held.kind = "frame" /\ accepted THEN "reading"
                 ELSE "done"

\* (Mutant: _put_response does not look at _closed again.)
CheckNothing ==
    /\ reader = "checking"
    /\ reader' = "putting"
    /\ UNCHANGED <<requestVars, flagVars, responses, held, got, remoteVars,
                   callVars>>

\* _put_response looks at _closed before every attempt to put.
CheckClosed ==
    /\ reader = "checking" /\ LockFree
    /\ IF closed THEN AfterPut(FALSE)
                 ELSE reader' = "putting" /\ UNCHANGED held
    /\ UNCHANGED <<requestVars, flagVars, responses, got, remoteVars, callVars>>

\* (Mutant: queue.Full drops the item.)
PutResponseDropping ==
    /\ reader = "putting"
    /\ responses' = IF ResponseRoom THEN Append(responses, held) ELSE responses
    /\ IF held.kind = "frame" /\ LastRead THEN held' = End /\ reader' = "checking"
                                         ELSE AfterPut(TRUE)
    /\ UNCHANGED <<requestVars, flagVars, got, remoteVars, callVars>>

\* After Exit and SessionEnded the next item is _END_REQUESTS.
PutResponse ==
    /\ reader = "putting"
    /\ \/ /\ ResponseRoom /\ held.kind = "frame" /\ LastRead
          /\ responses' = Append(responses, held)
          /\ held' = End /\ reader' = "checking"
       \/ /\ ResponseRoom /\ ~(held.kind = "frame" /\ LastRead)
          /\ responses' = Append(responses, held)
          /\ AfterPut(TRUE)
       \/ /\ ~ResponseRoom /\ reader' = "checking"
          /\ UNCHANGED <<responses, held>>
    /\ UNCHANGED <<requestVars, flagVars, got, remoteVars, callVars>>

\* _mark_terminal: _closed under _lock, then the end of the requests.
MarkTerminal ==
    /\ reader = "marking" /\ LockFree
    /\ closed' = TRUE
    /\ reader' = "markPut"
    /\ UNCHANGED <<requestVars, phase, detached, responses, held, got,
                   remoteVars, callVars>>

MarkPut ==
    /\ reader = "markPut"
    /\ PutOrDrop("end")
    /\ reader' = "done"
    /\ UNCHANGED <<iter, wire, inputs, flagVars, responses, held, got,
                   remoteVars, callVars>>

-----------------------------------------------------------------------------
(* gRPC's request thread.                                                  *)

\* The end marker makes the generator return.  Once the RPC is over gRPC takes
\* one more item and drops it and the generator, whose finally then may run.
TakeRequest ==
    /\ iter = "run" /\ requests # <<>>
    /\ requests' = Tail(requests)
    /\ \/ /\ Head(requests) = "end"
          /\ iter' = "ending" /\ UNCHANGED wire
       \/ /\ Head(requests) # "end" /\ stream = "live"
          /\ wire' = Append(wire, Head(requests)) /\ UNCHANGED iter
       \/ /\ Head(requests) # "end" /\ stream # "live"
          /\ iter' \in {"ending", "dropped"} /\ UNCHANGED wire
    /\ UNCHANGED <<inputs, flagVars, responseVars, remoteVars, callVars>>

\* The finally of _request_iter.
EndRequests ==
    /\ iter = "ending" /\ LockFree
    /\ iter' = "ended"
    /\ UNCHANGED <<requests, wire, inputs, flagVars, responseVars, remoteVars,
                   callVars>>

-----------------------------------------------------------------------------
(* The remote side and the clock.                                          *)

\* The remote side says DETACHED only when it was asked to.
SendFrame ==
    /\ phase = "open" /\ stream = "live" /\ ~LastSent
    /\ Len(sent) < MaxFrames
    /\ \E k \in FrameKinds :
          /\ k = "detached" => \E i \in DOMAIN wire : wire[i] = "detach"
          /\ sent' = Append(sent, k)
    /\ UNCHANGED <<requestVars, flagVars, responseVars, stream, expired,
                   callVars>>

StreamEnds ==
    /\ stream = "live"
    /\ stream' \in {"ok", "failed"}
    /\ UNCHANGED <<requestVars, flagVars, responseVars, sent, expired, callVars>>

\* The RPC's own timeout is later than the deadline.
StreamExpires ==
    /\ stream = "live" /\ expired
    /\ stream' = "failed"
    /\ UNCHANGED <<requestVars, flagVars, responseVars, sent, expired, callVars>>

Expire ==
    /\ ~expired
    /\ expired' = TRUE
    /\ UNCHANGED <<requestVars, flagVars, responseVars, stream, sent, callVars>>

-----------------------------------------------------------------------------
Calls(t) == Write(t) \/ Detach(t) \/ CallNext(t)

DetachNext(t) == \/ DetachBranch(t) \/ PutDetach(t) \/ PutEnd(t)
                 \/ Cleanup(t) \/ Join(t)

Continue(t) == \/ Put(t) \/ DetachNext(t) \/ StartReader(t) \/ WaitForItem(t)
               \/ GetItem(t) \/ NextTimesOut(t)

Opening == Admit \/ Refuse

Reader == \/ ReadFrame \/ ReadEnd \/ ReadError \/ CheckClosed \/ PutResponse
          \/ MarkTerminal \/ MarkPut

Remote == SendFrame \/ StreamEnds \/ StreamExpires

Next == \/ Opening \/ Refused
        \/ \E t \in Threads : Calls(t) \/ Continue(t)
        \/ Reader \/ TakeRequest \/ EndRequests \/ Remote \/ Expire

Spec == Init /\ [][Next]_vars

\* As in ExecSession: threads in a call, the reader and the generator's finally
\* are scheduled, time passes, and gRPC ends an RPC whose timeout passed.  The
\* remote side may stay silent, and gRPC need not take requests.
Fairness == /\ \A t \in Threads : WF_vars(Continue(t))
            /\ WF_vars(Reader)
            /\ WF_vars(EndRequests)
            /\ WF_vars(Expire)
            /\ WF_vars(StreamExpires)

FairSpec == Spec /\ Fairness

-----------------------------------------------------------------------------
(* Properties.                                                             *)

RequestsOK ==
    /\ requests \in Seq(RequestItems) /\ Len(requests) <= RequestQueueSize
    /\ iter \in {"run", "ending", "ended", "dropped"}
    /\ wire \in Seq(RequestItems)
    /\ inputs \in 0..MaxInputs
FlagsOK ==
    /\ phase \in {"opening", "open", "refused"}
    /\ closed \in BOOLEAN /\ detached \in BOOLEAN /\ expired \in BOOLEAN
ResponsesOK ==
    /\ responses \in Seq(Items) /\ Len(responses) <= ResponseQueueSize
    /\ reader \in ReaderSteps /\ held \in Items
    /\ got \in 0..Len(sent)
RemoteOK ==
    /\ stream \in {"live", "ok", "failed"}
    /\ sent \in Seq(FrameKinds) /\ Len(sent) <= MaxFrames
CallsOK ==
    /\ pc \in [Threads -> CallSteps]
    /\ delivered \in Seq(Items)

\* Types, with the bounds of the two queues (_put, _put_cleanup, queue.Queue).
TypeOK == RequestsOK /\ FlagsOK /\ ResponsesOK /\ RemoteOK /\ CallsOK

\* The iteration answers the frames of the attachment each once and in order,
\* and nothing after StopIteration or an error, whatever detach(), close(), a
\* takeover, the deadline and a second iterating thread do meanwhile.
DeliveredInOrder ==
    \A i \in DOMAIN delivered :
        IF delivered[i].kind = "frame" THEN delivered[i].n = i
                                       ELSE i = Len(delivered)

\* StopIteration never hides output: every frame was delivered before it, and
\* the last one was Exit or SessionEnded, or the RPC ended with status OK.
Complete(n) == n = Len(sent) /\ (stream = "ok" \/ LastSent)
StopAfterAll ==
    \A i \in DOMAIN delivered : delivered[i].kind = "end" => Complete(i - 1)

\* All the iteration has answered, and what is queued for it.
Told == delivered \o responses

\* A stream the reader marks terminal (exit, takeover) still answers everything:
\* _closed is set after the last event and the end marker were queued, because
\* _put_response refuses what comes later.
ClosedMeansComplete ==
    closed /\ ~detached => Told # <<>> /\ Told[Len(Told)] = End

\* The reader ends only after it has queued a final answer, unless the stream
\* was detached: a takeover or a lost connection never leaves the iterating
\* thread to its deadline.
FinalAnswer ==
    reader = "done" /\ ~detached =>
        Told # <<>> /\ Told[Len(Told)].kind # "frame"

\* The inductive invariant behind both.
VerdictQueued ==
    /\ detached => closed
    /\ closed /\ ~detached => reader \in {"markPut", "done"}
    /\ ~detached /\ (closed \/ reader \in {"marking", "markPut"}) =>
          Told # <<>> /\ Told[Len(Told)] = End
    /\ FinalAnswer

\* However many threads detach, close or time out at once, the remote side is
\* asked to detach at most once.
Asked == wire \o requests
OneDetachFrame ==
    \A i, j \in DOMAIN Asked :
        Asked[i] = "detach" /\ Asked[j] = "detach" => i = j

\* The inductive invariant behind it: one thread at most is on its way to ask,
\* and then, or while the stream is open, nobody has asked.
NoDetachAsked == \A i \in DOMAIN Asked : Asked[i] # "detach"
Detaching(t)  == pc[t] \in {"branch", "putDetach"}
OneDetacher ==
    /\ ~closed => NoDetachAsked /\ \A t \in Threads : ~Detaching(t)
    /\ \A t \in Threads : Detaching(t) =>
          NoDetachAsked /\ \A u \in Threads : Detaching(u) => u = t

\* README "Iterating a SessionStream yields ... SessionEnded: the attach ended
\* without the process exiting -- DETACHED (you called detach())": an event
\* DETACHED that the reader thread has read is given to the iteration.
DetachedIsYielded ==
    reader = "done" /\ got > 0 /\ sent[got] = "detached" =>
        \E i \in DOMAIN Told : Told[i] = Frame(got)

\* Every call ends: neither a full queue, a silent remote side nor calls that
\* detach each other leave a caller blocked after the deadline and the cleanup
\* timeouts.
EveryCallReturns == \A t \in Threads : []<>(pc[t] = "idle")

\* A closed stream gets its reader thread back, also when nobody takes
\* responses any more and the queue is full.
ReaderStops == []<>(closed => reader \in {"unstarted", "done"})

\* The inductive invariant behind DeliveredInOrder and StopAfterAll, with the
\* parts it has in ExecSession.
Answered  == Len(delivered) + Len(responses)
NoVerdict == /\ \A i \in DOMAIN delivered : delivered[i].kind = "frame"
             /\ \A i \in DOMAIN responses : responses[i].kind = "frame"

FramesInOrder ==
    /\ \A i \in DOMAIN delivered :
          \/ delivered[i] = Frame(i)
          \/ delivered[i] \in {End, Failure} /\ i = Len(delivered) /\ responses = <<>>
    /\ \A i \in DOMAIN responses :
          \/ responses[i] = Frame(Len(delivered) + i)
          \/ responses[i] \in {End, Failure} /\ i = Len(responses)

ReaderPosition ==
    /\ reader \in {"unstarted", "starting", "reading"} =>
          NoVerdict /\ got = Answered
    /\ reader \in {"checking", "putting"} =>
          /\ NoVerdict
          /\ \/ held = Frame(got) /\ got = Answered + 1
             \/ held \in {End, Failure} /\ got = Answered

EndIsComplete ==
    /\ held = End => Complete(got)
    /\ \A i \in DOMAIN delivered : delivered[i] = End => Complete(i - 1)
    /\ \A i \in DOMAIN responses :
          responses[i] = End => Complete(Len(delivered) + i - 1)

QueuedWasRead ==
    \A i \in DOMAIN responses :
        responses[i].kind = "frame" => Len(delivered) + i <= got

LastIsLast == \A i \in DOMAIN sent : sent[i] \in LastKinds => i = Len(sent)

OneStarter ==
    \A t \in Threads : pc[t] = "start" =>
        reader = "starting" /\ \A u \in Threads : pc[u] = "start" => u = t

IInv == FramesInOrder /\ ReaderPosition /\ EndIsComplete /\ LastIsLast
        /\ QueuedWasRead /\ OneStarter

\* Refinement: what the iterating thread sees is what ExecEvents allows.
Events == INSTANCE ExecEvents
              WITH produced <- sent, finished <- (stream = "ok"),
                   consumed <- delivered
ImplementsEvents == Events!Spec
=============================================================================
