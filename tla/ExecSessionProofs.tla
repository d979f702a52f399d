------------------------- MODULE ExecSessionProofs -------------------------
(* What TLAPS proves about ExecSession for all values of its constants. *)
EXTENDS ExecSession, FiniteSetTheorems, TLAPS

-----------------------------------------------------------------------------
\* The positions of a sequence are the numbers from 1 to its length.
LEMMA SeqDomain ==
  ASSUME NEW S, NEW q \in Seq(S)
  PROVE  DOMAIN q = 1..Len(q) /\ Len(q) \in Nat
OBVIOUS

\* What the filter of _put_cleanup leaves is a queue no longer than before.
LEMMA KeepingType ==
  ASSUME requests \in Seq(RequestItems), NEW places \in SUBSET DOMAIN requests,
         NEW kept \in Keeping(places)
  PROVE  kept \in Seq(RequestItems) /\ Len(kept) <= Len(requests)
<1> DEFINE n == Cardinality(places)
<1>1. n \in Nat /\ n <= Len(requests)
  <2>1. DOMAIN requests = 1..Len(requests) /\ Len(requests) \in Nat
    BY SeqDomain
  <2>2. ASSUME NEW m \in Nat PROVE IsFiniteSet(1..m) /\ Cardinality(1..m) = m
    BY FS_Interval
  <2> QED BY <2>1, <2>2, FS_Subset, FS_CardinalityType
<1> HIDE DEF n
<1>2. PICK g \in [1..n -> places] : kept = [i \in DOMAIN g |-> requests[g[i]]]
  BY DEF Keeping, n
<1>3. kept = [i \in 1..n |-> requests[g[i]]]
  BY <1>2
<1>4. \A i \in 1..n : requests[g[i]] \in RequestItems
  BY <1>2
<1>5. kept \in [1..n -> RequestItems]
  BY <1>3, <1>4
<1> QED BY <1>1, <1>5

\* The Boolean fields stay Boolean; apart from the other types because the
\* provers treat Boolean variables differently.
LEMMA FlagsType == FlagsOK /\ [Next]_vars => FlagsOK'
<1> SUFFICES ASSUME FlagsOK, [Next]_vars PROVE FlagsOK'
  OBVIOUS
<1> USE DEF FlagsOK, requestVars, flagVars, responseVars, remoteVars, callVars
<1>1. ASSUME NEW t \in Threads, Calls(t) PROVE FlagsOK'
  <2>1. CASE Write(t) \/ Resize(t)
    BY <2>1 DEF Write, Resize, SubmitInput
  <2>2. CASE CloseStdin(t) \/ Cancel(t) \/ CallNext(t)
    BY <2>2 DEF CloseStdin, Cancel, EnterCancel, Shut, CallNext
  <2> QED BY <1>1, <2>1, <2>2 DEF Calls
<1>2. ASSUME NEW t \in Threads, Continue(t) PROVE FlagsOK'
  <2>1. CASE Put(t) \/ StartReader(t) \/ WaitForItem(t) \/ GetItem(t)
    BY <2>1 DEF Put, StartReader, WaitForItem, GetItem
  <2>2. CASE NextTimesOut(t)
    BY <2>2 DEF NextTimesOut, EnterCancel, Shut
  <2>3. CASE CancelNext(t)
    BY <2>3 DEF CancelNext, CancelBranch, PutCancel, WaitCancel, PutEnd,
                Cleanup, Join
  <2> QED BY <1>2, <2>1, <2>2, <2>3 DEF Continue
<1>3. CASE Reader
  <2>1. CASE ReadFrame \/ ReadEnd \/ ReadError
    BY <2>1 DEF ReadFrame, ReadEnd, ReadError
  <2>2. CASE CheckFlags \/ PutResponse
    BY <2>2 DEF CheckFlags, PutResponse
  <2>3. CASE MarkTerminal \/ MarkPut
    BY <2>3 DEF MarkTerminal, MarkPut
  <2> QED BY <1>3, <2>1, <2>2, <2>3 DEF Reader
<1>4. CASE TakeRequest \/ EndRequests
  BY <1>4 DEF TakeRequest, EndRequests
<1>5. CASE Remote \/ Expire
  BY <1>5 DEF Remote, SendFrame, StreamEnds, StreamExpires, Expire
<1>6. CASE UNCHANGED vars
  BY <1>6 DEF vars
<1> QED BY <1>1, <1>2, <1>3, <1>4, <1>5, <1>6 DEF Next

\* The request queue: bounded, and made of request items.
LEMMA RequestsType == RequestsOK /\ [Next]_vars => RequestsOK'
<1> SUFFICES ASSUME RequestsOK, [Next]_vars PROVE RequestsOK'
  OBVIOUS
<1> USE ExecAssumption DEF RequestsOK, requestVars
<1>1. ASSUME NEW t \in Threads, Calls(t) PROVE RequestsOK'
  BY <1>1 DEF Calls, Write, Resize, SubmitInput, CloseStdin, Cancel, CallNext
<1>2. ASSUME NEW t \in Threads, Put(t) PROVE RequestsOK'
  BY <1>2 DEF Put, RequestRoom, RequestItems, InputFrames, Sentinels
<1>3. ASSUME NEW t \in Threads, PutCancel(t) PROVE RequestsOK'
  <2> DEFINE places == {i \in DOMAIN requests : requests[i] # "halfClose"}
  <2>1. PICK kept \in Keeping(places) :
          \/ Len(kept) < RequestQueueSize /\ requests' = Append(kept, "cancel")
          \/ requests' = kept
    BY <1>3 DEF PutCancel
  <2>2. kept \in Seq(RequestItems) /\ Len(kept) <= Len(requests)
    BY KeepingType
  <2> HIDE DEF places
  <2>3. requests' \in Seq(RequestItems) /\ Len(requests') <= RequestQueueSize
    <3>1. "cancel" \in RequestItems
      BY DEF RequestItems
    <3>2. CASE requests' = kept
      BY <2>2, <3>2
    <3>3. CASE Len(kept) < RequestQueueSize /\ requests' = Append(kept, "cancel")
      BY <2>2, <3>1, <3>3
    <3> QED BY <2>1, <3>2, <3>3
  <2> QED BY <1>3, <2>3 DEF PutCancel
<1>4. ASSUME NEW t \in Threads, WaitCancel(t) \/ PutEnd(t) PROVE RequestsOK'
  <2>1. CASE WaitCancel(t)
    BY <2>1 DEF WaitCancel, PutOrDrop, RequestRoom, RequestItems
  <2>2. CASE PutEnd(t)
    BY <2>2 DEF PutEnd, PutOrDrop, RequestRoom, RequestItems, Sentinels
  <2> QED BY <1>4, <2>1, <2>2
<1>5. ASSUME NEW t \in Threads, CancelBranch(t) \/ Cleanup(t) \/ Join(t)
      PROVE RequestsOK'
  BY <1>5 DEF CancelBranch, Cleanup, Join
<1>6. ASSUME NEW t \in Threads,
             StartReader(t) \/ WaitForItem(t) \/ GetItem(t) \/ NextTimesOut(t)
      PROVE RequestsOK'
  BY <1>6 DEF StartReader, WaitForItem, GetItem, NextTimesOut
<1>7. CASE Reader
  <2>1. CASE MarkPut
    BY <2>1 DEF MarkPut, PutOrDrop, RequestRoom, RequestItems, Sentinels
  <2>2. CASE ~MarkPut
    BY <1>7, <2>2 DEF Reader, ReadFrame, ReadEnd, ReadError, CheckFlags,
                      PutResponse, MarkTerminal
  <2> QED BY <2>1, <2>2
<1>8. CASE TakeRequest
  <2>1. /\ Head(requests) \in RequestItems /\ Tail(requests) \in Seq(RequestItems)
        /\ Len(Tail(requests)) <= RequestQueueSize
    BY <1>8 DEF TakeRequest
  <2>2. wire' \in Seq(RequestItems)
    BY <1>8, <2>1 DEF TakeRequest
  <2> QED BY <1>8, <2>1, <2>2 DEF TakeRequest
<1>9. CASE EndRequests \/ Remote \/ Expire \/ UNCHANGED vars
  BY <1>9 DEF EndRequests, Remote, SendFrame, StreamEnds, StreamExpires, Expire,
              vars
<1> QED BY <1>1, <1>2, <1>3, <1>4, <1>5, <1>6, <1>7, <1>8, <1>9
        DEF Next, Continue, CancelNext

\* The remote side's frames and the status of the RPC.
LEMMA RemoteType == RemoteOK /\ [Next]_vars => RemoteOK'
<1> SUFFICES ASSUME RemoteOK, [Next]_vars PROVE RemoteOK'
  OBVIOUS
<1> USE ExecAssumption DEF RemoteOK, remoteVars
<1>1. ASSUME NEW t \in Threads, Calls(t) PROVE RemoteOK'
  BY <1>1 DEF Calls, Write, Resize, SubmitInput, CloseStdin, Cancel, CallNext
<1>2. ASSUME NEW t \in Threads, CancelBranch(t) \/ Cleanup(t) \/ Join(t)
      PROVE RemoteOK'
  BY <1>2 DEF CancelBranch, Cleanup, Join, CancelRpc
<1>3. ASSUME NEW t \in Threads,
             Put(t) \/ PutCancel(t) \/ WaitCancel(t) \/ PutEnd(t) \/ StartReader(t)
               \/ WaitForItem(t) \/ GetItem(t) \/ NextTimesOut(t)
      PROVE RemoteOK'
  BY <1>3 DEF Put, PutCancel, WaitCancel, PutEnd, StartReader, WaitForItem,
              GetItem, NextTimesOut
<1>4. CASE Reader
  BY <1>4 DEF Reader, ReadFrame, ReadEnd, ReadError, CheckFlags, PutResponse,
              MarkTerminal, MarkPut
<1>5. CASE TakeRequest \/ EndRequests \/ UNCHANGED vars
  BY <1>5 DEF TakeRequest, EndRequests, vars
<1>6. CASE SendFrame
  BY <1>6 DEF SendFrame
<1>7. CASE StreamEnds \/ StreamExpires \/ Expire
  BY <1>7 DEF StreamEnds, StreamExpires, Expire
<1> QED BY <1>1, <1>2, <1>3, <1>4, <1>5, <1>6, <1>7
        DEF Next, Continue, CancelNext, Remote

\* The response queue, bounded, and the reader.
LEMMA ResponsesType == ResponsesOK /\ RemoteOK /\ [Next]_vars => ResponsesOK'
<1> SUFFICES ASSUME ResponsesOK, RemoteOK, [Next]_vars PROVE ResponsesOK'
  OBVIOUS
<1> USE ExecAssumption DEF ResponsesOK, RemoteOK, responseVars, remoteVars
<1>1. ASSUME NEW t \in Threads, Calls(t) \/ StartReader(t) PROVE ResponsesOK'
  BY <1>1 DEF Calls, Write, Resize, SubmitInput, CloseStdin, Cancel, CallNext,
              StartReader, ReaderSteps
<1>2. ASSUME NEW t \in Threads, CancelNext(t) PROVE ResponsesOK'
  BY <1>2 DEF CancelNext, CancelBranch, PutCancel, WaitCancel, PutEnd, Cleanup,
              Join
<1>3. ASSUME NEW t \in Threads, Put(t) \/ WaitForItem(t) \/ NextTimesOut(t)
      PROVE ResponsesOK'
  BY <1>3 DEF Put, WaitForItem, NextTimesOut
<1>4. ASSUME NEW t \in Threads, GetItem(t) PROVE ResponsesOK'
  BY <1>4 DEF GetItem
<1>5. CASE Reader
  <2>5. PutResponse /\ ResponseRoom =>
          responses' \in Seq(Items) /\ Len(responses') <= ResponseQueueSize
    <3> HAVE PutResponse /\ ResponseRoom
    <3>1. responses' = Append(responses, held) /\ Len(responses) < ResponseQueueSize
      BY DEF PutResponse, ResponseRoom
    <3> QED BY <3>1
  <2> USE DEF Items, Frame, End, Failure, NoItem, ReaderSteps
  <2>1. CASE ReadFrame \/ ReadEnd \/ ReadError
    BY <2>1 DEF ReadFrame, ReadEnd, ReadError
  <2>2. CASE CheckFlags
    BY <2>2 DEF CheckFlags, AfterPut
  <2>3. CASE PutResponse
    <3>1. reader' \in ReaderSteps /\ held' \in Items
      BY <2>3 DEF PutResponse, AfterPut
    <3> QED BY <2>3, <2>5, <3>1 DEF PutResponse
  <2>4. CASE MarkTerminal \/ MarkPut
    BY <2>4 DEF MarkTerminal, MarkPut
  <2> QED BY <1>5, <2>1, <2>2, <2>3, <2>4 DEF Reader
<1>6. CASE TakeRequest \/ EndRequests \/ UNCHANGED vars
  BY <1>6 DEF TakeRequest, EndRequests, vars
<1>7. CASE SendFrame
  BY <1>7 DEF SendFrame
<1>8. CASE StreamEnds \/ StreamExpires \/ Expire
  BY <1>8 DEF StreamEnds, StreamExpires, Expire
<1> QED BY <1>1, <1>2, <1>3, <1>4, <1>5, <1>6, <1>7, <1>8 DEF Next, Continue,
                                                              Remote

\* The callers: their positions and what next() has answered.
LEMMA CallsType == CallsOK /\ ResponsesOK /\ [Next]_vars => CallsOK'
<1> SUFFICES ASSUME CallsOK, ResponsesOK, [Next]_vars PROVE CallsOK'
  OBVIOUS
<1> USE DEF CallsOK, callVars, Goto
<1>1. ASSUME NEW t \in Threads, Calls(t) PROVE CallsOK'
  BY <1>1 DEF Calls, Write, Resize, SubmitInput, CloseStdin, Cancel, EnterCancel,
              CallNext, CallSteps, CancelSteps
<1>2. ASSUME NEW t \in Threads, CancelNext(t) PROVE CallsOK'
  BY <1>2 DEF CancelNext, CancelBranch, PutCancel, WaitCancel, PutEnd, Cleanup,
              Join, CallSteps, CancelSteps
<1>3. ASSUME NEW t \in Threads,
             Put(t) \/ StartReader(t) \/ WaitForItem(t) \/ NextTimesOut(t)
      PROVE CallsOK'
  BY <1>3 DEF Put, StartReader, WaitForItem, NextTimesOut, EnterCancel,
              CallSteps, CancelSteps
<1>4. ASSUME NEW t \in Threads, GetItem(t) PROVE CallsOK'
  BY <1>4 DEF GetItem, ResponsesOK, CallSteps
<1>5. CASE Reader
  BY <1>5 DEF Reader, ReadFrame, ReadEnd, ReadError, CheckFlags, PutResponse,
              MarkTerminal, MarkPut
<1>6. CASE TakeRequest \/ EndRequests \/ Remote \/ Expire \/ UNCHANGED vars
  BY <1>6 DEF TakeRequest, EndRequests, Remote, SendFrame, StreamEnds,
              StreamExpires, Expire, vars
<1> QED BY <1>1, <1>2, <1>3, <1>4, <1>5, <1>6 DEF Next, Continue

\* Every state has the right types and both queues stay within their bounds.
THEOREM TypeCorrect == Spec => []TypeOK
<1>1. Init => TypeOK
  <2> SUFFICES ASSUME Init PROVE TypeOK
    OBVIOUS
  <2>1. RequestsOK /\ ResponsesOK /\ RemoteOK /\ CallsOK
    BY ExecAssumption DEF Init, RequestsOK, RequestItems, ResponsesOK, RemoteOK,
                          CallsOK, Items, NoItem, ReaderSteps, CallSteps
  <2>2. FlagsOK
    BY DEF Init, FlagsOK
  <2> QED BY <2>1, <2>2 DEF TypeOK
<1>2. TypeOK /\ [Next]_vars => TypeOK'
  BY RequestsType, FlagsType, ResponsesType, RemoteType, CallsType DEF TypeOK
<1> QED BY <1>1, <1>2, PTL DEF Spec

-----------------------------------------------------------------------------
(* The inductive invariant.  Most actions leave the answers alone; each of the *)
(* others is one step below.                                                  *)

answerVars == <<delivered, responses, reader, held, got, sent>>

\* What an action that is not about the answers does to them: nothing, and a
\* stream that ended with OK keeps its status.
Quiet == UNCHANGED answerVars /\ (stream = "ok" => stream' = "ok")

\* The actions that change the answers.
Loud == \/ \E t \in Threads : CallNext(t) \/ StartReader(t) \/ GetItem(t)
        \/ Reader \/ SendFrame

\* A step of the session leaves the answers alone or is one of the actions that
\* handle them.
LEMMA QuietOrLoud == [Next]_vars => Quiet \/ Loud
<1> SUFFICES ASSUME [Next]_vars, ~Loud PROVE Quiet
  OBVIOUS
<1> USE DEF Quiet, answerVars, remoteVars, responseVars
<1>1. ASSUME NEW t \in Threads, Calls(t) PROVE Quiet
  BY <1>1 DEF Loud, Calls, Write, Resize, SubmitInput, CloseStdin, Cancel
<1>2. ASSUME NEW t \in Threads, CancelBranch(t) \/ Cleanup(t) \/ Join(t) PROVE Quiet
  BY <1>2 DEF CancelBranch, Cleanup, Join, CancelRpc
<1>3. ASSUME NEW t \in Threads, Put(t) \/ PutCancel(t) \/ WaitCancel(t) \/ PutEnd(t)
      PROVE Quiet
  BY <1>3 DEF Put, PutCancel, WaitCancel, PutEnd
<1>4. ASSUME NEW t \in Threads, WaitForItem(t) \/ NextTimesOut(t) PROVE Quiet
  BY <1>4 DEF WaitForItem, NextTimesOut
<1>5. CASE TakeRequest \/ EndRequests \/ Expire
  BY <1>5 DEF TakeRequest, EndRequests, Expire, callVars
<1>6. CASE StreamEnds \/ StreamExpires
  BY <1>6 DEF StreamEnds, StreamExpires, callVars
<1>7. CASE UNCHANGED vars
  BY <1>7 DEF vars, callVars
<1> QED BY <1>1, <1>2, <1>3, <1>4, <1>5, <1>6, <1>7
        DEF Loud, Next, Continue, CancelNext, Remote

\* Only one thread is inside Thread.start(), and the lock is held then.
LEMMA StarterAlone == OneStarter /\ TypeOK /\ [Next]_vars => OneStarter'
<1> SUFFICES ASSUME OneStarter, CallsOK, [Next]_vars PROVE OneStarter'
  BY DEF TypeOK
<1> USE DEF OneStarter, CallsOK, Goto
<1>1. ASSUME NEW t \in Threads, CallNext(t) PROVE OneStarter'
  BY <1>1 DEF CallNext, LockFree
<1>2. ASSUME NEW t \in Threads, StartReader(t) PROVE OneStarter'
  BY <1>2 DEF StartReader
<1>3. ASSUME NEW t \in Threads, Write(t) \/ Resize(t) \/ CloseStdin(t) \/ Cancel(t)
      PROVE OneStarter'
  BY <1>3 DEF Write, Resize, SubmitInput, InputFrames, CloseStdin, Cancel,
              EnterCancel, responseVars
<1>4. ASSUME NEW t \in Threads, CancelNext(t) PROVE OneStarter'
  BY <1>4 DEF CancelNext, CancelBranch, PutCancel, WaitCancel, PutEnd, Cleanup,
              Join, responseVars
<1>5. ASSUME NEW t \in Threads,
             Put(t) \/ WaitForItem(t) \/ GetItem(t) \/ NextTimesOut(t)
      PROVE OneStarter'
  BY <1>5 DEF Put, WaitForItem, GetItem, NextTimesOut, EnterCancel, responseVars
<1>6. CASE Reader
  <2>1. pc' = pc /\ reader # "starting"
    BY <1>6 DEF Reader, ReadFrame, ReadEnd, ReadError, CheckFlags, PutResponse,
                MarkTerminal, MarkPut, callVars
  <2> QED BY <2>1
<1>7. CASE TakeRequest \/ EndRequests \/ Remote \/ Expire \/ UNCHANGED vars
  <2>1. pc' = pc /\ reader' = reader
    BY <1>7 DEF TakeRequest, EndRequests, Remote, SendFrame, StreamEnds,
                StreamExpires, Expire, vars, callVars, responseVars
  <2> QED BY <2>1
<1> QED BY <1>1, <1>2, <1>3, <1>4, <1>5, <1>6, <1>7 DEF Next, Calls, Continue

Answers == FramesInOrder /\ ReaderPosition /\ EndIsComplete /\ ExitLast /\ QueuedWasRead

\* What leaves the answers alone keeps the inductive invariant about them.
LEMMA QuietKeepsAnswers == Answers /\ Quiet => Answers'
<1> SUFFICES ASSUME Answers, Quiet PROVE Answers'
  OBVIOUS
<1> USE DEF Answers, Quiet, answerVars
<1>1. FramesInOrder'
  BY DEF FramesInOrder
<1>2. ReaderPosition'
  BY DEF ReaderPosition, NoVerdict, Answered
<1>3. EndIsComplete'
  <2>1. \A n : Complete(n) => Complete(n)'
    BY DEF Complete, ExitSent
  <2> QED BY <2>1 DEF EndIsComplete
<1>4. ExitLast' /\ QueuedWasRead'
  BY DEF ExitLast, QueuedWasRead
<1> QED BY <1>1, <1>2, <1>3, <1>4

\* next() starts the reader: no answer moves.
LEMMA StartKeepsAnswers ==
  ASSUME Answers, OneStarter, NEW t \in Threads, CallNext(t) \/ StartReader(t)
  PROVE  Answers'
<1> USE DEF Answers
<1>1. /\ UNCHANGED <<delivered, responses, held, got, sent, stream>>
      /\ \/ reader' = reader
         \/ {reader, reader'} \subseteq {"unstarted", "starting", "reading"}
  BY DEF CallNext, StartReader, OneStarter, remoteVars
<1>2. FramesInOrder' /\ ExitLast' /\ QueuedWasRead'
  BY <1>1 DEF FramesInOrder, ExitLast, QueuedWasRead
<1>3. ReaderPosition'
  BY <1>1 DEF ReaderPosition, NoVerdict, Answered
<1>4. EndIsComplete'
  BY <1>1 DEF EndIsComplete, Complete, ExitSent
<1> QED BY <1>2, <1>3, <1>4

\* The remote side sends: no session that could still say StopIteration has
\* said or queued it.
LEMMA SendKeepsAnswers ==
  ASSUME Answers, ResponsesOK, RemoteOK, SendFrame
  PROVE  Answers'
<1> USE DEF Answers
<1>1. /\ UNCHANGED <<delivered, responses, reader, held, got, stream>>
      /\ stream = "live" /\ ~ExitSent
  BY DEF SendFrame, responseVars, callVars
<1>2. PICK k \in FrameKinds : sent' = Append(sent, k)
  BY DEF SendFrame
<1>3. FramesInOrder'
  BY <1>1 DEF FramesInOrder
<1>4. ReaderPosition'
  BY <1>1 DEF ReaderPosition, NoVerdict, Answered
<1>5. \A n : ~Complete(n)
  BY <1>1 DEF Complete
<1>6. EndIsComplete'
  BY <1>1, <1>5 DEF EndIsComplete
<1>7. ExitLast'
  <2>1. Len(sent') = Len(sent) + 1 /\ \A i \in 1..Len(sent) : sent'[i] = sent[i]
    BY <1>2 DEF RemoteOK
  <2>2. \A i \in 1..Len(sent) : sent[i] # "exit"
    BY <1>1 DEF ExitLast, ExitSent, RemoteOK
  <2> QED BY <1>2, <2>1, <2>2 DEF ExitLast, RemoteOK
<1>8. QueuedWasRead'
  BY <1>1 DEF QueuedWasRead
<1> QED BY <1>3, <1>4, <1>6, <1>7, <1>8

\* next() answers: the first queued item becomes the last answer.
LEMMA GetKeepsAnswers ==
  ASSUME Answers, ResponsesOK, CallsOK, NEW t \in Threads, GetItem(t)
  PROVE  Answers'
<1> USE DEF Answers
<1>1. /\ UNCHANGED <<reader, held, got, sent, stream>> /\ responses # <<>>
      /\ delivered' = Append(delivered, Head(responses))
      /\ responses' = Tail(responses)
  BY DEF GetItem, remoteVars
<1>2. /\ delivered \in Seq(Items) /\ responses \in Seq(Items)
  BY DEF ResponsesOK, CallsOK
<1>3. /\ Len(delivered') = Len(delivered) + 1
      /\ \A i \in 1..Len(delivered) : delivered'[i] = delivered[i]
      /\ delivered'[Len(delivered) + 1] = responses[1]
      /\ Len(responses') = Len(responses) - 1
      /\ \A i \in 1..Len(responses') : responses'[i] = responses[i + 1]
      /\ DOMAIN delivered' = 1..Len(delivered')
      /\ DOMAIN responses' = 1..Len(responses')
  BY <1>1, <1>2
<1>4. FramesInOrder'
  <2>1. \A i \in DOMAIN delivered : delivered[i] = Frame(i)
    BY <1>1 DEF FramesInOrder
  <2>2. \/ responses[1] = Frame(Len(delivered) + 1)
        \/ responses[1] \in {End, Failure} /\ Len(responses) = 1
    <3>1. 1 \in DOMAIN responses
      BY <1>1, <1>2
    <3> QED BY <3>1 DEF FramesInOrder
  <2>3. \A i \in DOMAIN delivered' :
          \/ delivered'[i] = Frame(i)
          \/ /\ delivered'[i] \in {End, Failure} /\ i = Len(delivered')
             /\ Len(responses') = 0
    BY <1>2, <1>3, <2>1, <2>2
  <2>4. Len(responses') = 0 => responses' = <<>>
    BY <1>1, <1>2
  <2>5. \A i \in DOMAIN responses' :
          \/ responses'[i] = Frame(Len(delivered') + i)
          \/ responses'[i] \in {End, Failure} /\ i = Len(responses')
    <3> SUFFICES ASSUME NEW i \in 1..Len(responses')
                 PROVE  \/ responses'[i] = Frame(Len(delivered') + i)
                        \/ responses'[i] \in {End, Failure} /\ i = Len(responses')
      BY <1>3
    <3>1. i + 1 \in DOMAIN responses /\ i \in Nat
      BY <1>2, <1>3
    <3>2. \/ responses[i + 1] = Frame(Len(delivered) + (i + 1))
          \/ responses[i + 1] \in {End, Failure} /\ i + 1 = Len(responses)
      BY <3>1 DEF FramesInOrder
    <3>3. Len(delivered) + (i + 1) = Len(delivered') + i
      BY <1>2, <1>3, <3>1
    <3>4. i + 1 = Len(responses) => i = Len(responses')
      BY <1>2, <1>3, <3>1
    <3> QED BY <1>3, <3>2, <3>3, <3>4
  <2> QED BY <2>3, <2>4, <2>5 DEF FramesInOrder
<1>5. ReaderPosition'
  <2>1. Answered' = Answered
    BY <1>2, <1>3 DEF Answered
  <2>2. NoVerdict => NoVerdict'
    BY <1>1, <1>2, <1>3 DEF NoVerdict
  <2> QED BY <1>1, <2>1, <2>2 DEF ReaderPosition
<1>6. EndIsComplete'
  <2>1. \A n : Complete(n)' <=> Complete(n)
    BY <1>1 DEF Complete, ExitSent
  <2>2. (held = End => Complete(got))'
    BY <1>1 DEF EndIsComplete, Complete, ExitSent
  <2>3. \A i \in DOMAIN delivered' : delivered'[i] = End => Complete(i - 1)
    <3>1. responses[1] = End => Complete(Len(delivered) + 1 - 1)
      BY <1>1, <1>2 DEF EndIsComplete
    <3> QED BY <1>2, <1>3, <3>1 DEF EndIsComplete
  <2>4. \A i \in DOMAIN responses' :
          responses'[i] = End => Complete(Len(delivered') + i - 1)
    <3> SUFFICES ASSUME NEW i \in 1..Len(responses'), responses'[i] = End
                 PROVE  Complete(Len(delivered') + i - 1)
      BY <1>3
    <3>1. i + 1 \in DOMAIN responses /\ i \in Nat
      BY <1>2, <1>3
    <3>2. Complete(Len(delivered) + (i + 1) - 1)
      BY <1>3, <3>1 DEF EndIsComplete
    <3>3. Len(delivered) + (i + 1) - 1 = Len(delivered') + i - 1
      BY <1>2, <1>3, <3>1
    <3> QED BY <3>2, <3>3 DEF Complete
  <2> QED BY <2>1, <2>2, <2>3, <2>4 DEF EndIsComplete
<1>7. ExitLast'
  BY <1>1 DEF ExitLast
<1>8. QueuedWasRead'
  <2> SUFFICES ASSUME NEW i \in 1..Len(responses'), responses'[i].kind = "frame"
               PROVE  Len(delivered') + i <= got'
    BY <1>3 DEF QueuedWasRead
  <2>1. i + 1 \in DOMAIN responses /\ i \in Nat
    BY <1>2, <1>3
  <2>2. Len(delivered) + (i + 1) <= got
    BY <1>3, <2>1 DEF QueuedWasRead
  <2> QED BY <1>1, <1>2, <1>3, <2>1, <2>2
<1> QED BY <1>4, <1>5, <1>6, <1>7, <1>8

\* The reader takes an item, drops it or ends: the queues do not move.
LEMMA HoldKeepsAnswers ==
  ASSUME Answers, ResponsesOK, RemoteOK,
         ReadFrame \/ ReadEnd \/ ReadError \/ CheckFlags \/ MarkTerminal \/ MarkPut
  PROVE  Answers'
<1> USE DEF Answers
<1>1. UNCHANGED <<delivered, responses, sent, stream>>
  BY DEF ReadFrame, ReadEnd, ReadError, CheckFlags, MarkTerminal, MarkPut,
         remoteVars, callVars
<1>2. FramesInOrder' /\ ExitLast'
  BY <1>1 DEF FramesInOrder, ExitLast
<1>3. Answered' = Answered /\ (NoVerdict => NoVerdict')
  BY <1>1 DEF Answered, NoVerdict
<1>4. ReaderPosition'
  <2>1. CASE ReadFrame
    BY <1>3, <2>1 DEF ReaderPosition, ReadFrame, ResponsesOK, RemoteOK
  <2>2. CASE ReadEnd \/ ReadError
    BY <1>3, <2>2 DEF ReaderPosition, ReadEnd, ReadError
  <2>3. CASE CheckFlags
    <3>1. CASE Shut
      BY <1>3, <2>3, <3>1 DEF ReaderPosition, CheckFlags, AfterPut
    <3>2. CASE ~Shut
      BY <1>3, <2>3, <3>2 DEF ReaderPosition, CheckFlags
    <3> QED BY <3>1, <3>2
  <2>4. CASE MarkTerminal \/ MarkPut
    BY <2>4 DEF ReaderPosition, MarkTerminal, MarkPut
  <2> QED BY <2>1, <2>2, <2>3, <2>4
<1>5. EndIsComplete'
  <2>1. (held = End => Complete(got))'
    <3>1. CASE ReadFrame
      BY <3>1 DEF ReadFrame, Frame, End
    <3>2. CASE ReadEnd
      BY <1>1, <3>2 DEF ReadEnd, Complete
    <3>3. CASE ReadError
      BY <1>1, <3>3 DEF ReadError, Failure, End, EndIsComplete, Complete, ExitSent
    <3>4. CASE CheckFlags
      BY <1>1, <3>4 DEF CheckFlags, AfterPut, NoItem, End, EndIsComplete,
                        Complete,
                        ExitSent
    <3>5. CASE MarkTerminal \/ MarkPut
      BY <1>1, <3>5 DEF MarkTerminal, MarkPut, EndIsComplete, Complete, ExitSent
    <3> QED BY <3>1, <3>2, <3>3, <3>4, <3>5
  <2> QED BY <1>1, <2>1 DEF EndIsComplete, Complete, ExitSent
<1>6. QueuedWasRead'
  <2>1. CASE ReadFrame
    BY <1>1, <2>1 DEF QueuedWasRead, ReadFrame, ReaderPosition, Answered,
                      ResponsesOK, RemoteOK
  <2>2. CASE ~ReadFrame
    <3>1. got' = got
      BY <2>2 DEF ReadEnd, ReadError, CheckFlags, MarkTerminal, MarkPut
    <3> QED BY <1>1, <3>1 DEF QueuedWasRead
  <2> QED BY <2>1, <2>2
<1> QED BY <1>2, <1>4, <1>5, <1>6

\* The reader puts the item it holds at the end of the queue.
LEMMA PutKeepsAnswers ==
  ASSUME Answers, ResponsesOK, RemoteOK, CallsOK, PutResponse
  PROVE  Answers'
<1> USE DEF Answers
<1>1. /\ UNCHANGED <<delivered, got, sent, stream>> /\ reader = "putting"
  BY DEF PutResponse, remoteVars, callVars
<1>2. CASE ~ResponseRoom
  <2>1. UNCHANGED <<responses, held>> /\ reader' = "checking"
    BY <1>2 DEF PutResponse
  <2>2. FramesInOrder' /\ ExitLast' /\ EndIsComplete' /\ QueuedWasRead'
    BY <1>1, <2>1 DEF FramesInOrder, ExitLast, EndIsComplete, Complete, ExitSent,
                      QueuedWasRead
  <2>3. ReaderPosition'
    BY <1>1, <2>1 DEF ReaderPosition, NoVerdict, Answered
  <2> QED BY <2>2, <2>3
<1>3. CASE ResponseRoom
  <2>1. /\ responses' = Append(responses, held)
        /\ delivered \in Seq(Items) /\ responses \in Seq(Items) /\ held \in Items
    BY <1>3 DEF PutResponse, ResponsesOK, CallsOK
  <2>2. /\ NoVerdict
        /\ \/ held = Frame(got) /\ got = Answered + 1
           \/ held \in {End, Failure} /\ got = Answered
    BY <1>1 DEF ReaderPosition
  <2>3. /\ Len(responses') = Len(responses) + 1
        /\ \A i \in 1..Len(responses) : responses'[i] = responses[i]
        /\ responses'[Len(responses')] = held
        /\ DOMAIN responses = 1..Len(responses)
        /\ DOMAIN responses' = 1..Len(responses')
        /\ Len(responses) \in Nat /\ Len(delivered) \in Nat
        /\ Answered' = Answered + 1
    BY <1>1, <2>1 DEF Answered
  <2>4. FramesInOrder'
    <3>1. \A i \in DOMAIN delivered : delivered[i] = Frame(i)
      BY <2>2 DEF FramesInOrder, NoVerdict, End, Failure
    <3>2. \A i \in DOMAIN responses : responses[i] = Frame(Len(delivered) + i)
      BY <2>2 DEF FramesInOrder, NoVerdict, End, Failure
    <3>3. \/ held = Frame(Len(delivered) + Len(responses'))
          \/ held \in {End, Failure}
      BY <2>2, <2>3 DEF Answered
    <3>4. \A i \in 1..Len(responses') :
            i \in 1..Len(responses) \/ i = Len(responses')
      BY <2>3
    <3>5. \A i \in DOMAIN responses' :
            \/ responses'[i] = Frame(Len(delivered) + i)
            \/ responses'[i] \in {End, Failure} /\ i = Len(responses')
      BY <2>3, <3>2, <3>3, <3>4
    <3> QED BY <1>1, <3>1, <3>5 DEF FramesInOrder
  <2>5. ReaderPosition'
    <3>1. CASE held.kind = "frame" /\ ExitRead
      <4>1. held' = End /\ reader' = "checking"
        BY <1>3, <3>1 DEF PutResponse
      <4>2. NoVerdict'
        BY <1>1, <2>2, <2>3, <3>1 DEF NoVerdict
      <4>3. got' = Answered'
        BY <1>1, <2>2, <2>3, <3>1 DEF End, Failure
      <4> QED BY <4>1, <4>2, <4>3 DEF ReaderPosition
    <3>2. CASE ~(held.kind = "frame" /\ ExitRead)
      <4>1. AfterPut(TRUE)
        BY <1>3, <3>2 DEF PutResponse
      <4>2. CASE reader' = "reading"
        <5>1. held.kind = "frame"
          BY <4>1, <4>2 DEF AfterPut
        <5>2. NoVerdict'
          BY <1>1, <2>2, <2>3, <5>1 DEF NoVerdict
        <5>3. got' = Answered'
          BY <1>1, <2>2, <2>3, <5>1 DEF End, Failure
        <5> QED BY <4>2, <5>2, <5>3 DEF ReaderPosition
      <4>3. CASE reader' \in {"marking", "done"}
        BY <4>3 DEF ReaderPosition
      <4> QED BY <4>1, <4>2, <4>3 DEF AfterPut
    <3> QED BY <3>1, <3>2
  <2>6. EndIsComplete'
    <3>1. \A n : Complete(n)' <=> Complete(n)
      BY <1>1 DEF Complete, ExitSent
    <3>2. (held = End => Complete(got))'
      <4>1. CASE held.kind = "frame" /\ ExitRead
        <5>1. got = Len(sent) /\ sent # <<>> /\ sent[Len(sent)] = "exit"
          BY <4>1 DEF ExitRead, ExitLast, ResponsesOK, RemoteOK
        <5> QED BY <1>1, <5>1 DEF Complete, ExitSent
      <4>2. CASE ~(held.kind = "frame" /\ ExitRead)
        BY <1>3, <4>2 DEF PutResponse, AfterPut, NoItem, End
      <4> QED BY <4>1, <4>2
    <3>3. \A i \in DOMAIN delivered : delivered[i] = End => Complete(i - 1)
      BY DEF EndIsComplete
    <3>4. \A i \in DOMAIN responses' :
            responses'[i] = End => Complete(Len(delivered) + i - 1)
      <4> SUFFICES ASSUME NEW i \in 1..Len(responses'), responses'[i] = End
                   PROVE  Complete(Len(delivered) + i - 1)
        BY <2>3
      <4>1. CASE i \in 1..Len(responses)
        BY <2>3, <4>1 DEF EndIsComplete
      <4>2. CASE i = Len(responses')
        <5>1. held = End
          BY <2>3, <4>2
        <5>2. Complete(got)
          BY <5>1 DEF EndIsComplete
        <5>3. got = Len(delivered) + i - 1
          BY <2>2, <2>3, <4>2, <5>1 DEF Answered, End, Frame
        <5> QED BY <5>2, <5>3 DEF Complete
      <4> QED BY <2>3, <4>1, <4>2
    <3> QED BY <1>1, <3>1, <3>2, <3>3, <3>4 DEF EndIsComplete
  <2>7. ExitLast'
    BY <1>1 DEF ExitLast
  <2>8. QueuedWasRead'
    <3> SUFFICES ASSUME NEW i \in 1..Len(responses'), responses'[i].kind = "frame"
                 PROVE  Len(delivered) + i <= got
      BY <1>1, <2>3 DEF QueuedWasRead
    <3>1. CASE i \in 1..Len(responses)
      BY <2>3, <3>1 DEF QueuedWasRead
    <3>2. CASE i = Len(responses')
      <4>1. got = Len(delivered) + i
        BY <2>2, <2>3, <3>2 DEF Answered, End, Failure
      <4> QED BY <2>3, <4>1
    <3> QED BY <2>3, <3>1, <3>2
  <2> QED BY <2>4, <2>5, <2>6, <2>7, <2>8
<1> QED BY <1>2, <1>3

\* The inductive invariant holds in every state.
THEOREM AnswersInvariant == Spec => []IInv
<1>1. Init => IInv
  BY ExecAssumption DEF Init, IInv, FramesInOrder, ReaderPosition,
                        EndIsComplete, ExitLast,
         QueuedWasRead, OneStarter, NoVerdict, Answered, NoItem, End, Complete
<1>2. TypeOK /\ IInv /\ [Next]_vars => IInv'
  <2> SUFFICES ASSUME TypeOK, IInv, [Next]_vars PROVE IInv'
    OBVIOUS
  <2> USE DEF TypeOK
  <2>1. Answers /\ OneStarter
    BY DEF IInv, Answers
  <2>2. ASSUME Quiet PROVE Answers'
    BY <2>1, <2>2, QuietKeepsAnswers
  <2>3. ASSUME NEW t \in Threads, CallNext(t) \/ StartReader(t) PROVE Answers'
    BY <2>1, <2>3, StartKeepsAnswers
  <2>4. ASSUME NEW t \in Threads, GetItem(t) PROVE Answers'
    BY <2>1, <2>4, GetKeepsAnswers
  <2>5. ASSUME Reader PROVE Answers'
    BY <2>1, <2>5, HoldKeepsAnswers, PutKeepsAnswers DEF Reader
  <2>6. ASSUME SendFrame PROVE Answers'
    BY <2>1, <2>6, SendKeepsAnswers
  <2>7. Answers'
    BY <2>2, <2>3, <2>4, <2>5, <2>6, QuietOrLoud DEF Loud
  <2>8. OneStarter'
    BY <2>1, StarterAlone
  <2> QED BY <2>7, <2>8 DEF Answers, IInv
<1> QED BY <1>1, <1>2, TypeCorrect, PTL DEF Spec

\* For any number of threads and any queue sizes, iterating a session answers
\* the frames in order, each once, with nothing after the verdict.
THEOREM DeliveryInOrder == Spec => []DeliveredInOrder
<1>1. TypeOK /\ IInv => DeliveredInOrder
  BY DEF IInv, FramesInOrder, DeliveredInOrder, Frame, End, Failure
<1> QED BY <1>1, TypeCorrect, AnswersInvariant, PTL

\* StopIteration is raised only after every frame was answered.
THEOREM StopIsLast == Spec => []StopAfterAll
<1>1. IInv => StopAfterAll
  <2> SUFFICES ASSUME IInv, NEW i \in DOMAIN delivered, delivered[i].kind = "end"
               PROVE  i - 1 = Len(sent) /\ (stream = "ok" \/ ExitSent)
    BY DEF StopAfterAll
  <2>1. delivered[i] = End
    BY DEF IInv, FramesInOrder, Frame, Failure
  <2> QED BY <2>1 DEF IInv, EndIsComplete, Complete
<1> QED BY <1>1, AnswersInvariant, PTL

\* ExecSession implements ExecEvents: every step of a session is, for the
\* iterating code, a step of the event stream or no step.
THEOREM SessionImplementsEvents == Spec => ImplementsEvents
<1> USE DEF Events!vars
<1>1. Init => Events!Init
  BY DEF Init, Events!Init
<1>2. TypeOK /\ IInv /\ [Next]_vars => [Events!Next]_(Events!vars)
  <2> SUFFICES ASSUME TypeOK, IInv, [Next]_vars
               PROVE  Events!Next \/ UNCHANGED Events!vars
    OBVIOUS
  <2>1. ASSUME UNCHANGED <<sent, delivered, stream>> PROVE UNCHANGED Events!vars
    BY <2>1
  <2>2. CASE Quiet
    <3>1. CASE (stream = "ok") <=> (stream' = "ok")
      BY <2>2, <3>1 DEF Quiet, answerVars
    <3>2. CASE stream # "ok" /\ stream' = "ok"
      BY <2>2, <3>2 DEF Quiet, answerVars, Events!Next, Events!Finish
    <3> QED BY <2>2, <3>1, <3>2 DEF Quiet
  <2>3. ASSUME NEW t \in Threads, CallNext(t) \/ StartReader(t)
        PROVE  UNCHANGED Events!vars
    BY <2>1, <2>3 DEF CallNext, StartReader, remoteVars
  <2>4. CASE Reader
    BY <2>1, <2>4 DEF Reader, ReadFrame, ReadEnd, ReadError, CheckFlags,
                      PutResponse, MarkTerminal, MarkPut, remoteVars, callVars
  <2>5. CASE SendFrame
    <3>1. /\ UNCHANGED <<delivered, stream>> /\ stream # "ok" /\ ~ExitSent
          /\ \E k \in FrameKinds : sent' = Append(sent, k)
      BY <2>5 DEF SendFrame, callVars
    <3>2. Events!Produce
      BY <3>1 DEF Events!Produce, Events!Exited, ExitSent
    <3> QED BY <3>2 DEF Events!Next
  <2>6. ASSUME NEW t \in Threads, GetItem(t) PROVE Events!Next
    <3>1. /\ UNCHANGED <<sent, stream>> /\ responses # <<>>
          /\ delivered' = Append(delivered, responses[1])
      BY <2>6 DEF GetItem, remoteVars
    <3>2. 1 \in DOMAIN responses /\ delivered \in Seq(Items) /\ got \in 0..Len(sent)
          /\ Len(delivered) \in Nat
      BY <3>1 DEF TypeOK, ResponsesOK, CallsOK
    <3>3. ~Events!Over
      BY <3>1 DEF Events!Over, IInv, FramesInOrder, Frame
    <3>4. CASE responses[1] = Frame(Len(delivered) + 1)
      <4>1. Len(delivered) + 1 <= got
        BY <3>2, <3>4 DEF IInv, QueuedWasRead, Frame
      <4>2. Len(delivered) < Len(sent)
        BY <3>2, <4>1 DEF TypeOK, RemoteOK
      <4>3. Events!Deliver
        BY <3>1, <3>3, <3>4, <4>2 DEF Events!Deliver, Events!Frame, Frame
      <4> QED BY <4>3 DEF Events!Next
    <3>5. CASE responses[1] = End
      <4>1. Complete(Len(delivered) + 1 - 1)
        BY <3>2, <3>5 DEF IInv, EndIsComplete
      <4>2. Len(delivered) = Len(sent) /\ (stream = "ok" \/ ExitSent)
        BY <3>2, <4>1 DEF Complete
      <4>3. Events!Stop
        BY <3>1, <3>3, <3>5, <4>2 DEF Events!Stop, Events!Exited, Events!End, End,
                                      ExitSent
      <4> QED BY <4>3 DEF Events!Next
    <3>6. CASE responses[1] = Failure
      BY <3>1, <3>3, <3>6 DEF Events!Next, Events!Fail, Events!Failure, Failure
    <3> QED BY <3>2, <3>4, <3>5, <3>6 DEF IInv, FramesInOrder
  <2> QED BY <2>2, <2>3, <2>4, <2>5, <2>6, QuietOrLoud DEF Loud
<1> QED BY <1>1, <1>2, TypeCorrect, AnswersInvariant, PTL
        DEF Spec, ImplementsEvents, Events!Spec

-----------------------------------------------------------------------------
(* The verdict: VerdictQueued is inductive.                                  *)

\* What next() answers was queued: answering moves nothing in what was told.
LEMMA MoveHead ==
  ASSUME NEW S, NEW q \in Seq(S), NEW r \in Seq(S), r # <<>>
  PROVE  Append(q, Head(r)) \o Tail(r) = q \o r
OBVIOUS

\* The last of a sequence with one item put behind it.
LEMMA LastOfAppended ==
  ASSUME NEW S, NEW q \in Seq(S), NEW r \in Seq(S), NEW x \in S
  PROVE  LET told == q \o Append(r, x)
         IN  told # <<>> /\ told[Len(told)] = x
OBVIOUS

\* A step that is not the reader's tells nothing, leaves the reader alone or
\* starts it, and may set _cancelled but not _closed.
LEMMA OthersTellNothing ==
  ASSUME TypeOK, OneStarter, [Next]_vars, ~Reader
  PROVE  /\ Told' = Told
         /\ reader' = reader
            \/ {reader, reader'} \subseteq {"unstarted", "starting", "reading"}
         /\ closed' = closed
         /\ cancelled' = cancelled \/ cancelled'
<1> DEFINE Kept == /\ UNCHANGED responseVars /\ delivered' = delivered
                   /\ closed' = closed
                   /\ cancelled' = cancelled \/ cancelled'
<1> USE DEF Told, responseVars, flagVars, callVars
<1>1. ASSUME NEW t \in Threads, Write(t) \/ Resize(t) \/ CloseStdin(t) \/ Put(t)
      PROVE  Kept
  BY <1>1 DEF Write, Resize, SubmitInput, CloseStdin, Put
<1>2. ASSUME NEW t \in Threads, Cancel(t) \/ NextTimesOut(t) PROVE Kept
  BY <1>2 DEF Cancel, NextTimesOut, EnterCancel
<1>3. ASSUME NEW t \in Threads, CancelNext(t) \/ WaitForItem(t) PROVE Kept
  BY <1>3 DEF CancelNext, CancelBranch, PutCancel, WaitCancel, PutEnd, Cleanup,
              Join, WaitForItem
<1>4. CASE UNCHANGED vars
  BY <1>4 DEF vars
<1>5. CASE TakeRequest \/ EndRequests \/ Remote \/ Expire
  BY <1>5 DEF TakeRequest, EndRequests, Remote, SendFrame, StreamEnds,
              StreamExpires, Expire
<1>6. ASSUME NEW t \in Threads, CallNext(t) \/ StartReader(t)
      PROVE  /\ UNCHANGED <<responses, delivered, closed, cancelled>>
             /\ \/ reader' = reader
                \/ {reader, reader'} \subseteq {"unstarted", "starting", "reading"}
  BY <1>6 DEF CallNext, StartReader, OneStarter
<1>7. ASSUME NEW t \in Threads, GetItem(t)
      PROVE  Told' = Told /\ UNCHANGED <<reader, closed, cancelled>>
  <2>1. delivered \in Seq(Items) /\ responses \in Seq(Items)
    BY DEF TypeOK, ResponsesOK, CallsOK
  <2>2. /\ responses # <<>> /\ UNCHANGED <<reader, closed, cancelled>>
        /\ delivered' = Append(delivered, Head(responses))
        /\ responses' = Tail(responses)
    BY <1>7 DEF GetItem
  <2> QED BY <2>1, <2>2, MoveHead
<1> QED BY <1>1, <1>2, <1>3, <1>4, <1>5, <1>6, <1>7 DEF Next, Calls, Continue

\* The reader tells its item last, and ends or closes the session after End.
LEMMA ReaderKeepsVerdict ==
  ASSUME TypeOK, VerdictQueued, Reader
  PROVE  VerdictQueued'
<1> USE DEF VerdictQueued, FinalAnswer, flagVars, callVars, remoteVars
<1>1. CASE ReadFrame \/ ReadEnd \/ ReadError
  <2>1. /\ UNCHANGED <<responses, delivered, closed, cancelled>>
        /\ reader = "reading" /\ reader' \in {"checking", "done"}
        /\ reader' = "done" => Shut
    BY <1>1 DEF ReadFrame, ReadEnd, ReadError
  <2> QED BY <2>1 DEF Told, Shut
<1>2. CASE CheckFlags
  <2>1. /\ UNCHANGED <<responses, delivered, closed, cancelled>>
        /\ reader = "checking" /\ reader' \in {"putting", "marking", "reading", "done"}
        /\ reader' # "putting" => Shut
    BY <1>2 DEF CheckFlags, AfterPut
  <2> QED BY <2>1 DEF Told, Shut
<1>3. CASE PutResponse
  <2>1. UNCHANGED <<delivered, closed, cancelled>> /\ reader = "putting"
    BY <1>3 DEF PutResponse
  <2>2. CASE reader' = "checking"
    BY <2>1, <2>2
  <2>3. CASE reader' = "reading"
    BY <2>1, <2>3
  <2>4. CASE reader' \notin {"checking", "reading"}
    <3>1. /\ responses' = Append(responses, held)
          /\ \/ reader' = "marking" /\ held = End
             \/ reader' = "done" /\ held.kind # "frame"
      BY <1>3, <2>4 DEF PutResponse, AfterPut
    <3>2. Told' # <<>> /\ Told'[Len(Told')] = held
      BY <2>1, <3>1, LastOfAppended DEF Told, TypeOK, ResponsesOK, CallsOK
    <3> QED BY <2>1, <3>1, <3>2
  <2> QED BY <2>2, <2>3, <2>4
<1>4. CASE MarkTerminal
  <2>1. /\ UNCHANGED <<responses, delivered, cancelled>> /\ closed'
        /\ reader = "marking" /\ reader' = "markPut"
    BY <1>4 DEF MarkTerminal
  <2> QED BY <2>1 DEF Told
<1>5. CASE MarkPut
  <2>1. /\ UNCHANGED <<responses, delivered, closed, cancelled>>
        /\ reader = "markPut" /\ reader' = "done"
    BY <1>5 DEF MarkPut
  <2> QED BY <2>1 DEF Told, End
<1> QED BY <1>1, <1>2, <1>3, <1>4, <1>5 DEF Reader

\* A session that was not cancelled has its verdict queued when it is closed or
\* its reader has ended.
THEOREM VerdictInvariant == Spec => []VerdictQueued
<1>1. Init => VerdictQueued
  BY DEF Init, VerdictQueued, FinalAnswer
<1>2. TypeOK /\ OneStarter /\ VerdictQueued /\ [Next]_vars => VerdictQueued'
  <2> SUFFICES ASSUME TypeOK, OneStarter, VerdictQueued, [Next]_vars, ~Reader
               PROVE  VerdictQueued'
    BY ReaderKeepsVerdict
  <2>1. /\ Told' = Told
        /\ reader' = reader
           \/ {reader, reader'} \subseteq {"unstarted", "starting", "reading"}
        /\ closed' = closed
        /\ cancelled' = cancelled \/ cancelled'
    BY OthersTellNothing
  <2> QED BY <2>1 DEF VerdictQueued, FinalAnswer
<1>3. IInv => OneStarter
  BY DEF IInv
<1> QED BY <1>1, <1>2, <1>3, TypeCorrect, AnswersInvariant, PTL DEF Spec

\* The reader of a session nobody cancelled ends only after a final answer.
THEOREM FinalAnswerComes == Spec => []FinalAnswer
<1>1. VerdictQueued => FinalAnswer
  BY DEF VerdictQueued
<1> QED BY <1>1, VerdictInvariant, PTL

\* A session that closed itself has the exit frame and the end marker queued.
THEOREM ClosedIsComplete == Spec => []ClosedMeansComplete
<1>1. VerdictQueued => ClosedMeansComplete
  BY DEF VerdictQueued, ClosedMeansComplete
<1> QED BY <1>1, VerdictInvariant, PTL

-----------------------------------------------------------------------------
(* The cancel frame: OneCanceller is inductive.                               *)

\* An item put behind the request frames asks for nothing new unless it is the
\* cancel frame.
LEMMA AskedGrows ==
  ASSUME RequestsOK, NEW x \in RequestItems, wire' = wire,
         requests' = Append(requests, x)
  PROVE  /\ NoCancelAsked /\ x # "cancel" => NoCancelAsked'
         /\ OneCancelFrame /\ x # "cancel" => OneCancelFrame'
         /\ NoCancelAsked => OneCancelFrame'
<1>1. /\ Asked \in Seq(RequestItems) /\ Asked' = Append(Asked, x)
  BY DEF RequestsOK, Asked
<1>2. /\ Len(Asked') = Len(Asked) + 1 /\ Asked'[Len(Asked')] = x
      /\ \A i \in 1..Len(Asked) : Asked'[i] = Asked[i]
      /\ DOMAIN Asked = 1..Len(Asked) /\ DOMAIN Asked' = 1..Len(Asked')
      /\ Len(Asked) \in Nat
  BY <1>1
<1>3. \A i \in DOMAIN Asked' : i \in DOMAIN Asked \/ i = Len(Asked')
  BY <1>2
<1> QED BY <1>2, <1>3 DEF NoCancelAsked, OneCancelFrame

\* gRPC takes the first frame: it goes on the wire or is dropped.
LEMMA AskedMoves ==
  ASSUME RequestsOK, requests # <<>>, requests' = Tail(requests),
         wire' = wire \/ wire' = Append(wire, Head(requests))
  PROVE  /\ NoCancelAsked => NoCancelAsked'
         /\ OneCancelFrame => OneCancelFrame'
<1>1. CASE wire' = Append(wire, Head(requests))
  <2>1. Asked' = Asked
    BY <1>1, MoveHead DEF RequestsOK, Asked
  <2> QED BY <2>1 DEF NoCancelAsked, OneCancelFrame
<1>2. CASE wire' = wire
  <2> DEFINE k == Len(wire) + 1
             old(i) == IF i < k THEN i ELSE i + 1
  <2>1. \A i \in DOMAIN Asked' : /\ i \in Nat /\ old(i) \in DOMAIN Asked
                                 /\ Asked'[i] = Asked[old(i)]
    <3>1. /\ DOMAIN Asked' = 1..(Len(wire) + Len(requests) - 1)
          /\ DOMAIN Asked = 1..(Len(wire) + Len(requests))
          /\ Len(wire) \in Nat /\ Len(requests) \in Nat
      BY <1>2 DEF RequestsOK, Asked
    <3>2. \A i \in DOMAIN Asked' : i < k => Asked'[i] = wire[i] /\ Asked[i] = wire[i]
      BY <1>2 DEF RequestsOK, Asked
    <3>3. \A i \in DOMAIN Asked' :
            i >= k => /\ Asked'[i] = requests[i - Len(wire) + 1]
                      /\ Asked[i + 1] = requests[i + 1 - Len(wire)]
      BY <1>2 DEF RequestsOK, Asked
    <3>4. \A i \in DOMAIN Asked' : i \in Nat /\ old(i) \in DOMAIN Asked
      BY <3>1
    <3>5. \A i \in DOMAIN Asked' : i >= k => i - Len(wire) + 1 = i + 1 - Len(wire)
      BY <3>1
    <3> SUFFICES ASSUME NEW i \in DOMAIN Asked'
                 PROVE  Asked'[i] = Asked[old(i)]
      BY <3>4
    <3>6. CASE i < k
      BY <3>2, <3>6
    <3>7. CASE ~(i < k)
      BY <3>1, <3>3, <3>5, <3>7
    <3> QED BY <3>6, <3>7
  <2>2. \A i, j \in DOMAIN Asked' : old(i) = old(j) => i = j
    BY <2>1 DEF RequestsOK
  <2> HIDE DEF old
  <2> QED BY <2>1, <2>2 DEF NoCancelAsked, OneCancelFrame
<1> QED BY <1>1, <1>2

\* What is kept of the requests was there before.
LEMMA KeptWasThere ==
  ASSUME RequestsOK, NEW places \in SUBSET DOMAIN requests,
         NEW kept \in Keeping(places)
  PROVE  /\ kept \in Seq(RequestItems)
         /\ \A i \in DOMAIN kept : \E j \in DOMAIN requests : kept[i] = requests[j]
<1>1. kept \in Seq(RequestItems)
  BY KeepingType DEF RequestsOK
<1>2. PICK g \in [1..Cardinality(places) -> places] :
        kept = [i \in DOMAIN g |-> requests[g[i]]]
  BY DEF Keeping
<1>3. \A i \in DOMAIN kept : kept[i] = requests[g[i]] /\ g[i] \in DOMAIN requests
  BY <1>2
<1> QED BY <1>1, <1>3

\* The cancel frame is put where there was none.
LEMMA CancelIsPut ==
  ASSUME TypeOK, NoCancelAsked, NEW t \in Threads, PutCancel(t) \/ WaitCancel(t)
  PROVE  OneCancelFrame' /\ (Cancelling(t)' => NoCancelAsked')
<1> USE DEF TypeOK, RequestsOK
<1>1. ASSUME NEW kept \in Seq(RequestItems), wire' = wire,
             \A i \in DOMAIN kept : \E j \in DOMAIN requests : kept[i] = requests[j]
      PROVE  /\ requests' = kept => NoCancelAsked' /\ OneCancelFrame'
             /\ requests' = Append(kept, "cancel") => OneCancelFrame'
  <2> DEFINE q == wire \o kept
  <2>1. q \in Seq(RequestItems)
    OBVIOUS
  <2>2. \A i \in DOMAIN q : q[i] # "cancel"
    <3>1. \A i \in DOMAIN wire : Asked[i] = wire[i] /\ i \in DOMAIN Asked
      BY DEF Asked
    <3>2. \A j \in DOMAIN requests :
            /\ Asked[Len(wire) + j] = requests[j]
            /\ Len(wire) + j \in DOMAIN Asked
      BY DEF Asked
    <3>3. \A i \in DOMAIN q : \/ i \in DOMAIN wire /\ q[i] = wire[i]
                             \/ /\ i - Len(wire) \in DOMAIN kept
                                /\ q[i] = kept[i - Len(wire)]
      OBVIOUS
    <3>4. \A i \in DOMAIN wire : wire[i] # "cancel"
      BY <3>1 DEF NoCancelAsked
    <3>5. \A j \in DOMAIN requests : requests[j] # "cancel"
      BY <3>2 DEF NoCancelAsked
    <3>6. \A i \in DOMAIN kept : kept[i] # "cancel"
      BY <1>1, <3>5
    <3> HIDE DEF q
    <3> QED BY <3>3, <3>4, <3>6
  <2>3. CASE requests' = kept
    <3>1. Asked' = q
      BY <1>1, <2>3 DEF Asked
    <3> HIDE DEF q
    <3> QED BY <2>2, <2>3, <3>1 DEF NoCancelAsked, OneCancelFrame
  <2>4. CASE requests' = Append(kept, "cancel")
    <3>1. Asked' = Append(q, "cancel")
      BY <1>1, <2>4 DEF Asked
    <3> HIDE DEF q
    <3>2. \A i \in DOMAIN Asked' : (i \in DOMAIN q /\ Asked'[i] = q[i]) \/ i = Len(q) + 1
      BY <2>1, <3>1
    <3>3. OneCancelFrame'
      BY <2>2, <3>2 DEF OneCancelFrame
    <3>4. Len(requests') = Len(kept) + 1
      BY <2>4
    <3> QED BY <3>3, <3>4
  <2> QED BY <2>3, <2>4
<1>2. CASE PutCancel(t)
  <2> DEFINE places == {i \in DOMAIN requests : requests[i] # "halfClose"}
  <2>1. PICK kept \in Keeping(places) :
          \/ requests' = Append(kept, "cancel") /\ pc' = [pc EXCEPT ![t] = "putEnd"]
          \/ requests' = kept
    BY <1>2 DEF PutCancel, Goto
  <2>2. /\ kept \in Seq(RequestItems)
        /\ \A i \in DOMAIN kept : \E j \in DOMAIN requests : kept[i] = requests[j]
    BY KeptWasThere
  <2>3. wire' = wire
    BY <1>2 DEF PutCancel
  <2>4. /\ requests' = kept => NoCancelAsked' /\ OneCancelFrame'
        /\ requests' = Append(kept, "cancel") => OneCancelFrame'
    BY <1>1, <2>2, <2>3
  <2>5. pc' = [pc EXCEPT ![t] = "putEnd"] => ~Cancelling(t)'
    BY DEF Cancelling, CallsOK
  <2> QED BY <2>1, <2>4, <2>5
<1>3. CASE WaitCancel(t)
  <2>1. /\ wire' = wire /\ pc' = [pc EXCEPT ![t] = "putEnd"]
        /\ requests' = requests \/ requests' = Append(requests, "cancel")
    BY <1>3 DEF WaitCancel, PutOrDrop, Goto
  <2>2. ~Cancelling(t)'
    BY <2>1 DEF Cancelling, CallsOK
  <2> QED BY <1>1, <2>1, <2>2
<1> QED BY <1>2, <1>3

\* Only the cancel frame's own steps ask to cancel.
LEMMA OthersAskNothing ==
  ASSUME TypeOK, [Next]_vars, \A t \in Threads : ~PutCancel(t) /\ ~WaitCancel(t)
  PROVE  /\ NoCancelAsked => NoCancelAsked'
         /\ OneCancelFrame => OneCancelFrame'
<1> DEFINE Kept == /\ NoCancelAsked => NoCancelAsked'
                   /\ OneCancelFrame => OneCancelFrame'
<1> USE DEF requestVars
<1>1. ASSUME UNCHANGED <<wire, requests>> PROVE Kept
  BY <1>1 DEF NoCancelAsked, OneCancelFrame, Asked
<1>2. ASSUME NEW x \in {"stdin", "resize", "halfClose", "end"}, wire' = wire,
             requests' = Append(requests, x)
      PROVE  Kept
  BY <1>2, AskedGrows DEF TypeOK, RequestItems, InputFrames, Sentinels
<1>3. ASSUME NEW t \in Threads, Calls(t) PROVE Kept
  BY <1>1, <1>3 DEF Calls, Write, Resize, SubmitInput, CloseStdin, Cancel,
                    CallNext
<1>4. ASSUME NEW t \in Threads, Put(t) \/ PutEnd(t) PROVE Kept
  BY <1>1, <1>2, <1>4 DEF Put, InputFrames, PutEnd, PutOrDrop
<1>5. ASSUME NEW t \in Threads, CancelBranch(t) \/ Cleanup(t) \/ Join(t) PROVE Kept
  BY <1>1, <1>5 DEF CancelBranch, Cleanup, Join
<1>6. ASSUME NEW t \in Threads,
             StartReader(t) \/ WaitForItem(t) \/ GetItem(t) \/ NextTimesOut(t)
      PROVE  Kept
  BY <1>1, <1>6 DEF StartReader, WaitForItem, GetItem, NextTimesOut
<1>7. CASE Reader
  BY <1>1, <1>2, <1>7 DEF Reader, ReadFrame, ReadEnd, ReadError, CheckFlags,
                          PutResponse, MarkTerminal, MarkPut, PutOrDrop
<1>8. CASE TakeRequest
  BY <1>8, AskedMoves DEF TakeRequest, TypeOK
<1>9. CASE EndRequests \/ Remote \/ Expire \/ UNCHANGED vars
  BY <1>1, <1>9 DEF EndRequests, Remote, SendFrame, StreamEnds, StreamExpires,
                    Expire, vars
<1> QED BY <1>3, <1>4, <1>5, <1>6, <1>7, <1>8, <1>9
        DEF Next, Continue, CancelNext

\* A thread begins to cancel only at a session that is open, which it shuts, and
\* goes on only by itself.
LEMMA CancellersChange ==
  ASSUME TypeOK, [Next]_vars
  PROVE  /\ Shut => Shut'
         /\ \/ \A u \in Threads : Cancelling(u)' => Cancelling(u)
            \/ ~Shut /\ Shut'
               /\ \E t \in Threads : \A u \in Threads :
                     u # t /\ Cancelling(u)' => Cancelling(u)
         /\ \A t \in Threads : PutCancel(t) \/ WaitCancel(t) => Cancelling(t)
<1> USE DEF Cancelling, Goto, TypeOK, CallsOK, flagVars, callVars, Shut
<1> DEFINE Kept == /\ Shut => Shut'
                   /\ \A u \in Threads : Cancelling(u)' => Cancelling(u)
<1>1. ASSUME NEW t \in Threads,
             Write(t) \/ Resize(t) \/ CloseStdin(t) \/ CallNext(t)
      PROVE Kept
  BY <1>1 DEF Write, Resize, SubmitInput, CloseStdin, CallNext
<1>2. ASSUME NEW t \in Threads, Cancel(t) \/ NextTimesOut(t)
      PROVE  \/ Kept
             \/ /\ ~Shut /\ Shut'
                /\ \A u \in Threads : u # t /\ Cancelling(u)' => Cancelling(u)
  BY <1>2 DEF Cancel, NextTimesOut, EnterCancel
<1>3. ASSUME NEW t \in Threads, CancelNext(t) PROVE Kept
  <2>1. CASE PutCancel(t)
    <3>1. /\ pc[t] = "putCancel" /\ UNCHANGED <<closed, cancelled>>
          /\ \/ pc' = [pc EXCEPT ![t] = "putEnd"]
             \/ pc' = [pc EXCEPT ![t] = "waitCancel"]
      BY <2>1 DEF PutCancel
    <3> QED BY <3>1
  <2>2. CASE ~PutCancel(t)
    BY <1>3, <2>2 DEF CancelNext, CancelBranch, WaitCancel, PutEnd, Cleanup, Join
  <2> QED BY <2>1, <2>2
<1>4. ASSUME NEW t \in Threads,
             Put(t) \/ StartReader(t) \/ WaitForItem(t) \/ GetItem(t)
      PROVE  Kept
  BY <1>4 DEF Put, StartReader, WaitForItem, GetItem
<1>5. pc' = pc /\ (closed' = closed \/ closed' = TRUE) /\ cancelled' = cancelled => Kept
  OBVIOUS
<1>6. ASSUME Reader PROVE Kept
  <2>1. pc' = pc /\ (closed' = closed \/ closed' = TRUE) /\ cancelled' = cancelled
    BY <1>6 DEF Reader, ReadFrame, ReadEnd, ReadError, CheckFlags, PutResponse,
                MarkTerminal, MarkPut
  <2> QED BY <1>5, <2>1
<1>7. ASSUME TakeRequest \/ EndRequests \/ Remote \/ Expire \/ UNCHANGED vars
      PROVE  Kept
  <2>1. pc' = pc /\ closed' = closed /\ cancelled' = cancelled
    BY <1>7 DEF TakeRequest, EndRequests, Remote, SendFrame, StreamEnds,
                StreamExpires, Expire, vars
  <2> QED BY <1>5, <2>1
<1>8. \A t \in Threads : PutCancel(t) \/ WaitCancel(t) => Cancelling(t)
  BY DEF PutCancel, WaitCancel
<1> QED BY <1>1, <1>2, <1>3, <1>4, <1>6, <1>7, <1>8 DEF Next, Calls, Continue

Once == OneCanceller /\ OneCancelFrame

LEMMA CancellersInvariant == Spec => []Once
<1>1. Init => Once
  <2> SUFFICES ASSUME Init PROVE Once
    OBVIOUS
  <2>1. \A i \in DOMAIN Asked : Asked[i] = "start" /\ i = 1
    BY DEF Init, Asked
  <2> QED BY <2>1 DEF Once, Init, OneCanceller, OneCancelFrame, NoCancelAsked,
                      Cancelling
<1>2. TypeOK /\ Once /\ [Next]_vars => Once'
  <2> SUFFICES ASSUME TypeOK, Once, [Next]_vars PROVE Once'
    OBVIOUS
  <2> USE DEF Once
  <2>1. /\ Shut => Shut'
        /\ \/ \A u \in Threads : Cancelling(u)' => Cancelling(u)
           \/ ~Shut /\ Shut'
              /\ \E t \in Threads : \A u \in Threads :
                    u # t /\ Cancelling(u)' => Cancelling(u)
        /\ \A t \in Threads : PutCancel(t) \/ WaitCancel(t) => Cancelling(t)
    BY CancellersChange
  <2>2. CASE \E t \in Threads : PutCancel(t) \/ WaitCancel(t)
    <3>1. PICK t \in Threads : PutCancel(t) \/ WaitCancel(t)
      BY <2>2
    <3>2. Shut /\ NoCancelAsked /\ \A u \in Threads : Cancelling(u) => u = t
      BY <2>1, <3>1 DEF OneCanceller
    <3>3. OneCancelFrame' /\ (Cancelling(t)' => NoCancelAsked')
      BY <3>1, <3>2, CancelIsPut
    <3> HIDE DEF Cancelling, NoCancelAsked, Shut
    <3>4. OneCanceller'
      BY <2>1, <3>2, <3>3 DEF OneCanceller
    <3> QED BY <3>3, <3>4
  <2>3. CASE \A t \in Threads : ~PutCancel(t) /\ ~WaitCancel(t)
    <3>1. /\ NoCancelAsked => NoCancelAsked'
          /\ OneCancelFrame => OneCancelFrame'
      BY <2>3, OthersAskNothing
    <3>2. OneCanceller'
      BY <2>1, <3>1 DEF OneCanceller
    <3> QED BY <3>1, <3>2
  <2> QED BY <2>2, <2>3
<1> QED BY <1>1, <1>2, TypeCorrect, PTL DEF Spec

\* However many threads cancel, the cancel frame is put at most once.
THEOREM CancelIsAskedOnce == Spec => []OneCancelFrame
<1>1. Once => OneCancelFrame
  BY DEF Once
<1> QED BY <1>1, CancellersInvariant, PTL

-----------------------------------------------------------------------------
(* The remote command: when close() cancels it.                              *)

\* While the remote side is still to be asked: nobody has passed the cancel frame, the
\* requests have no end, and who asks finds the generator at work.
Asking(t) == pc[t] \in {"putCancel", "waitCancel"}
NotAsked ==
    /\ ~cancelReturned /\ \A t \in Threads : pc[t] \notin {"putEnd", "cleanup", "join"}
    /\ \A i \in DOMAIN requests : requests[i] # "end"
    /\ iter # "dropped" /\ \A t \in Threads : Asking(t) => iter = "run"

AskInv == /\ RemoteOver \/ CancelComes \/ NotAsked
          /\ reader \in {"marking", "markPut"} => RemoteOver

\* What is over stays over.
LEMMA OverStays == TypeOK /\ RemoteOver /\ [Next]_vars => RemoteOver'
<1> SUFFICES ASSUME TypeOK, RemoteOver, [Next]_vars PROVE RemoteOver'
  OBVIOUS
<1>1. sent' = sent \/ SendFrame
  BY DEF Next, Calls, Continue, Write, Resize, SubmitInput, CloseStdin, Cancel, CallNext, Put,
         CancelNext, CancelBranch, PutCancel, WaitCancel, PutEnd, Cleanup, Join, StartReader,
         WaitForItem, GetItem, NextTimesOut, Reader, ReadFrame, ReadEnd, ReadError, CheckFlags,
         PutResponse, MarkTerminal, MarkPut, TakeRequest, EndRequests, Remote, StreamEnds,
         StreamExpires, Expire, remoteVars, vars
<1>2. stream' = stream \/ stream' # "live"
  BY DEF Next, Calls, Continue, Write, Resize, SubmitInput, CloseStdin, Cancel, CallNext, Put,
         CancelNext, CancelBranch, PutCancel, WaitCancel, PutEnd, Cleanup, Join, StartReader,
         WaitForItem, GetItem, NextTimesOut, Reader, ReadFrame, ReadEnd, ReadError, CheckFlags,
         PutResponse, MarkTerminal, MarkPut, TakeRequest, EndRequests, Remote, SendFrame,
         StreamEnds, StreamExpires, Expire, CancelRpc, remoteVars, vars
<1> QED BY <1>1, <1>2 DEF SendFrame, RemoteOver, ExitSent

\* The reader marks the session closed after the exit frame only.
LEMMA MarksAfterExit ==
  ASSUME TypeOK, IInv, [Next]_vars, reader \in {"marking", "markPut"} => RemoteOver
  PROVE  reader' \in {"marking", "markPut"} => RemoteOver'
<1>1. RemoteOver => RemoteOver'
  BY OverStays
<1>2. CASE CheckFlags \/ PutResponse
  <2>1. reader' = "marking" => ExitRead
    BY <1>2 DEF CheckFlags, PutResponse, AfterPut
  <2>2. ExitRead => ExitSent
    BY DEF ExitRead, ExitSent, IInv, ExitLast, TypeOK, ResponsesOK, RemoteOK
  <2>3. reader' # "markPut"
    BY <1>2 DEF CheckFlags, PutResponse, AfterPut
  <2> QED BY <1>1, <2>1, <2>2, <2>3 DEF RemoteOver
<1>3. CASE reader' = reader \/ reader' \notin {"marking", "markPut"}
  BY <1>1, <1>3
<1>4. CASE MarkTerminal
  BY <1>1, <1>4 DEF MarkTerminal
<1>5. reader' \in {"marking", "markPut"} /\ reader' # reader
         => CheckFlags \/ PutResponse \/ MarkTerminal
  BY DEF Next, Calls, Continue, Write, Resize, SubmitInput, CloseStdin, Cancel, CallNext, Put,
         CancelNext, CancelBranch, PutCancel, WaitCancel, PutEnd, Cleanup, Join, StartReader,
         WaitForItem, GetItem, NextTimesOut, Reader, ReadFrame, ReadEnd, ReadError, MarkPut,
         TakeRequest, EndRequests, Remote, SendFrame, StreamEnds, StreamExpires, Expire,
         responseVars, vars
<1> QED BY <1>2, <1>3, <1>4, <1>5

\* Items put behind the requests leave the cancel frame where it is.
LEMMA ComesBehind ==
  ASSUME RequestsOK, CancelComes, NEW x \in RequestItems, UNCHANGED <<wire, iter>>,
         requests' = requests \/ requests' = Append(requests, x)
  PROVE  CancelComes'
<1>1. CASE \E i \in DOMAIN wire : wire[i] = "cancel"
  BY <1>1 DEF CancelComes
<1>2. CASE iter = "run" /\ \E i \in DOMAIN requests :
              /\ requests[i] = "cancel"
              /\ \A j \in 1..(i - 1) : requests[j] \notin Sentinels
  <2>1. PICK i \in DOMAIN requests :
              /\ requests[i] = "cancel"
              /\ \A j \in 1..(i - 1) : requests[j] \notin Sentinels
    BY <1>2
  <2>2. \A j \in DOMAIN requests : j \in DOMAIN requests' /\ requests'[j] = requests[j]
    BY DEF RequestsOK
  <2>3. \A j \in 1..(i - 1) : j \in DOMAIN requests
    BY DEF RequestsOK
  <2>4. iter' = "run"
    BY <1>2
  <2> QED BY <2>1, <2>2, <2>3, <2>4 DEF CancelComes
<1> QED BY <1>1, <1>2 DEF CancelComes

\* The cancel frame behind requests without an end comes.
LEMMA ComesNext ==
  ASSUME NEW q \in Seq(RequestItems), \A j \in DOMAIN q : q[j] \notin Sentinels,
         requests' = Append(q, "cancel"), iter' = "run"
  PROVE  CancelComes'
<1>1. /\ Len(q) + 1 \in DOMAIN requests' /\ requests'[Len(q) + 1] = "cancel"
      /\ \A j \in 1..((Len(q) + 1) - 1) : j \in DOMAIN q /\ requests'[j] = q[j]
  OBVIOUS
<1> QED BY <1>1 DEF CancelComes

\* gRPC takes the first request.
LEMMA ComesCloser ==
  ASSUME TypeOK, CancelComes, TakeRequest, stream = "live"
  PROVE  CancelComes'
<1> USE DEF TypeOK, RequestsOK
<1>1. /\ iter = "run" /\ requests # <<>> /\ requests' = Tail(requests)
      /\ Head(requests) \in Sentinels => wire' = wire
      /\ Head(requests) \notin Sentinels => wire' = Append(wire, Head(requests)) /\ iter' = iter
  BY DEF TakeRequest
<1>2. CASE \E i \in DOMAIN wire : wire[i] = "cancel"
  <2>1. \A i \in DOMAIN wire : i \in DOMAIN wire' /\ wire'[i] = wire[i]
    BY <1>1
  <2> QED BY <1>2, <2>1 DEF CancelComes
<1>3. ASSUME NEW i \in DOMAIN requests, requests[i] = "cancel",
             \A j \in 1..(i - 1) : requests[j] \notin Sentinels
      PROVE  CancelComes'
  <2>1. Head(requests) \notin Sentinels
    <3>1. i = 1 \/ 1 \in 1..(i - 1)
      OBVIOUS
    <3>2. Head(requests) = requests[1]
      BY <1>1
    <3> QED BY <1>3, <3>1, <3>2 DEF Sentinels
  <2>2. CASE i = 1
    <3>1. Len(wire) + 1 \in DOMAIN wire' /\ wire'[Len(wire) + 1] = "cancel"
      BY <1>1, <1>3, <2>1, <2>2
    <3> QED BY <3>1 DEF CancelComes
  <2>3. CASE i # 1
    <3>1. /\ i - 1 \in DOMAIN requests' /\ requests'[i - 1] = requests[i]
          /\ \A j \in 1..((i - 1) - 1) :
                j + 1 \in 1..(i - 1) /\ requests'[j] = requests[j + 1]
      BY <1>1, <2>3
    <3> QED BY <1>1, <1>3, <2>1, <3>1 DEF CancelComes
  <2> QED BY <2>2, <2>3
<1> QED BY <1>2, <1>3 DEF CancelComes

\* A call that puts nothing behind the cancel frame leaves what is still to be asked.
LEMMA AskStep ==
  ASSUME TypeOK, IInv, Once, AskInv, StdinSettled, [Next]_vars,
         \A t \in Threads : WaitCancel(t) => requests' # requests
  PROVE  AskInv'
<1> SUFFICES ASSUME ~RemoteOver, ~RemoteOver' PROVE CancelComes' \/ NotAsked'
  BY OverStays, MarksAfterExit DEF AskInv
<1>1. /\ RequestsOK /\ pc \in [Threads -> CallSteps] /\ stream = "live" /\ stream' = "live"
  BY DEF TypeOK, CallsOK, RemoteOver
<1>2. CancelComes => \A t \in Threads : ~Cancelling(t)
  <2>1. CancelComes => ~NoCancelAsked
    <3>1. \A i \in DOMAIN wire : Asked[i] = wire[i] /\ i \in DOMAIN Asked
      BY <1>1 DEF RequestsOK, Asked
    <3>2. \A j \in DOMAIN requests : /\ Asked[Len(wire) + j] = requests[j]
                                    /\ Len(wire) + j \in DOMAIN Asked
      BY <1>1 DEF RequestsOK, Asked
    <3> QED BY <3>1, <3>2 DEF CancelComes, NoCancelAsked
  <2> QED BY <2>1 DEF Once, OneCanceller
<1>3. CancelComes \/ NotAsked
  BY DEF AskInv
<1>4. ASSUME UNCHANGED <<requests, wire, iter, cancelReturned>>,
             \A t \in Threads : pc'[t] = pc[t]
                \/ pc'[t] \notin {"putEnd", "cleanup", "join", "putCancel", "waitCancel"}
      PROVE  CancelComes' \/ NotAsked'
  BY <1>3, <1>4 DEF CancelComes, NotAsked, Asking
<1>5. ASSUME NEW t \in Threads, Calls(t) PROVE CancelComes' \/ NotAsked'
  BY <1>1, <1>4, <1>5 DEF Calls, Write, Resize, SubmitInput, CloseStdin, Cancel, EnterCancel,
                          CallNext, Goto, requestVars
<1>6. ASSUME NEW t \in Threads, Put(t) PROVE CancelComes' \/ NotAsked'
  <2>1. /\ pc[t] \in {"stdin", "resize", "halfClose"} /\ pc' = [pc EXCEPT ![t] = "idle"]
        /\ requests' = requests \/ requests' = Append(requests, pc[t])
        /\ UNCHANGED <<iter, wire, cancelReturned>>
    BY <1>6 DEF Put, Goto, InputFrames
  <2>2. CASE CancelComes
    BY <1>1, <2>1, <2>2, ComesBehind DEF RequestItems, InputFrames, Sentinels
  <2>3. CASE NotAsked
    <3>1. \A i \in DOMAIN requests' :
             (i \in DOMAIN requests /\ requests'[i] = requests[i]) \/ requests'[i] = pc[t]
      BY <1>1, <2>1 DEF RequestsOK
    <3> QED BY <1>1, <2>1, <2>3, <3>1 DEF NotAsked, Asking
  <2> QED BY <1>3, <2>2, <2>3
<1>7. ASSUME NEW t \in Threads, CancelBranch(t) PROVE NotAsked'
  <2>1. Cancelling(t) /\ NotAsked
    BY <1>2, <1>3, <1>7 DEF CancelBranch, Cancelling
  <2>2. ~RequestEnded /\ pc' = [pc EXCEPT ![t] = "putCancel"]
        /\ UNCHANGED <<requests, iter, cancelReturned>>
    BY <1>1, <1>7 DEF CancelBranch, CancelRpc, Goto, requestVars
  <2>3. iter = "run"
    BY <1>1, <2>1, <2>2 DEF NotAsked, RequestEnded, RequestsOK, StdinSettled, HalfClosing
  <2> QED BY <1>1, <2>1, <2>2, <2>3 DEF NotAsked, Asking
<1>8. ASSUME NEW t \in Threads, PutCancel(t) \/ WaitCancel(t)
      PROVE  CancelComes' \/ NotAsked'
  <2>1. Cancelling(t) /\ NotAsked /\ iter = "run"
    BY <1>2, <1>3, <1>8 DEF PutCancel, WaitCancel, Cancelling, NotAsked, Asking
  <2>2. \A i \in DOMAIN requests : requests[i] \notin Sentinels
    BY <2>1 DEF NotAsked, StdinSettled, HalfClosing, Sentinels
  <2>3. UNCHANGED <<iter, wire, cancelReturned>>
    BY <1>8 DEF PutCancel, WaitCancel
  <2>4. CASE WaitCancel(t)
    <3>1. requests' = Append(requests, "cancel")
      BY <2>4 DEF WaitCancel, PutOrDrop
    <3> QED BY <1>1, <2>1, <2>2, <2>3, <3>1, ComesNext DEF RequestsOK
  <2>5. CASE PutCancel(t)
    <3> DEFINE places == {i \in DOMAIN requests : requests[i] # "halfClose"}
    <3>1. PICK kept \in Keeping(places) :
            \/ requests' = Append(kept, "cancel")
            \/ requests' = kept /\ pc' = [pc EXCEPT ![t] = "waitCancel"]
      BY <2>5 DEF PutCancel, Goto
    <3>2. /\ kept \in Seq(RequestItems)
          /\ \A i \in DOMAIN kept : \E j \in DOMAIN requests : kept[i] = requests[j]
      BY <1>1, KeptWasThere
    <3>3. \A i \in DOMAIN kept : kept[i] \notin Sentinels
      BY <2>2, <3>2
    <3>4. CASE requests' = Append(kept, "cancel")
      BY <2>1, <2>3, <3>2, <3>3, <3>4, ComesNext
    <3>5. CASE requests' = kept /\ pc' = [pc EXCEPT ![t] = "waitCancel"]
      BY <1>1, <2>1, <2>3, <3>3, <3>5 DEF NotAsked, Asking, Sentinels
    <3> QED BY <3>1, <3>4, <3>5
  <2> QED BY <1>8, <2>4, <2>5
<1>9. ASSUME NEW t \in Threads, PutEnd(t) \/ Cleanup(t) \/ Join(t) PROVE CancelComes'
  <2>1. CancelComes
    BY <1>3, <1>9 DEF PutEnd, Cleanup, Join, NotAsked
  <2>2. /\ requests' = requests \/ requests' = Append(requests, "end")
        /\ UNCHANGED <<iter, wire>>
    BY <1>9 DEF PutEnd, PutOrDrop, Cleanup, Join, requestVars
  <2> QED BY <1>1, <2>1, <2>2, ComesBehind DEF RequestItems, Sentinels
<1>10. ASSUME NEW t \in Threads,
              StartReader(t) \/ WaitForItem(t) \/ GetItem(t) \/ NextTimesOut(t)
       PROVE  CancelComes' \/ NotAsked'
  BY <1>1, <1>4, <1>10
     DEF StartReader, WaitForItem, GetItem, NextTimesOut, EnterCancel, Goto, requestVars
<1>11. CASE Reader
  <2>1. ~MarkPut
    BY DEF MarkPut, AskInv
  <2> QED BY <1>4, <1>11, <2>1
          DEF Reader, ReadFrame, ReadEnd, ReadError, CheckFlags, PutResponse, MarkTerminal,
              requestVars, callVars
<1>12. CASE TakeRequest
  <2>1. CASE CancelComes
    BY <1>1, <1>12, <2>1, ComesCloser
  <2>2. CASE NotAsked
    <3>1. /\ iter = "run" /\ requests # <<>> /\ requests' = Tail(requests)
          /\ Head(requests) \in Sentinels => iter' = "ending"
          /\ Head(requests) \notin Sentinels => iter' = "run"
          /\ UNCHANGED <<pc, cancelReturned>>
      BY <1>1, <1>12 DEF TakeRequest, callVars
    <3>2. /\ \A i \in DOMAIN requests' : \E j \in DOMAIN requests : requests'[i] = requests[j]
          /\ \E j \in DOMAIN requests : Head(requests) = requests[j]
      <4>1. /\ requests \in Seq(RequestItems)
            /\ \A i \in DOMAIN requests' :
                  i + 1 \in DOMAIN requests /\ requests'[i] = requests[i + 1]
            /\ 1 \in DOMAIN requests /\ Head(requests) = requests[1]
        BY <1>1, <3>1 DEF RequestsOK
      <4> QED BY <4>1
    <3>3. Head(requests) \in Sentinels => \A t \in Threads : ~Asking(t)
      BY <2>2, <3>2 DEF NotAsked, Sentinels, StdinSettled, HalfClosing, Asking, Cancelling
    <3> QED BY <2>2, <3>1, <3>2, <3>3 DEF NotAsked, Asking
  <2> QED BY <1>3, <2>1, <2>2
<1>13. CASE EndRequests
  BY <1>3, <1>13 DEF EndRequests, CancelComes, NotAsked, Asking, callVars
<1>14. CASE Remote \/ Expire \/ UNCHANGED vars
  BY <1>4, <1>14 DEF Remote, SendFrame, StreamEnds, StreamExpires, Expire, vars, requestVars,
                     callVars
<1> QED BY <1>5, <1>6, <1>7, <1>8, <1>9, <1>10, <1>11, <1>12, <1>13, <1>14
        DEF Next, Continue, CancelNext

\* The README's promise about close() is kept but for two reasons: that the cancel frame
\* is given up at a full queue, and that a half-close is on its way while the session is
\* cancelled, however many threads cancel, write and iterate.
THEOREM ClosingCancels ==
    Spec /\ CancelFits /\ []StdinSettled => []ClosingCancelsRemote
<1> DEFINE Fits == \A t \in Threads : WaitCancel(t) => requests' # requests
<1>1. Init => AskInv
  BY DEF Init, AskInv, NotAsked, Asking
<1>2. TypeOK /\ IInv /\ Once /\ AskInv /\ StdinSettled /\ [Next]_vars /\ [Fits]_vars => AskInv'
  <2>1. CASE UNCHANGED vars
    BY <2>1 DEF vars, requestVars, flagVars, responseVars, remoteVars, callVars, AskInv,
                NotAsked, Asking, CancelComes, RemoteOver, ExitSent
  <2>2. CASE Fits
    BY <2>2, AskStep
  <2> QED BY <2>1, <2>2
<1>3. AskInv => ClosingCancelsRemote
  BY DEF AskInv, ClosingCancelsRemote, NotAsked
<1> QED BY <1>1, <1>2, <1>3, TypeCorrect, AnswersInvariant, CancellersInvariant, PTL
        DEF Spec, CancelFits
=============================================================================
