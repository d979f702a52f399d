------------------------ MODULE SessionStreamProofs ------------------------
(* What TLAPS proves about SessionStream for all values of its constants, by *)
(* the argument of ExecSessionProofs.                                        *)
EXTENDS SessionStream, TLAPS

-----------------------------------------------------------------------------
\* The positions of a sequence are the numbers from 1 to its length.
LEMMA SeqDomain ==
  ASSUME NEW S, NEW q \in Seq(S)
  PROVE  DOMAIN q = 1..Len(q) /\ Len(q) \in Nat
OBVIOUS

\* The Boolean fields stay Boolean; apart from the other types because the
\* provers treat Boolean variables differently.
LEMMA FlagsType == FlagsOK /\ [Next]_vars => FlagsOK'
<1> SUFFICES ASSUME FlagsOK, [Next]_vars PROVE FlagsOK'
  OBVIOUS
<1> USE DEF FlagsOK, requestVars, flagVars, responseVars, remoteVars, callVars
<1>1. ASSUME NEW t \in Threads, Calls(t) PROVE FlagsOK'
  <2>1. CASE Write(t)
    BY <2>1 DEF Write
  <2>2. CASE Detach(t) \/ CallNext(t)
    BY <2>2 DEF Detach, EnterDetach, CallNext
  <2> QED BY <1>1, <2>1, <2>2 DEF Calls
<1>2. ASSUME NEW t \in Threads, Continue(t) PROVE FlagsOK'
  <2>1. CASE Put(t) \/ StartReader(t) \/ WaitForItem(t) \/ GetItem(t)
    BY <2>1 DEF Put, StartReader, WaitForItem, GetItem
  <2>2. CASE NextTimesOut(t)
    BY <2>2 DEF NextTimesOut, EnterDetach
  <2>3. CASE DetachNext(t)
    BY <2>3 DEF DetachNext, DetachBranch, PutDetach, PutEnd, PutCleanup,
                Cleanup, Join
  <2> QED BY <1>2, <2>1, <2>2, <2>3 DEF Continue
<1>3. CASE Reader
  <2>1. CASE ReadFrame \/ ReadEnd \/ ReadError
    BY <2>1 DEF ReadFrame, ReadEnd, ReadError
  <2>2. CASE CheckClosed \/ PutResponse
    BY <2>2 DEF CheckClosed, PutResponse
  <2>3. CASE MarkTerminal \/ MarkPut
    BY <2>3 DEF MarkTerminal, MarkPut
  <2> QED BY <1>3, <2>1, <2>2, <2>3 DEF Reader
<1>4. CASE TakeRequest \/ EndRequests
  BY <1>4 DEF TakeRequest, EndRequests
<1>5. CASE Remote \/ Expire
  BY <1>5 DEF Remote, SendFrame, StreamEnds, StreamExpires, Expire
<1>6. CASE Opening \/ Refused \/ UNCHANGED vars
  BY <1>6 DEF Opening, Admit, Refuse, CancelRpc, Refused, vars
<1> QED BY <1>1, <1>2, <1>3, <1>4, <1>5, <1>6 DEF Next

\* The request queue: bounded, and made of request items.
LEMMA RequestsType == RequestsOK /\ [Next]_vars => RequestsOK'
<1> SUFFICES ASSUME RequestsOK, [Next]_vars PROVE RequestsOK'
  OBVIOUS
<1> USE AttachAssumption DEF RequestsOK, requestVars
<1>1. ASSUME NEW t \in Threads, Calls(t) PROVE RequestsOK'
  BY <1>1 DEF Calls, Write, Detach, CallNext
<1>2. ASSUME NEW t \in Threads, Put(t) PROVE RequestsOK'
  BY <1>2 DEF Put, RequestRoom, RequestItems
<1>3. ASSUME NEW t \in Threads, PutDetach(t) \/ PutEnd(t) PROVE RequestsOK'
  <2>1. PICK item \in {"detach", "end"} :
          PutOrDrop(item) /\ UNCHANGED <<iter, wire, inputs>>
    BY <1>3 DEF PutDetach, PutEnd, PutCleanup
  <2>2. requests' \in Seq(RequestItems) /\ Len(requests') <= RequestQueueSize
    BY <2>1 DEF PutOrDrop, RequestRoom, RequestItems
  <2> QED BY <2>1, <2>2
<1>4. ASSUME NEW t \in Threads, DetachBranch(t) \/ Cleanup(t) \/ Join(t)
      PROVE RequestsOK'
  BY <1>4 DEF DetachBranch, Cleanup, Join
<1>5. ASSUME NEW t \in Threads,
             StartReader(t) \/ WaitForItem(t) \/ GetItem(t) \/ NextTimesOut(t)
      PROVE RequestsOK'
  BY <1>5 DEF StartReader, WaitForItem, GetItem, NextTimesOut
<1>6. CASE Reader
  <2>1. CASE MarkPut
    BY <2>1 DEF MarkPut, PutOrDrop, RequestRoom, RequestItems
  <2>2. CASE ~MarkPut
    BY <1>6, <2>2 DEF Reader, ReadFrame, ReadEnd, ReadError, CheckClosed,
                      PutResponse, MarkTerminal
  <2> QED BY <2>1, <2>2
<1>7. CASE TakeRequest
  <2>1. /\ Head(requests) \in RequestItems /\ Tail(requests) \in Seq(RequestItems)
        /\ Len(Tail(requests)) <= RequestQueueSize
    BY <1>7 DEF TakeRequest
  <2>2. wire' \in Seq(RequestItems)
    <3>1. UNCHANGED wire \/ wire' = Append(wire, Head(requests))
      BY <1>7 DEF TakeRequest
    <3> QED BY <2>1, <3>1
  <2> QED BY <1>7, <2>1, <2>2 DEF TakeRequest
<1>8. CASE EndRequests \/ Remote \/ Expire \/ Opening \/ Refused \/ UNCHANGED vars
  BY <1>8 DEF EndRequests, Remote, SendFrame, StreamEnds, StreamExpires, Expire,
              Opening, Admit, Refuse, CancelRpc, Refused, vars
<1> QED BY <1>1, <1>2, <1>3, <1>4, <1>5, <1>6, <1>7, <1>8
        DEF Next, Continue, DetachNext

\* The remote side's frames and the status of the RPC.
LEMMA RemoteType == RemoteOK /\ [Next]_vars => RemoteOK'
<1> SUFFICES ASSUME RemoteOK, [Next]_vars PROVE RemoteOK'
  OBVIOUS
<1> USE AttachAssumption DEF RemoteOK, remoteVars
<1>1. ASSUME NEW t \in Threads, Calls(t) PROVE RemoteOK'
  BY <1>1 DEF Calls, Write, Detach, CallNext
<1>2. ASSUME NEW t \in Threads, DetachBranch(t) \/ Cleanup(t) \/ Join(t)
      PROVE RemoteOK'
  BY <1>2 DEF DetachBranch, Cleanup, Join, CancelRpc
<1>3. ASSUME NEW t \in Threads,
             Put(t) \/ PutDetach(t) \/ PutEnd(t) \/ StartReader(t)
               \/ WaitForItem(t) \/ GetItem(t) \/ NextTimesOut(t)
      PROVE RemoteOK'
  BY <1>3 DEF Put, PutDetach, PutEnd, PutCleanup, StartReader, WaitForItem,
              GetItem, NextTimesOut
<1>4. CASE Reader
  BY <1>4 DEF Reader, ReadFrame, ReadEnd, ReadError, CheckClosed, PutResponse,
              MarkTerminal, MarkPut
<1>5. CASE TakeRequest \/ EndRequests \/ Opening \/ Refused \/ UNCHANGED vars
  BY <1>5 DEF TakeRequest, EndRequests, Opening, Admit, Refuse, CancelRpc,
              Refused, vars
<1>6. CASE SendFrame
  BY <1>6 DEF SendFrame
<1>7. CASE StreamEnds \/ StreamExpires \/ Expire
  BY <1>7 DEF StreamEnds, StreamExpires, Expire
<1> QED BY <1>1, <1>2, <1>3, <1>4, <1>5, <1>6, <1>7
        DEF Next, Continue, DetachNext, Remote

\* The response queue, bounded, and the reader.
LEMMA ResponsesType == ResponsesOK /\ RemoteOK /\ [Next]_vars => ResponsesOK'
<1> SUFFICES ASSUME ResponsesOK, RemoteOK, [Next]_vars PROVE ResponsesOK'
  OBVIOUS
<1> USE AttachAssumption DEF ResponsesOK, RemoteOK, responseVars, remoteVars
<1>1. ASSUME NEW t \in Threads, Calls(t) \/ StartReader(t) PROVE ResponsesOK'
  BY <1>1 DEF Calls, Write, Detach, CallNext,
              StartReader, ReaderSteps
<1>2. ASSUME NEW t \in Threads, DetachNext(t) PROVE ResponsesOK'
  BY <1>2 DEF DetachNext, DetachBranch, PutDetach, PutEnd, PutCleanup, Cleanup,
              Join
<1>3. ASSUME NEW t \in Threads, Put(t) \/ WaitForItem(t) \/ NextTimesOut(t)
      PROVE ResponsesOK'
  BY <1>3 DEF Put, WaitForItem, NextTimesOut
<1>4. ASSUME NEW t \in Threads, GetItem(t) PROVE ResponsesOK'
  BY <1>4 DEF GetItem
<1>5. CASE Reader
  <2>5. PutResponse /\ ResponseRoom =>
          responses' \in Seq(Items) /\ Len(responses') <= ResponseQueueSize
    <3> HAVE PutResponse /\ ResponseRoom
    <3>1. responses' = Append(responses, held) /\ Len(responses) < ResponseQueueSize
      BY DEF PutResponse, ResponseRoom
    <3> QED BY <3>1
  <2> USE DEF Items, Frame, End, Failure, NoItem, ReaderSteps
  <2>1. CASE ReadFrame \/ ReadEnd \/ ReadError
    BY <2>1 DEF ReadFrame, ReadEnd, ReadError
  <2>2. CASE CheckClosed
    BY <2>2 DEF CheckClosed, AfterPut
  <2>3. CASE PutResponse
    <3>1. reader' \in ReaderSteps /\ held' \in Items
      BY <2>3 DEF PutResponse, AfterPut
    <3> QED BY <2>3, <2>5, <3>1 DEF PutResponse
  <2>4. CASE MarkTerminal \/ MarkPut
    BY <2>4 DEF MarkTerminal, MarkPut
  <2> QED BY <1>5, <2>1, <2>2, <2>3, <2>4 DEF Reader
<1>6. CASE TakeRequest \/ EndRequests \/ Opening \/ Refused \/ UNCHANGED vars
  BY <1>6 DEF TakeRequest, EndRequests, Opening, Admit, Refuse, CancelRpc,
              Refused, vars
<1>7. CASE SendFrame
  BY <1>7 DEF SendFrame
<1>8. CASE StreamEnds \/ StreamExpires \/ Expire
  BY <1>8 DEF StreamEnds, StreamExpires, Expire
<1> QED BY <1>1, <1>2, <1>3, <1>4, <1>5, <1>6, <1>7, <1>8 DEF Next, Continue,
                                                              Remote

\* The callers: their positions and what next() has answered.
LEMMA CallsType == CallsOK /\ ResponsesOK /\ [Next]_vars => CallsOK'
<1> SUFFICES ASSUME CallsOK, ResponsesOK, [Next]_vars PROVE CallsOK'
  OBVIOUS
<1> USE DEF CallsOK, callVars, Goto
<1>1. ASSUME NEW t \in Threads, Calls(t) PROVE CallsOK'
  BY <1>1 DEF Calls, Write, Detach, EnterDetach,
              CallNext, CallSteps, DetachSteps
<1>2. ASSUME NEW t \in Threads, DetachNext(t) PROVE CallsOK'
  BY <1>2 DEF DetachNext, DetachBranch, PutDetach, PutEnd, PutCleanup, Cleanup,
              Join, CallSteps, DetachSteps
<1>3. ASSUME NEW t \in Threads,
             Put(t) \/ StartReader(t) \/ WaitForItem(t) \/ NextTimesOut(t)
      PROVE CallsOK'
  BY <1>3 DEF Put, StartReader, WaitForItem, NextTimesOut, EnterDetach,
              CallSteps, DetachSteps
<1>4. ASSUME NEW t \in Threads, GetItem(t) PROVE CallsOK'
  BY <1>4 DEF GetItem, ResponsesOK, CallSteps
<1>5. CASE Reader
  BY <1>5 DEF Reader, ReadFrame, ReadEnd, ReadError, CheckClosed, PutResponse,
              MarkTerminal, MarkPut
<1>6. CASE TakeRequest \/ EndRequests \/ Remote \/ Expire \/ Opening \/ Refused \/ UNCHANGED vars
  BY <1>6 DEF TakeRequest, EndRequests, Remote, SendFrame, StreamEnds,
              StreamExpires, Expire, Opening, Admit, Refuse, CancelRpc, Refused,
              vars
<1> QED BY <1>1, <1>2, <1>3, <1>4, <1>5, <1>6 DEF Next, Continue

\* Every state has the right types and both queues stay within their bounds.
THEOREM TypeCorrect == Spec => []TypeOK
<1>1. Init => TypeOK
  <2> SUFFICES ASSUME Init PROVE TypeOK
    OBVIOUS
  <2>1. RequestsOK /\ ResponsesOK /\ RemoteOK /\ CallsOK
    BY AttachAssumption DEF Init, RequestsOK, RequestItems, ResponsesOK, RemoteOK,
                          CallsOK, Items, NoItem, ReaderSteps, CallSteps
  <2>2. FlagsOK
    BY DEF Init, FlagsOK
  <2> QED BY <2>1, <2>2 DEF TypeOK
<1>2. TypeOK /\ [Next]_vars => TypeOK'
  BY RequestsType, FlagsType, ResponsesType, RemoteType, CallsType DEF TypeOK
<1> QED BY <1>1, <1>2, PTL DEF Spec

-----------------------------------------------------------------------------
(* The inductive invariant.  Most actions leave the answers alone; each of the *)
(* others is one step below.                                                  *)

answerVars == <<delivered, responses, reader, held, got, sent>>

\* What an action that is not about the answers does to them: nothing, and a
\* stream that ended with OK keeps its status.
Quiet == UNCHANGED answerVars /\ (stream = "ok" => stream' = "ok")

\* The actions that change the answers.
Loud == \/ \E t \in Threads : CallNext(t) \/ StartReader(t) \/ GetItem(t)
        \/ Reader \/ SendFrame

\* A step of the session leaves the answers alone or is one of the actions that
\* handle them.
LEMMA QuietOrLoud == [Next]_vars => Quiet \/ Loud
<1> SUFFICES ASSUME [Next]_vars, ~Loud PROVE Quiet
  OBVIOUS
<1> USE DEF Quiet, answerVars, remoteVars, responseVars
<1>1. ASSUME NEW t \in Threads, Calls(t) PROVE Quiet
  BY <1>1 DEF Loud, Calls, Write, Detach
<1>2. ASSUME NEW t \in Threads, DetachBranch(t) \/ Cleanup(t) \/ Join(t) PROVE Quiet
  BY <1>2 DEF DetachBranch, Cleanup, Join, CancelRpc
<1>3. ASSUME NEW t \in Threads, Put(t) \/ PutDetach(t) \/ PutEnd(t)
      PROVE Quiet
  BY <1>3 DEF Put, PutDetach, PutEnd, PutCleanup
<1>4. ASSUME NEW t \in Threads, WaitForItem(t) \/ NextTimesOut(t) PROVE Quiet
  BY <1>4 DEF WaitForItem, NextTimesOut
<1>5. CASE TakeRequest \/ EndRequests \/ Expire
  BY <1>5 DEF TakeRequest, EndRequests, Expire, callVars
<1>6. CASE StreamEnds \/ StreamExpires
  BY <1>6 DEF StreamEnds, StreamExpires, callVars
<1>7. CASE Opening \/ Refused \/ UNCHANGED vars
  BY <1>7 DEF Opening, Admit, Refuse, CancelRpc, Refused, vars, callVars
<1> QED BY <1>1, <1>2, <1>3, <1>4, <1>5, <1>6, <1>7
        DEF Loud, Next, Continue, DetachNext, Remote

\* Only one thread is inside Thread.start(), and the lock is held then.
LEMMA StarterAlone == OneStarter /\ TypeOK /\ [Next]_vars => OneStarter'
<1> SUFFICES ASSUME OneStarter, CallsOK, [Next]_vars PROVE OneStarter'
  BY DEF TypeOK
<1> USE DEF OneStarter, CallsOK, Goto
<1>1. ASSUME NEW t \in Threads, CallNext(t) PROVE OneStarter'
  BY <1>1 DEF CallNext, LockFree
<1>2. ASSUME NEW t \in Threads, StartReader(t) PROVE OneStarter'
  BY <1>2 DEF StartReader
<1>3. ASSUME NEW t \in Threads, Write(t) \/ Detach(t)
      PROVE OneStarter'
  BY <1>3 DEF Write, Detach, EnterDetach, responseVars
<1>4. ASSUME NEW t \in Threads, DetachNext(t) PROVE OneStarter'
  BY <1>4 DEF DetachNext, DetachBranch, PutDetach, PutEnd, PutCleanup, Cleanup,
              Join, responseVars
<1>5. ASSUME NEW t \in Threads,
             Put(t) \/ WaitForItem(t) \/ GetItem(t) \/ NextTimesOut(t)
      PROVE OneStarter'
  BY <1>5 DEF Put, WaitForItem, GetItem, NextTimesOut, EnterDetach, responseVars
<1>6. CASE Reader
  <2>1. pc' = pc /\ reader # "starting"
    BY <1>6 DEF Reader, ReadFrame, ReadEnd, ReadError, CheckClosed, PutResponse,
                MarkTerminal, MarkPut, callVars
  <2> QED BY <2>1
<1>7. CASE TakeRequest \/ EndRequests \/ Remote \/ Expire \/ Opening \/ Refused \/ UNCHANGED vars
  <2>1. pc' = pc /\ reader' = reader
    BY <1>7 DEF TakeRequest, EndRequests, Remote, SendFrame, StreamEnds,
                StreamExpires, Expire, Opening, Admit, Refuse, CancelRpc,
                Refused, vars, callVars, responseVars
  <2> QED BY <2>1
<1> QED BY <1>1, <1>2, <1>3, <1>4, <1>5, <1>6, <1>7 DEF Next, Calls, Continue

Answers == FramesInOrder /\ ReaderPosition /\ EndIsComplete /\ LastIsLast /\ QueuedWasRead

\* What leaves the answers alone keeps the inductive invariant about them.
LEMMA QuietKeepsAnswers == Answers /\ Quiet => Answers'
<1> SUFFICES ASSUME Answers, Quiet PROVE Answers'
  OBVIOUS
<1> USE DEF Answers, Quiet, answerVars
<1>1. FramesInOrder'
  BY DEF FramesInOrder
<1>2. ReaderPosition'
  BY DEF ReaderPosition, NoVerdict, Answered
<1>3. EndIsComplete'
  <2>1. \A n : Complete(n) => Complete(n)'
    BY DEF Complete, LastSent
  <2> QED BY <2>1 DEF EndIsComplete
<1>4. LastIsLast' /\ QueuedWasRead'
  BY DEF LastIsLast, QueuedWasRead
<1> QED BY <1>1, <1>2, <1>3, <1>4

\* next() starts the reader: no answer moves.
LEMMA StartKeepsAnswers ==
  ASSUME Answers, OneStarter, NEW t \in Threads, CallNext(t) \/ StartReader(t)
  PROVE  Answers'
<1> USE DEF Answers
<1>1. /\ UNCHANGED <<delivered, responses, held, got, sent, stream>>
      /\ \/ reader' = reader
         \/ {reader, reader'} \subseteq {"unstarted", "starting", "reading"}
  BY DEF CallNext, StartReader, OneStarter, remoteVars
<1>2. FramesInOrder' /\ LastIsLast' /\ QueuedWasRead'
  BY <1>1 DEF FramesInOrder, LastIsLast, QueuedWasRead
<1>3. ReaderPosition'
  BY <1>1 DEF ReaderPosition, NoVerdict, Answered
<1>4. EndIsComplete'
  BY <1>1 DEF EndIsComplete, Complete, LastSent
<1> QED BY <1>2, <1>3, <1>4

\* The remote side sends: no session that could still say StopIteration has
\* said or queued it.
LEMMA SendKeepsAnswers ==
  ASSUME Answers, ResponsesOK, RemoteOK, SendFrame
  PROVE  Answers'
<1> USE DEF Answers
<1>1. /\ UNCHANGED <<delivered, responses, reader, held, got, stream>>
      /\ stream = "live" /\ ~LastSent
  BY DEF SendFrame, responseVars, callVars
<1>2. PICK k \in FrameKinds : sent' = Append(sent, k)
  BY DEF SendFrame
<1>3. FramesInOrder'
  BY <1>1 DEF FramesInOrder
<1>4. ReaderPosition'
  BY <1>1 DEF ReaderPosition, NoVerdict, Answered
<1>5. \A n : ~Complete(n)
  BY <1>1 DEF Complete
<1>6. EndIsComplete'
  BY <1>1, <1>5 DEF EndIsComplete
<1>7. LastIsLast'
  <2>1. Len(sent') = Len(sent) + 1 /\ \A i \in 1..Len(sent) : sent'[i] = sent[i]
    BY <1>2 DEF RemoteOK
  <2>2. \A i \in 1..Len(sent) : sent[i] \notin LastKinds
    BY <1>1 DEF LastIsLast, LastSent, RemoteOK
  <2> QED BY <1>2, <2>1, <2>2 DEF LastIsLast, RemoteOK
<1>8. QueuedWasRead'
  BY <1>1 DEF QueuedWasRead
<1> QED BY <1>3, <1>4, <1>6, <1>7, <1>8

\* next() answers: the first queued item becomes the last answer.
LEMMA GetKeepsAnswers ==
  ASSUME Answers, ResponsesOK, CallsOK, NEW t \in Threads, GetItem(t)
  PROVE  Answers'
<1> USE DEF Answers
<1>1. /\ UNCHANGED <<reader, held, got, sent, stream>> /\ responses # <<>>
      /\ delivered' = Append(delivered, Head(responses))
      /\ responses' = Tail(responses)
  BY DEF GetItem, remoteVars
<1>2. /\ delivered \in Seq(Items) /\ responses \in Seq(Items)
  BY DEF ResponsesOK, CallsOK
<1>3. /\ Len(delivered') = Len(delivered) + 1
      /\ \A i \in 1..Len(delivered) : delivered'[i] = delivered[i]
      /\ delivered'[Len(delivered) + 1] = responses[1]
      /\ Len(responses') = Len(responses) - 1
      /\ \A i \in 1..Len(responses') : responses'[i] = responses[i + 1]
      /\ DOMAIN delivered' = 1..Len(delivered')
      /\ DOMAIN responses' = 1..Len(responses')
  BY <1>1, <1>2
<1>4. FramesInOrder'
  <2>1. \A i \in DOMAIN delivered : delivered[i] = Frame(i)
    BY <1>1 DEF FramesInOrder
  <2>2. \/ responses[1] = Frame(Len(delivered) + 1)
        \/ responses[1] \in {End, Failure} /\ Len(responses) = 1
    <3>1. 1 \in DOMAIN responses
      BY <1>1, <1>2
    <3> QED BY <3>1 DEF FramesInOrder
  <2>3. \A i \in DOMAIN delivered' :
          \/ delivered'[i] = Frame(i)
          \/ /\ delivered'[i] \in {End, Failure} /\ i = Len(delivered')
             /\ Len(responses') = 0
    BY <1>2, <1>3, <2>1, <2>2
  <2>4. Len(responses') = 0 => responses' = <<>>
    BY <1>1, <1>2
  <2>5. \A i \in DOMAIN responses' :
          \/ responses'[i] = Frame(Len(delivered') + i)
          \/ responses'[i] \in {End, Failure} /\ i = Len(responses')
    <3> SUFFICES ASSUME NEW i \in 1..Len(responses')
                 PROVE  \/ responses'[i] = Frame(Len(delivered') + i)
                        \/ responses'[i] \in {End, Failure} /\ i = Len(responses')
      BY <1>3
    <3>1. i + 1 \in DOMAIN responses /\ i \in Nat
      BY <1>2, <1>3
    <3>2. \/ responses[i + 1] = Frame(Len(delivered) + (i + 1))
          \/ responses[i + 1] \in {End, Failure} /\ i + 1 = Len(responses)
      BY <3>1 DEF FramesInOrder
    <3>3. Len(delivered) + (i + 1) = Len(delivered') + i
      BY <1>2, <1>3, <3>1
    <3>4. i + 1 = Len(responses) => i = Len(responses')
      BY <1>2, <1>3, <3>1
    <3> QED BY <1>3, <3>2, <3>3, <3>4
  <2> QED BY <2>3, <2>4, <2>5 DEF FramesInOrder
<1>5. ReaderPosition'
  <2>1. Answered' = Answered
    BY <1>2, <1>3 DEF Answered
  <2>2. NoVerdict => NoVerdict'
    BY <1>1, <1>2, <1>3 DEF NoVerdict
  <2> QED BY <1>1, <2>1, <2>2 DEF ReaderPosition
<1>6. EndIsComplete'
  <2>1. \A n : Complete(n)' <=> Complete(n)
    BY <1>1 DEF Complete, LastSent
  <2>2. (held = End => Complete(got))'
    BY <1>1 DEF EndIsComplete, Complete, LastSent
  <2>3. \A i \in DOMAIN delivered' : delivered'[i] = End => Complete(i - 1)
    <3>1. responses[1] = End => Complete(Len(delivered) + 1 - 1)
      BY <1>1, <1>2 DEF EndIsComplete
    <3> QED BY <1>2, <1>3, <3>1 DEF EndIsComplete
  <2>4. \A i \in DOMAIN responses' :
          responses'[i] = End => Complete(Len(delivered') + i - 1)
    <3> SUFFICES ASSUME NEW i \in 1..Len(responses'), responses'[i] = End
                 PROVE  Complete(Len(delivered') + i - 1)
      BY <1>3
    <3>1. i + 1 \in DOMAIN responses /\ i \in Nat
      BY <1>2, <1>3
    <3>2. Complete(Len(delivered) + (i + 1) - 1)
      BY <1>3, <3>1 DEF EndIsComplete
    <3>3. Len(delivered) + (i + 1) - 1 = Len(delivered') + i - 1
      BY <1>2, <1>3, <3>1
    <3> QED BY <3>2, <3>3 DEF Complete
  <2> QED BY <2>1, <2>2, <2>3, <2>4 DEF EndIsComplete
<1>7. LastIsLast'
  BY <1>1 DEF LastIsLast
<1>8. QueuedWasRead'
  <2> SUFFICES ASSUME NEW i \in 1..Len(responses'), responses'[i].kind = "frame"
               PROVE  Len(delivered') + i <= got'
    BY <1>3 DEF QueuedWasRead
  <2>1. i + 1 \in DOMAIN responses /\ i \in Nat
    BY <1>2, <1>3
  <2>2. Len(delivered) + (i + 1) <= got
    BY <1>3, <2>1 DEF QueuedWasRead
  <2> QED BY <1>1, <1>2, <1>3, <2>1, <2>2
<1> QED BY <1>4, <1>5, <1>6, <1>7, <1>8

\* The reader takes an item, drops it or ends: the queues do not move.
LEMMA HoldKeepsAnswers ==
  ASSUME Answers, ResponsesOK, RemoteOK,
         ReadFrame \/ ReadEnd \/ ReadError \/ CheckClosed \/ MarkTerminal \/ MarkPut
  PROVE  Answers'
<1> USE DEF Answers
<1>1. UNCHANGED <<delivered, responses, sent, stream>>
  BY DEF ReadFrame, ReadEnd, ReadError, CheckClosed, MarkTerminal, MarkPut,
         remoteVars, callVars
<1>2. FramesInOrder' /\ LastIsLast'
  BY <1>1 DEF FramesInOrder, LastIsLast
<1>3. Answered' = Answered /\ (NoVerdict => NoVerdict')
  BY <1>1 DEF Answered, NoVerdict
<1>4. ReaderPosition'
  <2>1. CASE ReadFrame
    BY <1>3, <2>1 DEF ReaderPosition, ReadFrame, ResponsesOK, RemoteOK
  <2>2. CASE ReadEnd \/ ReadError
    BY <1>3, <2>2 DEF ReaderPosition, ReadEnd, ReadError
  <2>3. CASE CheckClosed
    <3>1. CASE closed
      BY <1>3, <2>3, <3>1 DEF ReaderPosition, CheckClosed, AfterPut
    <3>2. CASE ~closed
      BY <1>3, <2>3, <3>2 DEF ReaderPosition, CheckClosed
    <3> QED BY <3>1, <3>2
  <2>4. CASE MarkTerminal \/ MarkPut
    BY <2>4 DEF ReaderPosition, MarkTerminal, MarkPut
  <2> QED BY <2>1, <2>2, <2>3, <2>4
<1>5. EndIsComplete'
  <2>1. (held = End => Complete(got))'
    <3>1. CASE ReadFrame
      BY <3>1 DEF ReadFrame, Frame, End
    <3>2. CASE ReadEnd
      BY <1>1, <3>2 DEF ReadEnd, Complete
    <3>3. CASE ReadError
      BY <1>1, <3>3 DEF ReadError, Failure, End, EndIsComplete, Complete, LastSent
    <3>4. CASE CheckClosed
      BY <1>1, <3>4 DEF CheckClosed, AfterPut, NoItem, End, EndIsComplete,
                        Complete,
                        LastSent
    <3>5. CASE MarkTerminal \/ MarkPut
      BY <1>1, <3>5 DEF MarkTerminal, MarkPut, EndIsComplete, Complete, LastSent
    <3> QED BY <3>1, <3>2, <3>3, <3>4, <3>5
  <2> QED BY <1>1, <2>1 DEF EndIsComplete, Complete, LastSent
<1>6. QueuedWasRead'
  <2>1. CASE ReadFrame
    BY <1>1, <2>1 DEF QueuedWasRead, ReadFrame, ReaderPosition, Answered,
                      ResponsesOK, RemoteOK
  <2>2. CASE ~ReadFrame
    <3>1. got' = got
      BY <2>2 DEF ReadEnd, ReadError, CheckClosed, MarkTerminal, MarkPut
    <3> QED BY <1>1, <3>1 DEF QueuedWasRead
  <2> QED BY <2>1, <2>2
<1> QED BY <1>2, <1>4, <1>5, <1>6

\* The reader puts the item it holds at the end of the queue.
LEMMA PutKeepsAnswers ==
  ASSUME Answers, ResponsesOK, RemoteOK, CallsOK, PutResponse
  PROVE  Answers'
<1> USE DEF Answers
<1>1. /\ UNCHANGED <<delivered, got, sent, stream>> /\ reader = "putting"
  BY DEF PutResponse, remoteVars, callVars
<1>2. CASE ~ResponseRoom
  <2>1. UNCHANGED <<responses, held>> /\ reader' = "checking"
    BY <1>2 DEF PutResponse
  <2>2. FramesInOrder' /\ LastIsLast' /\ EndIsComplete' /\ QueuedWasRead'
    BY <1>1, <2>1 DEF FramesInOrder, LastIsLast, EndIsComplete, Complete,
                      LastSent,
                      QueuedWasRead
  <2>3. ReaderPosition'
    BY <1>1, <2>1 DEF ReaderPosition, NoVerdict, Answered
  <2> QED BY <2>2, <2>3
<1>3. CASE ResponseRoom
  <2>1. /\ responses' = Append(responses, held)
        /\ delivered \in Seq(Items) /\ responses \in Seq(Items) /\ held \in Items
    BY <1>3 DEF PutResponse, ResponsesOK, CallsOK
  <2>2. /\ NoVerdict
        /\ \/ held = Frame(got) /\ got = Answered + 1
           \/ held \in {End, Failure} /\ got = Answered
    BY <1>1 DEF ReaderPosition
  <2>3. /\ Len(responses') = Len(responses) + 1
        /\ \A i \in 1..Len(responses) : responses'[i] = responses[i]
        /\ responses'[Len(responses')] = held
        /\ DOMAIN responses = 1..Len(responses)
        /\ DOMAIN responses' = 1..Len(responses')
        /\ Len(responses) \in Nat /\ Len(delivered) \in Nat
        /\ Answered' = Answered + 1
    BY <1>1, <2>1 DEF Answered
  <2>4. FramesInOrder'
    <3>1. \A i \in DOMAIN delivered : delivered[i] = Frame(i)
      BY <2>2 DEF FramesInOrder, NoVerdict, End, Failure
    <3>2. \A i \in DOMAIN responses : responses[i] = Frame(Len(delivered) + i)
      BY <2>2 DEF FramesInOrder, NoVerdict, End, Failure
    <3>3. \/ held = Frame(Len(delivered) + Len(responses'))
          \/ held \in {End, Failure}
      BY <2>2, <2>3 DEF Answered
    <3>4. \A i \in 1..Len(responses') :
            i \in 1..Len(responses) \/ i = Len(responses')
      BY <2>3
    <3>5. \A i \in DOMAIN responses' :
            \/ responses'[i] = Frame(Len(delivered) + i)
            \/ responses'[i] \in {End, Failure} /\ i = Len(responses')
      BY <2>3, <3>2, <3>3, <3>4
    <3> QED BY <1>1, <3>1, <3>5 DEF FramesInOrder
  <2>5. ReaderPosition'
    <3>1. CASE held.kind = "frame" /\ LastRead
      <4>1. held' = End /\ reader' = "checking"
        BY <1>3, <3>1 DEF PutResponse
      <4>2. NoVerdict'
        BY <1>1, <2>2, <2>3, <3>1 DEF NoVerdict
      <4>3. got' = Answered'
        BY <1>1, <2>2, <2>3, <3>1 DEF End, Failure
      <4> QED BY <4>1, <4>2, <4>3 DEF ReaderPosition
    <3>2. CASE ~(held.kind = "frame" /\ LastRead)
      <4>1. AfterPut(TRUE)
        BY <1>3, <3>2 DEF PutResponse
      <4>2. CASE reader' = "reading"
        <5>1. held.kind = "frame"
          BY <4>1, <4>2 DEF AfterPut
        <5>2. NoVerdict'
          BY <1>1, <2>2, <2>3, <5>1 DEF NoVerdict
        <5>3. got' = Answered'
          BY <1>1, <2>2, <2>3, <5>1 DEF End, Failure
        <5> QED BY <4>2, <5>2, <5>3 DEF ReaderPosition
      <4>3. CASE reader' \in {"marking", "done"}
        BY <4>3 DEF ReaderPosition
      <4> QED BY <4>1, <4>2, <4>3 DEF AfterPut
    <3> QED BY <3>1, <3>2
  <2>6. EndIsComplete'
    <3>1. \A n : Complete(n)' <=> Complete(n)
      BY <1>1 DEF Complete, LastSent
    <3>2. (held = End => Complete(got))'
      <4>1. CASE held.kind = "frame" /\ LastRead
        <5>1. got = Len(sent) /\ sent # <<>> /\ sent[Len(sent)] \in LastKinds
          BY <4>1 DEF LastRead, LastIsLast, ResponsesOK, RemoteOK
        <5> QED BY <1>1, <5>1 DEF Complete, LastSent
      <4>2. CASE ~(held.kind = "frame" /\ LastRead)
        BY <1>3, <4>2 DEF PutResponse, AfterPut, NoItem, End
      <4> QED BY <4>1, <4>2
    <3>3. \A i \in DOMAIN delivered : delivered[i] = End => Complete(i - 1)
      BY DEF EndIsComplete
    <3>4. \A i \in DOMAIN responses' :
            responses'[i] = End => Complete(Len(delivered) + i - 1)
      <4> SUFFICES ASSUME NEW i \in 1..Len(responses'), responses'[i] = End
                   PROVE  Complete(Len(delivered) + i - 1)
        BY <2>3
      <4>1. CASE i \in 1..Len(responses)
        BY <2>3, <4>1 DEF EndIsComplete
      <4>2. CASE i = Len(responses')
        <5>1. held = End
          BY <2>3, <4>2
        <5>2. Complete(got)
          BY <5>1 DEF EndIsComplete
        <5>3. got = Len(delivered) + i - 1
          BY <2>2, <2>3, <4>2, <5>1 DEF Answered, End, Frame
        <5> QED BY <5>2, <5>3 DEF Complete
      <4> QED BY <2>3, <4>1, <4>2
    <3> QED BY <1>1, <3>1, <3>2, <3>3, <3>4 DEF EndIsComplete
  <2>7. LastIsLast'
    BY <1>1 DEF LastIsLast
  <2>8. QueuedWasRead'
    <3> SUFFICES ASSUME NEW i \in 1..Len(responses'), responses'[i].kind = "frame"
                 PROVE  Len(delivered) + i <= got
      BY <1>1, <2>3 DEF QueuedWasRead
    <3>1. CASE i \in 1..Len(responses)
      BY <2>3, <3>1 DEF QueuedWasRead
    <3>2. CASE i = Len(responses')
      <4>1. got = Len(delivered) + i
        BY <2>2, <2>3, <3>2 DEF Answered, End, Failure
      <4> QED BY <2>3, <4>1
    <3> QED BY <2>3, <3>1, <3>2
  <2> QED BY <2>4, <2>5, <2>6, <2>7, <2>8
<1> QED BY <1>2, <1>3

\* The inductive invariant holds in every state.
THEOREM AnswersInvariant == Spec => []IInv
<1>1. Init => IInv
  BY AttachAssumption DEF Init, IInv, FramesInOrder, ReaderPosition,
                          EndIsComplete, LastIsLast,
         QueuedWasRead, OneStarter, NoVerdict, Answered, NoItem, End, Complete
<1>2. TypeOK /\ IInv /\ [Next]_vars => IInv'
  <2> SUFFICES ASSUME TypeOK, IInv, [Next]_vars PROVE IInv'
    OBVIOUS
  <2> USE DEF TypeOK
  <2>1. Answers /\ OneStarter
    BY DEF IInv, Answers
  <2>2. ASSUME Quiet PROVE Answers'
    BY <2>1, <2>2, QuietKeepsAnswers
  <2>3. ASSUME NEW t \in Threads, CallNext(t) \/ StartReader(t) PROVE Answers'
    BY <2>1, <2>3, StartKeepsAnswers
  <2>4. ASSUME NEW t \in Threads, GetItem(t) PROVE Answers'
    BY <2>1, <2>4, GetKeepsAnswers
  <2>5. ASSUME Reader PROVE Answers'
    BY <2>1, <2>5, HoldKeepsAnswers, PutKeepsAnswers DEF Reader
  <2>6. ASSUME SendFrame PROVE Answers'
    BY <2>1, <2>6, SendKeepsAnswers
  <2>7. Answers'
    BY <2>2, <2>3, <2>4, <2>5, <2>6, QuietOrLoud DEF Loud
  <2>8. OneStarter'
    BY <2>1, StarterAlone
  <2> QED BY <2>7, <2>8 DEF Answers, IInv
<1> QED BY <1>1, <1>2, TypeCorrect, PTL DEF Spec

\* For any number of threads and any queue sizes, iterating a session answers
\* the frames in order, each once, with nothing after the verdict.
THEOREM DeliveryInOrder == Spec => []DeliveredInOrder
<1>1. TypeOK /\ IInv => DeliveredInOrder
  BY DEF IInv, FramesInOrder, DeliveredInOrder, Frame, End, Failure
<1> QED BY <1>1, TypeCorrect, AnswersInvariant, PTL

\* StopIteration is raised only after every frame was answered.
THEOREM StopIsLast == Spec => []StopAfterAll
<1>1. IInv => StopAfterAll
  <2> SUFFICES ASSUME IInv, NEW i \in DOMAIN delivered, delivered[i].kind = "end"
               PROVE  Complete(i - 1)
    BY DEF StopAfterAll
  <2>1. delivered[i] = End
    BY DEF IInv, FramesInOrder, Frame, Failure
  <2> QED BY <2>1 DEF IInv, EndIsComplete
<1> QED BY <1>1, AnswersInvariant, PTL

\* SessionStream implements ExecEvents: every step of a session is, for the
\* iterating code, a step of the event stream or no step.
THEOREM SessionImplementsEvents == Spec => ImplementsEvents
<1> USE DEF Events!vars
<1>1. Init => Events!Init
  BY DEF Init, Events!Init
<1>2. TypeOK /\ IInv /\ [Next]_vars => [Events!Next]_(Events!vars)
  <2> SUFFICES ASSUME TypeOK, IInv, [Next]_vars
               PROVE  Events!Next \/ UNCHANGED Events!vars
    OBVIOUS
  <2>1. ASSUME UNCHANGED <<sent, delivered, stream>> PROVE UNCHANGED Events!vars
    BY <2>1
  <2>2. CASE Quiet
    <3>1. CASE (stream = "ok") <=> (stream' = "ok")
      BY <2>2, <3>1 DEF Quiet, answerVars
    <3>2. CASE stream # "ok" /\ stream' = "ok"
      BY <2>2, <3>2 DEF Quiet, answerVars, Events!Next, Events!Finish
    <3> QED BY <2>2, <3>1, <3>2 DEF Quiet
  <2>3. ASSUME NEW t \in Threads, CallNext(t) \/ StartReader(t)
        PROVE  UNCHANGED Events!vars
    BY <2>1, <2>3 DEF CallNext, StartReader, remoteVars
  <2>4. CASE Reader
    BY <2>1, <2>4 DEF Reader, ReadFrame, ReadEnd, ReadError, CheckClosed,
                      PutResponse, MarkTerminal, MarkPut, remoteVars, callVars
  <2>5. CASE SendFrame
    <3>1. /\ UNCHANGED <<delivered, stream>> /\ stream # "ok" /\ ~LastSent
          /\ \E k \in FrameKinds : sent' = Append(sent, k)
      BY <2>5 DEF SendFrame, callVars
    <3>2. Events!Produce
      BY <3>1 DEF Events!Produce, Events!Exited, LastSent
    <3> QED BY <3>2 DEF Events!Next
  <2>6. ASSUME NEW t \in Threads, GetItem(t) PROVE Events!Next
    <3>1. /\ UNCHANGED <<sent, stream>> /\ responses # <<>>
          /\ delivered' = Append(delivered, responses[1])
      BY <2>6 DEF GetItem, remoteVars
    <3>2. 1 \in DOMAIN responses /\ delivered \in Seq(Items) /\ got \in 0..Len(sent)
          /\ Len(delivered) \in Nat
      BY <3>1 DEF TypeOK, ResponsesOK, CallsOK
    <3>3. ~Events!Over
      BY <3>1 DEF Events!Over, IInv, FramesInOrder, Frame
    <3>4. CASE responses[1] = Frame(Len(delivered) + 1)
      <4>1. Len(delivered) + 1 <= got
        BY <3>2, <3>4 DEF IInv, QueuedWasRead, Frame
      <4>2. Len(delivered) < Len(sent)
        BY <3>2, <4>1 DEF TypeOK, RemoteOK
      <4>3. Events!Deliver
        BY <3>1, <3>3, <3>4, <4>2 DEF Events!Deliver, Events!Frame, Frame
      <4> QED BY <4>3 DEF Events!Next
    <3>5. CASE responses[1] = End
      <4>1. Complete(Len(delivered) + 1 - 1)
        BY <3>2, <3>5 DEF IInv, EndIsComplete
      <4>2. Len(delivered) = Len(sent) /\ (stream = "ok" \/ LastSent)
        BY <3>2, <4>1 DEF Complete
      <4>3. Events!Stop
        BY <3>1, <3>3, <3>5, <4>2 DEF Events!Stop, Events!Exited, Events!End, End,
                                      LastSent
      <4> QED BY <4>3 DEF Events!Next
    <3>6. CASE responses[1] = Failure
      BY <3>1, <3>3, <3>6 DEF Events!Next, Events!Fail, Events!Failure, Failure
    <3> QED BY <3>2, <3>4, <3>5, <3>6 DEF IInv, FramesInOrder
  <2> QED BY <2>2, <2>3, <2>4, <2>5, <2>6, QuietOrLoud DEF Loud
<1> QED BY <1>1, <1>2, TypeCorrect, AnswersInvariant, PTL
        DEF Spec, ImplementsEvents, Events!Spec

-----------------------------------------------------------------------------
(* The verdict: VerdictQueued is inductive.                                  *)

\* What next() answers was queued: answering moves nothing in what was told.
LEMMA MoveHead ==
  ASSUME NEW S, NEW q \in Seq(S), NEW r \in Seq(S), r # <<>>
  PROVE  Append(q, Head(r)) \o Tail(r) = q \o r
OBVIOUS

\* The last of a sequence with one item put behind it.
LEMMA LastOfAppended ==
  ASSUME NEW S, NEW q \in Seq(S), NEW r \in Seq(S), NEW x \in S
  PROVE  LET told == q \o Append(r, x)
         IN  told # <<>> /\ told[Len(told)] = x
OBVIOUS

\* A step that is not the reader's tells nothing, leaves the reader alone or
\* starts it, and closes the stream only by detaching.
LEMMA OthersTellNothing ==
  ASSUME TypeOK, OneStarter, [Next]_vars, ~Reader
  PROVE  /\ Told' = Told
         /\ reader' = reader
            \/ {reader, reader'} \subseteq {"unstarted", "starting", "reading"}
         /\ UNCHANGED <<closed, detached>> \/ (closed' /\ detached')
<1> DEFINE Kept == /\ UNCHANGED responseVars /\ delivered' = delivered
                   /\ UNCHANGED <<closed, detached>> \/ (closed' /\ detached')
<1> USE DEF Told, responseVars, flagVars, callVars
<1>1. ASSUME NEW t \in Threads, Write(t) \/ Put(t) PROVE Kept
  BY <1>1 DEF Write, Put
<1>2. ASSUME NEW t \in Threads, Detach(t) \/ NextTimesOut(t) PROVE Kept
  BY <1>2 DEF Detach, NextTimesOut, EnterDetach
<1>3. ASSUME NEW t \in Threads, DetachNext(t) \/ WaitForItem(t) PROVE Kept
  BY <1>3 DEF DetachNext, DetachBranch, PutDetach, PutEnd, PutCleanup, Cleanup,
              Join, WaitForItem
<1>4. CASE Opening \/ Refused \/ UNCHANGED vars
  BY <1>4 DEF Opening, Admit, Refuse, Refused, vars
<1>5. CASE TakeRequest \/ EndRequests \/ Remote \/ Expire
  BY <1>5 DEF TakeRequest, EndRequests, Remote, SendFrame, StreamEnds,
              StreamExpires, Expire
<1>6. ASSUME NEW t \in Threads, CallNext(t) \/ StartReader(t)
      PROVE  /\ UNCHANGED <<responses, delivered, closed, detached>>
             /\ \/ reader' = reader
                \/ {reader, reader'} \subseteq {"unstarted", "starting", "reading"}
  BY <1>6 DEF CallNext, StartReader, OneStarter
<1>7. ASSUME NEW t \in Threads, GetItem(t)
      PROVE  Told' = Told /\ UNCHANGED <<reader, closed, detached>>
  <2>1. delivered \in Seq(Items) /\ responses \in Seq(Items)
    BY DEF TypeOK, ResponsesOK, CallsOK
  <2>2. /\ responses # <<>> /\ UNCHANGED <<reader, closed, detached>>
        /\ delivered' = Append(delivered, Head(responses))
        /\ responses' = Tail(responses)
    BY <1>7 DEF GetItem
  <2> QED BY <2>1, <2>2, MoveHead
<1> QED BY <1>1, <1>2, <1>3, <1>4, <1>5, <1>6, <1>7 DEF Next, Calls, Continue

\* The reader tells its item last, and ends or closes the stream after End.
LEMMA ReaderKeepsVerdict ==
  ASSUME TypeOK, VerdictQueued, Reader
  PROVE  VerdictQueued'
<1> USE DEF VerdictQueued, FinalAnswer, flagVars, callVars, remoteVars
<1>1. CASE ReadFrame \/ ReadEnd \/ ReadError
  <2>1. /\ UNCHANGED <<responses, delivered, closed, detached>>
        /\ reader = "reading" /\ reader' \in {"checking", "done"}
        /\ reader' = "done" => closed
    BY <1>1 DEF ReadFrame, ReadEnd, ReadError
  <2> QED BY <2>1 DEF Told
<1>2. CASE CheckClosed
  <2>1. /\ UNCHANGED <<responses, delivered, closed, detached>>
        /\ reader = "checking" /\ reader' \in {"putting", "marking", "reading", "done"}
        /\ reader' # "putting" => closed
    BY <1>2 DEF CheckClosed, AfterPut
  <2> QED BY <2>1 DEF Told
<1>3. CASE PutResponse
  <2>1. UNCHANGED <<delivered, closed, detached>> /\ reader = "putting"
    BY <1>3 DEF PutResponse
  <2>2. CASE reader' = "checking"
    BY <2>1, <2>2
  <2>3. CASE reader' = "reading"
    BY <2>1, <2>3
  <2>4. CASE reader' \notin {"checking", "reading"}
    <3>1. /\ responses' = Append(responses, held)
          /\ \/ reader' = "marking" /\ held = End
             \/ reader' = "done" /\ held.kind # "frame"
      BY <1>3, <2>4 DEF PutResponse, AfterPut
    <3>2. Told' # <<>> /\ Told'[Len(Told')] = held
      BY <2>1, <3>1, LastOfAppended DEF Told, TypeOK, ResponsesOK, CallsOK
    <3> QED BY <2>1, <3>1, <3>2
  <2> QED BY <2>2, <2>3, <2>4
<1>4. CASE MarkTerminal
  <2>1. /\ UNCHANGED <<responses, delivered, detached>> /\ closed'
        /\ reader = "marking" /\ reader' = "markPut"
    BY <1>4 DEF MarkTerminal
  <2> QED BY <2>1 DEF Told
<1>5. CASE MarkPut
  <2>1. /\ UNCHANGED <<responses, delivered, closed, detached>>
        /\ reader = "markPut" /\ reader' = "done"
    BY <1>5 DEF MarkPut
  <2> QED BY <2>1 DEF Told, End
<1> QED BY <1>1, <1>2, <1>3, <1>4, <1>5 DEF Reader

\* A stream that was not detached has its verdict queued when it is closed or
\* its reader has ended.
THEOREM VerdictInvariant == Spec => []VerdictQueued
<1>1. Init => VerdictQueued
  BY DEF Init, VerdictQueued, FinalAnswer
<1>2. TypeOK /\ OneStarter /\ VerdictQueued /\ [Next]_vars => VerdictQueued'
  <2> SUFFICES ASSUME TypeOK, OneStarter, VerdictQueued, [Next]_vars, ~Reader
               PROVE  VerdictQueued'
    BY ReaderKeepsVerdict
  <2>1. /\ Told' = Told
        /\ reader' = reader
           \/ {reader, reader'} \subseteq {"unstarted", "starting", "reading"}
        /\ UNCHANGED <<closed, detached>> \/ (closed' /\ detached')
    BY OthersTellNothing
  <2> QED BY <2>1 DEF VerdictQueued, FinalAnswer
<1>3. IInv => OneStarter
  BY DEF IInv
<1> QED BY <1>1, <1>2, <1>3, TypeCorrect, AnswersInvariant, PTL DEF Spec

\* The reader of a stream nobody detached ends only after a final answer.
THEOREM FinalAnswerComes == Spec => []FinalAnswer
<1>1. VerdictQueued => FinalAnswer
  BY DEF VerdictQueued
<1> QED BY <1>1, VerdictInvariant, PTL

\* A stream that closed itself has its last event and the end marker queued.
THEOREM ClosedIsComplete == Spec => []ClosedMeansComplete
<1>1. VerdictQueued => ClosedMeansComplete
  BY DEF VerdictQueued, ClosedMeansComplete
<1> QED BY <1>1, VerdictInvariant, PTL

-----------------------------------------------------------------------------
(* The detach frame: OneDetacher is inductive.                               *)

\* An item put behind the request frames asks for nothing new unless it is the
\* detach frame.
LEMMA AskedGrows ==
  ASSUME RequestsOK, NEW x \in RequestItems, wire' = wire,
         requests' = Append(requests, x)
  PROVE  /\ NoDetachAsked /\ x # "detach" => NoDetachAsked'
         /\ OneDetachFrame /\ x # "detach" => OneDetachFrame'
         /\ NoDetachAsked => OneDetachFrame'
<1>1. /\ Asked \in Seq(RequestItems) /\ Asked' = Append(Asked, x)
  BY DEF RequestsOK, Asked
<1>2. /\ Len(Asked') = Len(Asked) + 1 /\ Asked'[Len(Asked')] = x
      /\ \A i \in 1..Len(Asked) : Asked'[i] = Asked[i]
      /\ DOMAIN Asked = 1..Len(Asked) /\ DOMAIN Asked' = 1..Len(Asked')
      /\ Len(Asked) \in Nat
  BY <1>1
<1>3. \A i \in DOMAIN Asked' : i \in DOMAIN Asked \/ i = Len(Asked')
  BY <1>2
<1> QED BY <1>2, <1>3 DEF NoDetachAsked, OneDetachFrame

\* gRPC takes the first frame: it goes on the wire or is dropped.
LEMMA AskedMoves ==
  ASSUME RequestsOK, requests # <<>>, requests' = Tail(requests),
         wire' = wire \/ wire' = Append(wire, Head(requests))
  PROVE  /\ NoDetachAsked => NoDetachAsked'
         /\ OneDetachFrame => OneDetachFrame'
<1>1. CASE wire' = Append(wire, Head(requests))
  <2>1. Asked' = Asked
    BY <1>1, MoveHead DEF RequestsOK, Asked
  <2> QED BY <2>1 DEF NoDetachAsked, OneDetachFrame
<1>2. CASE wire' = wire
  <2> DEFINE k == Len(wire) + 1
             old(i) == IF i < k THEN i ELSE i + 1
  <2>1. \A i \in DOMAIN Asked' : /\ i \in Nat /\ old(i) \in DOMAIN Asked
                                 /\ Asked'[i] = Asked[old(i)]
    <3>1. /\ DOMAIN Asked' = 1..(Len(wire) + Len(requests) - 1)
          /\ DOMAIN Asked = 1..(Len(wire) + Len(requests))
          /\ Len(wire) \in Nat /\ Len(requests) \in Nat
      BY <1>2 DEF RequestsOK, Asked
    <3>2. \A i \in DOMAIN Asked' : i < k => Asked'[i] = wire[i] /\ Asked[i] = wire[i]
      BY <1>2 DEF RequestsOK, Asked
    <3>3. \A i \in DOMAIN Asked' :
            i >= k => /\ Asked'[i] = requests[i - Len(wire) + 1]
                      /\ Asked[i + 1] = requests[i + 1 - Len(wire)]
      BY <1>2 DEF RequestsOK, Asked
    <3>4. \A i \in DOMAIN Asked' : i \in Nat /\ old(i) \in DOMAIN Asked
      BY <3>1
    <3>5. \A i \in DOMAIN Asked' : i >= k => i - Len(wire) + 1 = i + 1 - Len(wire)
      BY <3>1
    <3> SUFFICES ASSUME NEW i \in DOMAIN Asked'
                 PROVE  Asked'[i] = Asked[old(i)]
      BY <3>4
    <3>6. CASE i < k
      BY <3>2, <3>6
    <3>7. CASE ~(i < k)
      BY <3>1, <3>3, <3>5, <3>7
    <3> QED BY <3>6, <3>7
  <2>2. \A i, j \in DOMAIN Asked' : old(i) = old(j) => i = j
    BY <2>1 DEF RequestsOK
  <2> HIDE DEF old
  <2> QED BY <2>1, <2>2 DEF NoDetachAsked, OneDetachFrame
<1> QED BY <1>1, <1>2

\* Only the detach frame's own step asks to detach.
LEMMA OthersAskNothing ==
  ASSUME TypeOK, [Next]_vars, \A t \in Threads : ~PutDetach(t)
  PROVE  /\ NoDetachAsked => NoDetachAsked'
         /\ OneDetachFrame => OneDetachFrame'
<1> DEFINE Kept == /\ NoDetachAsked => NoDetachAsked'
                   /\ OneDetachFrame => OneDetachFrame'
<1> USE DEF requestVars
<1>1. ASSUME UNCHANGED <<wire, requests>> PROVE Kept
  BY <1>1 DEF NoDetachAsked, OneDetachFrame, Asked
<1>2. ASSUME NEW x \in {"input", "end"}, wire' = wire,
             requests' = Append(requests, x)
      PROVE  Kept
  BY <1>2, AskedGrows DEF TypeOK, RequestItems
<1>3. ASSUME NEW t \in Threads, Calls(t) PROVE Kept
  BY <1>1, <1>3 DEF Calls, Write, Detach, CallNext
<1>4. ASSUME NEW t \in Threads, Put(t) \/ PutEnd(t) PROVE Kept
  BY <1>1, <1>2, <1>4 DEF Put, PutEnd, PutCleanup, PutOrDrop
<1>5. ASSUME NEW t \in Threads, DetachBranch(t) \/ Cleanup(t) \/ Join(t) PROVE Kept
  BY <1>1, <1>5 DEF DetachBranch, Cleanup, Join
<1>6. ASSUME NEW t \in Threads,
             StartReader(t) \/ WaitForItem(t) \/ GetItem(t) \/ NextTimesOut(t)
      PROVE  Kept
  BY <1>1, <1>6 DEF StartReader, WaitForItem, GetItem, NextTimesOut
<1>7. CASE Reader
  BY <1>1, <1>2, <1>7 DEF Reader, ReadFrame, ReadEnd, ReadError, CheckClosed,
                          PutResponse, MarkTerminal, MarkPut, PutOrDrop
<1>8. CASE TakeRequest
  BY <1>8, AskedMoves DEF TakeRequest, TypeOK
<1>9. CASE EndRequests \/ Remote \/ Expire
  BY <1>1, <1>9 DEF EndRequests, Remote, SendFrame, StreamEnds, StreamExpires,
                    Expire
<1>10. CASE Opening \/ Refused \/ UNCHANGED vars
  BY <1>1, <1>10 DEF Opening, Admit, Refuse, Refused, vars
<1> QED BY <1>3, <1>4, <1>5, <1>6, <1>7, <1>8, <1>9, <1>10
        DEF Next, Continue, DetachNext

\* A thread begins to detach only at a stream that is open, which it closes, and
\* ends it when it has put the frame.
LEMMA DetachersChange ==
  ASSUME TypeOK, [Next]_vars
  PROVE  /\ closed => closed'
         /\ \/ \A u \in Threads : Detaching(u)' => Detaching(u)
            \/ ~closed /\ closed'
               /\ \E t \in Threads : \A u \in Threads :
                     u # t /\ Detaching(u)' => Detaching(u)
         /\ \A t \in Threads : PutDetach(t) => Detaching(t) /\ ~Detaching(t)'
<1> USE DEF Detaching, Goto, TypeOK, CallsOK, flagVars, callVars
<1> DEFINE Kept == /\ closed => closed'
                   /\ \A u \in Threads : Detaching(u)' => Detaching(u)
<1>1. ASSUME NEW t \in Threads, Write(t) \/ CallNext(t) PROVE Kept
  BY <1>1 DEF Write, CallNext
<1>2. ASSUME NEW t \in Threads, Detach(t) \/ NextTimesOut(t)
      PROVE  \/ Kept
             \/ /\ ~closed /\ closed'
                /\ \A u \in Threads : u # t /\ Detaching(u)' => Detaching(u)
  BY <1>2 DEF Detach, NextTimesOut, EnterDetach
<1>3. ASSUME NEW t \in Threads, DetachNext(t) PROVE Kept
  BY <1>3 DEF DetachNext, DetachBranch, PutDetach, PutEnd, PutCleanup, Cleanup,
              Join
<1>4. ASSUME NEW t \in Threads,
             Put(t) \/ StartReader(t) \/ WaitForItem(t) \/ GetItem(t)
      PROVE  Kept
  BY <1>4 DEF Put, StartReader, WaitForItem, GetItem
<1>5. pc' = pc /\ (closed' = closed \/ closed' = TRUE) => Kept
  OBVIOUS
<1>6. ASSUME Reader PROVE Kept
  <2>1. pc' = pc /\ (closed' = closed \/ closed' = TRUE)
    BY <1>6 DEF Reader, ReadFrame, ReadEnd, ReadError, CheckClosed, PutResponse,
                MarkTerminal, MarkPut
  <2> QED BY <1>5, <2>1
<1>7. ASSUME TakeRequest \/ EndRequests \/ Remote \/ Expire \/ Opening
               \/ Refused \/ UNCHANGED vars
      PROVE  Kept
  <2>1. pc' = pc /\ closed' = closed
    BY <1>7 DEF TakeRequest, EndRequests, Remote, SendFrame, StreamEnds,
                StreamExpires, Expire, Opening, Admit, Refuse, Refused, vars
  <2> QED BY <1>5, <2>1
<1>8. \A t \in Threads : PutDetach(t) => Detaching(t) /\ ~Detaching(t)'
  BY DEF PutDetach, PutCleanup
<1> QED BY <1>1, <1>2, <1>3, <1>4, <1>6, <1>7, <1>8 DEF Next, Calls, Continue

\* However many threads detach, the detach frame is put at most once.
THEOREM DetachIsAskedOnce == Spec => []OneDetachFrame
<1> DEFINE Once == OneDetacher /\ OneDetachFrame
<1>1. Init => Once
  <2> SUFFICES ASSUME Init PROVE Once
    OBVIOUS
  <2>1. \A i \in DOMAIN Asked : Asked[i] = "start" /\ i = 1
    BY DEF Init, Asked
  <2> QED BY <2>1 DEF Init, OneDetacher, OneDetachFrame, NoDetachAsked, Detaching
<1>2. TypeOK /\ Once /\ [Next]_vars => Once'
  <2> SUFFICES ASSUME TypeOK, Once, [Next]_vars PROVE Once'
    OBVIOUS
  <2>1. /\ closed => closed'
        /\ \/ \A u \in Threads : Detaching(u)' => Detaching(u)
           \/ ~closed /\ closed'
              /\ \E t \in Threads : \A u \in Threads :
                    u # t /\ Detaching(u)' => Detaching(u)
        /\ \A t \in Threads : PutDetach(t) => Detaching(t) /\ ~Detaching(t)'
    BY DetachersChange
  <2>2. CASE \E t \in Threads : PutDetach(t)
    <3>1. PICK t \in Threads : PutDetach(t)
      BY <2>2
    <3>2. closed /\ NoDetachAsked /\ \A u \in Threads : Detaching(u) => u = t
      BY <2>1, <3>1 DEF OneDetacher
    <3>3. OneDetachFrame'
      <4>1. \/ wire' = wire /\ requests' = Append(requests, "detach")
            \/ UNCHANGED <<wire, requests>>
        BY <3>1 DEF PutDetach, PutCleanup, PutOrDrop
      <4>2. "detach" \in RequestItems
        BY DEF RequestItems
      <4> QED BY <3>2, <4>1, <4>2, AskedGrows
              DEF TypeOK, OneDetachFrame, NoDetachAsked, Asked
    <3>4. OneDetacher'
      BY <2>1, <3>1, <3>2 DEF OneDetacher
    <3> QED BY <3>3, <3>4
  <2>3. CASE \A t \in Threads : ~PutDetach(t)
    <3>1. /\ NoDetachAsked => NoDetachAsked'
          /\ OneDetachFrame => OneDetachFrame'
      BY <2>3, OthersAskNothing
    <3> HIDE DEF Detaching, NoDetachAsked
    <3>2. OneDetacher'
      BY <2>1, <3>1 DEF OneDetacher
    <3> QED BY <3>1, <3>2
  <2> QED BY <2>2, <2>3
<1> QED BY <1>1, <1>2, TypeCorrect, PTL DEF Spec

=============================================================================
