------------------------- MODULE SandboxHandleProofs -------------------------
(* What TLAPS proves about SandboxHandle, and the ChannelPool in it, for all *)
(* values of their constants.                                               *)
EXTENDS SandboxHandle, TLAPS

-----------------------------------------------------------------------------
(* The pool.                                                                 *)

\* What a step of the handle does to the pool.
PoolStep == \/ \E e \in Endpoints : Get(e)
            \/ \E t \in Threads : BeginClose(t) \/ CloseChannel(t)
            \/ UNCHANGED poolVars

LEMMA StepsOfThePool == HandleOK /\ [Next]_vars => PoolStep
<1> SUFFICES ASSUME HandleOK, [Next]_vars PROVE PoolStep
  OBVIOUS
<1> USE HandleAssumption DEF PoolStep
<1>1. CASE Service \/ UNCHANGED vars
  BY <1>1 DEF Service, vars
<1>2. ASSUME NEW e \in ExecErrors, Observe(e) PROVE PoolStep
  BY <1>2 DEF Observe
<1>3. ASSUME NEW t \in Threads, NEW op \in DataOps, BeginData(t, op) PROVE PoolStep
  BY <1>3 DEF BeginData
<1>4. ASSUME NEW t \in Threads, NEW op \in ControlOps, BeginControl(t, op)
      PROVE  PoolStep
  BY <1>4 DEF BeginControl
<1>5. ASSUME NEW t \in Threads, Address(t) PROVE PoolStep
  BY <1>5 DEF Address, HandleOK, Hosts
<1>6. ASSUME NEW t \in Threads, Refresh(t) PROVE PoolStep
  BY <1>6 DEF Refresh
<1>7. ASSUME NEW t \in Threads, Send(t) \/ ServeData(t) \/ Finish(t) PROVE PoolStep
  BY <1>7 DEF Send, ServeData, Finish
<1>8. ASSUME NEW t \in Threads, ServeRefresh(t) \/ StoreRefresh(t) PROVE PoolStep
  BY <1>8 DEF ServeRefresh, StoreRefresh
<1>9. ASSUME NEW t \in Threads, ServeControl(t) \/ FinishControl(t) PROVE PoolStep
  BY <1>9 DEF ServeControl, FinishControl
<1>10. ASSUME NEW t \in Threads, ClosePool(t) PROVE PoolStep
  BY <1>10 DEF ClosePool
<1> QED BY <1>1, <1>2, <1>3, <1>4, <1>5, <1>6, <1>7, <1>8, <1>9, <1>10 DEF Next

\* The fields of the pool keep their types.
LEMMA PoolType == PoolTypeOK /\ PoolStep => PoolTypeOK'
<1> SUFFICES ASSUME PoolTypeOK, PoolStep PROVE PoolTypeOK'
  OBVIOUS
<1> USE DEF PoolTypeOK, poolVars
<1>1. ASSUME NEW e \in Endpoints, Get(e) PROVE PoolTypeOK'
  BY <1>1 DEF Get
<1>2. ASSUME NEW t \in Threads, BeginClose(t) PROVE PoolTypeOK'
  BY <1>2 DEF BeginClose
<1>3. ASSUME NEW t \in Threads, CloseChannel(t) PROVE PoolTypeOK'
  BY <1>3 DEF CloseChannel
<1> QED BY <1>1, <1>2, <1>3 DEF PoolStep

\* No step of the pool loses a channel that is open.
LEMMA PoolKeepsChannels ==
  PoolTypeOK /\ ChannelsAreKept /\ PoolStep => ChannelsAreKept'
<1> SUFFICES ASSUME PoolTypeOK, ChannelsAreKept, PoolStep PROVE ChannelsAreKept'
  OBVIOUS
<1> USE DEF PoolTypeOK, ChannelsAreKept, poolVars
<1>1. ASSUME NEW e \in Endpoints, Get(e) PROVE ChannelsAreKept'
  BY <1>1 DEF Get, MayGet
<1>2. ASSUME NEW t \in Threads, BeginClose(t) PROVE ChannelsAreKept'
  <2>1. \A u \in Threads : closing'[u] = IF u = t THEN channels ELSE closing[u]
    BY <1>2 DEF BeginClose
  <2> QED BY <1>2, <2>1 DEF BeginClose
<1>3. ASSUME NEW t \in Threads, CloseChannel(t) PROVE ChannelsAreKept'
  <2>1. PICK e \in closing[t] : /\ live' = live \ {e}
                                /\ closing' = [closing EXCEPT ![t] = @ \ {e}]
                                /\ UNCHANGED <<poolClosed, channels>>
    BY <1>3 DEF CloseChannel
  <2>2. \A u \in Threads, f \in live' : f \in closing[u] => f \in closing'[u]
    BY <2>1
  <2> QED BY <2>1, <2>2
<1> QED BY <1>1, <1>2, <1>3 DEF PoolStep

-----------------------------------------------------------------------------
(* The types.                                                                *)

\* The sandbox at the service.
LEMMA ServiceType == TypeOK /\ [Next]_vars => ServiceOK'
<1> SUFFICES ASSUME ServiceOK, CallsOK, [Next]_vars PROVE ServiceOK'
  BY DEF TypeOK
<1> USE HandleAssumption DEF ServiceOK, serviceVars, States
<1>1. ASSUME NEW c \in 0..MaxTokens, Issue(c) PROVE issued' \in 1..MaxTokens
  BY <1>1 DEF Issue
<1>2. CASE Service
  <2>1. CASE Suspend \/ Fail
    BY <1>2, <2>1 DEF Service, Suspend, Fail, Become
  <2>2. CASE Expire
    BY <1>2, <2>2 DEF Service, Expire
  <2> QED BY <1>2, <2>1, <2>2 DEF Service
<1>10. CASE UNCHANGED vars
  BY <1>10 DEF vars
<1>3. CASE \E e \in ExecErrors : Observe(e)
  BY <1>3 DEF Observe
<1>4. ASSUME NEW t \in Threads,
             \/ \E op \in DataOps : BeginData(t, op)
             \/ \E op \in ControlOps : BeginControl(t, op)
      PROVE  ServiceOK'
  BY <1>4 DEF BeginData, BeginControl
<1>5. ASSUME NEW t \in Threads, Address(t) \/ Send(t) \/ Finish(t) \/ Refresh(t)
      PROVE  ServiceOK'
  BY <1>5 DEF Address, Send, Finish, Refresh
<1>6. ASSUME NEW t \in Threads, ServeData(t) PROVE ServiceOK'
  BY <1>6 DEF ServeData, Wake, Become
<1>7. ASSUME NEW t \in Threads, ServeRefresh(t) PROVE ServiceOK'
  BY <1>7 DEF ServeRefresh, Issue
<1>8. ASSUME NEW t \in Threads, ServeControl(t) PROVE ServiceOK'
  <2>1. CASE UNCHANGED serviceVars /\ UNCHANGED shared
    BY <2>1
  <2>2. ASSUME NEW a, NEW op \in ControlOps, Serve(op, a), UNCHANGED shared
        PROVE  ServiceOK'
    <3>1. CASE UNCHANGED serviceVars
      BY <2>2, <3>1
    <3>2. CASE Become("deleted") /\ UNCHANGED <<home, issued, expired>>
      BY <2>2, <3>2 DEF Become
    <3>3. ASSUME NEW c \in 0..MaxTokens, Issue(c), UNCHANGED expired,
                 Wake \/ UNCHANGED <<state, had, home>>
          PROVE  ServiceOK'
      BY <1>1, <2>2, <3>3 DEF Wake, Become
    <3> QED BY <2>2, <3>1, <3>2, <3>3 DEF Serve
  <2> QED BY <1>8, <2>1, <2>2 DEF ServeControl
<1>9. ASSUME NEW t \in Threads, StoreRefresh(t) \/ FinishControl(t) \/ ClosePool(t)
      PROVE  ServiceOK'
  BY <1>9 DEF StoreRefresh, FinishControl, ClosePool
<1> QED BY <1>2, <1>3, <1>4, <1>5, <1>6, <1>7, <1>8, <1>9, <1>10 DEF Next

\* A call of the right type keeps it when a step, and a field of its own type
\* with it, is written into it.
LEMMA CallFields ==
  ASSUME NEW c \in Calls, NEW s \in Steps, NEW a \in Answers,
         NEW e \in Endpoints, NEW k \in 0..MaxTokens
  PROVE  /\ [c EXCEPT !.step = s] \in Calls
         /\ [c EXCEPT !.step = s, !.at = e] \in Calls
         /\ [c EXCEPT !.step = s, !.token = k] \in Calls
         /\ [c EXCEPT !.step = s, !.answer = a] \in Calls
         /\ [c EXCEPT !.step = s, !.attempt = 2, !.answer = a] \in Calls
         /\ [c EXCEPT !.step = s, !.seen = k, !.answer = a] \in Calls
<1>1. [c EXCEPT !.step = s] \in Calls
  BY DEF Calls
<1>2. [c EXCEPT !.step = s, !.at = e] \in Calls
  BY DEF Calls
<1>3. [c EXCEPT !.step = s, !.token = k] \in Calls
  BY DEF Calls
<1>4. [c EXCEPT !.step = s, !.answer = a] \in Calls
  BY DEF Calls
<1>5. [c EXCEPT !.step = s, !.attempt = 2, !.answer = a] \in Calls
  BY DEF Calls
<1>6. [c EXCEPT !.step = s, !.seen = k, !.answer = a] \in Calls
  BY DEF Calls
<1> QED BY <1>1, <1>2, <1>3, <1>4, <1>5, <1>6

\* The answers there are.
LEMMA AnswersType ==
  /\ \A k \in {"none", "ok", "error", "rejected", "found"} \cup ExecErrors :
        Plain(k) \in Answers
  /\ \A s \in States, e \in Endpoints, k \in 0..MaxTokens : Found(s, e, k) \in Answers
BY HandleAssumption DEF Plain, Found, Answers, NoToken, States

LEMMA IdleType ==
  /\ Idle \in Calls
  /\ \A op \in Ops, s \in Steps : [Idle EXCEPT !.op = op, !.step = s] \in Calls
<1>1. Idle \in Calls
  BY AnswersType, HandleAssumption DEF Idle, Calls, NoToken, Ops, DataOps, Steps
<1>2. ASSUME NEW op \in Ops, NEW s \in Steps
      PROVE  [Idle EXCEPT !.op = op, !.step = s] \in Calls
  BY <1>1 DEF Calls
<1> QED BY <1>1, <1>2

\* The calls under way: each step writes into one call a step, a number or an
\* answer of the right type.
LEMMA CallsType == TypeOK /\ [Next]_vars => CallsOK'
<1> SUFFICES ASSUME ServiceOK, HandleOK, CallsOK, [Next]_vars PROVE CallsOK'
  BY DEF TypeOK
<1> USE DEF CallsOK
<1>0. {"idle", "addressed", "stub", "sent", "answered", "refresh", "fresh"} \subseteq Steps
  BY DEF Steps
<1>1. ASSUME NEW t \in Threads, NEW c \in Calls, call' = [call EXCEPT ![t] = c]
      PROVE  call' \in [Threads -> Calls]
  BY <1>1
<1>2. ASSUME NEW t \in Threads, Return(t) PROVE call' \in [Threads -> Calls]
  BY <1>2, IdleType DEF Return
<1>3. \A t \in Threads : call[t] \in Calls
  OBVIOUS
<1>4. /\ endpoint \in Endpoints /\ capability \in 0..MaxTokens
      /\ state \in States /\ home \in Endpoints /\ Api \in Endpoints
      /\ issued \in 0..MaxTokens /\ NoToken \in 0..MaxTokens
  BY HandleAssumption DEF HandleOK, ServiceOK, Hosts, NoToken
<1>5. CASE Service \/ UNCHANGED vars
  BY <1>5 DEF Service, vars
<1>6. ASSUME NEW e \in ExecErrors, Observe(e) PROVE CallsOK'
  BY <1>6 DEF Observe
<1>7. ASSUME NEW t \in Threads, NEW op \in DataOps, BeginData(t, op) PROVE CallsOK'
  BY <1>0, <1>7, IdleType DEF BeginData, Ops
<1>8. ASSUME NEW t \in Threads, NEW op \in ControlOps, BeginControl(t, op)
      PROVE  CallsOK'
  BY <1>0, <1>8, IdleType DEF BeginControl, Ops
<1>9. ASSUME NEW t \in Threads, Address(t) PROVE CallsOK'
  <2>1. [call[t] EXCEPT !.step = "stub", !.at = endpoint] \in Calls
    BY <1>0, <1>3, <1>4, AnswersType, CallFields
  <2> QED BY <1>2, <1>9, <2>1 DEF Address
<1>10. ASSUME NEW t \in Threads, Send(t) PROVE CallsOK'
  <2>1. [call[t] EXCEPT !.step = "sent", !.token = capability] \in Calls
    BY <1>0, <1>3, <1>4, AnswersType, CallFields
  <2> QED BY <1>10, <2>1 DEF Send
<1>11. ASSUME NEW t \in Threads, ServeData(t) PROVE CallsOK'
  <2>1. PICK a : /\ observing' = observing \cup (IF call[t].op = "exec"
                                                THEN {a} \cap ExecErrors ELSE {})
                 /\ \/ /\ a \in {"rejected", "deleted"}
                       /\ call' = [call EXCEPT ![t].step = "answered",
                                               ![t].answer = Plain(a)]
                    \/ Return(t)
    BY <1>11 DEF ServeData
  <2>2. a \in {"rejected", "deleted"} =>
          [call[t] EXCEPT !.step = "answered", !.answer = Plain(a)] \in Calls
    <3> SUFFICES ASSUME a \in {"rejected", "deleted"} PROVE Plain(a) \in Answers
      BY <1>0, <1>3, <1>4, CallFields
    <3> QED BY AnswersType DEF ExecErrors
  <2>3. observing' \subseteq ExecErrors
    BY <2>1
  <2>4. CASE Return(t)
    BY <1>2, <2>3, <2>4
  <2>5. CASE /\ a \in {"rejected", "deleted"}
             /\ call' = [call EXCEPT ![t].step = "answered", ![t].answer = Plain(a)]
    <3> DEFINE c == [call[t] EXCEPT !.step = "answered", !.answer = Plain(a)]
    <3>1. call' = [call EXCEPT ![t] = c]
      BY <2>5
    <3>2. c \in Calls
      BY <2>2, <2>5
    <3> HIDE DEF c
    <3> QED BY <1>1, <2>3, <3>1, <3>2
  <2> QED BY <2>1, <2>4, <2>5
<1>12. ASSUME NEW t \in Threads, Finish(t) PROVE CallsOK'
  BY <1>2, <1>12 DEF Finish
<1>13. ASSUME NEW t \in Threads, Refresh(t) PROVE CallsOK'
  <2>1. [call[t] EXCEPT !.step = "refresh", !.seen = issued, !.answer = Plain("none")]
          \in Calls
    BY <1>0, <1>3, <1>4, AnswersType, CallFields
  <2> QED BY <1>2, <1>13, <2>1 DEF Refresh
<1>14. ASSUME NEW t \in Threads, NEW step \in Steps,
              NEW s \in States, NEW e \in Endpoints, NEW k \in 0..MaxTokens,
              call' = [call EXCEPT ![t].step = step, ![t].answer = Found(s, e, k)]
       PROVE  call' \in [Threads -> Calls]
  <2> DEFINE c == [call[t] EXCEPT !.step = step, !.answer = Found(s, e, k)]
  <2>1. call' = [call EXCEPT ![t] = c]
    BY <1>14
  <2>2. Found(s, e, k) \in Answers
    BY AnswersType
  <2>3. c \in Calls
    BY <1>3, <1>4, <2>2, CallFields
  <2> HIDE DEF c
  <2> QED BY <1>1, <2>1, <2>3
<1>15. ASSUME NEW t \in Threads, ServeRefresh(t) PROVE CallsOK'
  <2>1. \/ \E s \in States, e \in Endpoints, c \in 0..MaxTokens :
             call' = [call EXCEPT ![t].step = "fresh", ![t].answer = Found(s, e, c)]
        \/ Return(t)
    BY <1>4, <1>15 DEF ServeRefresh
  <2>2. call' \in [Threads -> Calls]
    BY <1>0, <1>2, <1>14, <2>1
  <2> QED BY <1>15, <2>2 DEF ServeRefresh
<1>16. ASSUME NEW t \in Threads, StoreRefresh(t) PROVE CallsOK'
  <2>1. [call[t] EXCEPT !.step = "addressed", !.attempt = 2, !.answer = Plain("none")]
          \in Calls
    BY <1>0, <1>3, <1>4, AnswersType, CallFields
  <2> QED BY <1>2, <1>16, <2>1 DEF StoreRefresh
<1>17. ASSUME NEW t \in Threads, ServeControl(t) PROVE CallsOK'
  <2>1. \/ \E s \in States, e \in Endpoints, c \in 0..MaxTokens :
             call' = [call EXCEPT ![t].step = "answered", ![t].answer = Found(s, e, c)]
        \/ Return(t)
    BY <1>17 DEF ServeControl
  <2>2. call' \in [Threads -> Calls]
    BY <1>0, <1>2, <1>14, <2>1
  <2> QED BY <1>17, <2>2 DEF ServeControl
<1>18. ASSUME NEW t \in Threads, FinishControl(t) \/ ClosePool(t) PROVE CallsOK'
  BY <1>2, <1>18 DEF FinishControl, ClosePool
<1> QED BY <1>5, <1>6, <1>7, <1>8, <1>9, <1>10, <1>11, <1>12, <1>13, <1>15, <1>16,
           <1>17, <1>18 DEF Next

\* The handle: an answer without an endpoint or a capability leaves the one it has.
LEMMA HandleType == TypeOK /\ FreshIsWhole /\ [Next]_vars => HandleOK'
<1> SUFFICES ASSUME TypeOK, FreshIsWhole, [Next]_vars PROVE HandleOK'
  OBVIOUS
<1> USE HandleAssumption DEF TypeOK, HandleOK, handleVars
<1>1. CASE Service \/ UNCHANGED vars
  BY <1>1 DEF Service, vars
<1>2. ASSUME NEW e \in ExecErrors, Observe(e) PROVE HandleOK'
  BY <1>2 DEF Observe, Observed, ExecErrors, States
<1>3. ASSUME NEW t \in Threads,
             \/ \E op \in DataOps : BeginData(t, op)
             \/ \E op \in ControlOps : BeginControl(t, op)
      PROVE  HandleOK'
  BY <1>3 DEF BeginData, BeginControl
<1>4. ASSUME NEW t \in Threads,
             Address(t) \/ Send(t) \/ ServeData(t) \/ Refresh(t) \/ ServeRefresh(t)
      PROVE  HandleOK'
  BY <1>4 DEF Address, Send, ServeData, Refresh, ServeRefresh
<1>5. ASSUME NEW t \in Threads, Finish(t) PROVE HandleOK'
  BY <1>5 DEF Finish, States
<1>6. ASSUME NEW t \in Threads, StoreRefresh(t) PROVE HandleOK'
  <2>1. /\ call[t].step = "fresh"
        /\ call[t].answer.state \in States /\ call[t].answer.at \in Endpoints
        /\ call[t].answer.token \in 0..MaxTokens
    BY <1>6 DEF StoreRefresh, CallsOK, Calls, Answers
  <2>2. CASE call[t].answer.state = "failed" /\ call[t].op # "session"
    BY <1>6, <2>2 DEF StoreRefresh, States
  <2>3. CASE ~(call[t].answer.state = "failed" /\ call[t].op # "session")
    <3>1. /\ call[t].answer.token \in 1..MaxTokens
          /\ call[t].op # "session" => call[t].answer.at \in Hosts
      BY <2>1, <2>3 DEF FreshIsWhole, NoToken, Hosts
    <3> QED BY <1>6, <2>1, <2>3, <3>1 DEF StoreRefresh
  <2> QED BY <2>2, <2>3
<1>7. ASSUME NEW t \in Threads, FinishControl(t) PROVE HandleOK'
  <2>1. call[t].answer.at \in Endpoints /\ call[t].answer.token \in 0..MaxTokens
    BY DEF CallsOK, Calls, Answers
  <2>2. CASE call[t].op = "resume" /\ Resumed(call[t].answer) /\ status' = "running"
               /\ UNCHANGED deleted
    BY <2>1, <2>2 DEF Resumed, NoToken, Hosts, States
  <2>3. CASE deleted' = TRUE /\ status' = "deleted" /\ UNCHANGED <<endpoint, capability>>
    BY <2>3 DEF States
  <2>4. CASE /\ capability' = IF call[t].answer.token = NoToken
                                THEN capability ELSE call[t].answer.token
             /\ UNCHANGED <<status, deleted, endpoint>>
    BY <2>1, <2>4 DEF NoToken
  <2> QED BY <1>7, <2>2, <2>3, <2>4 DEF FinishControl
<1>8. ASSUME NEW t \in Threads, ServeControl(t) \/ ClosePool(t) PROVE HandleOK'
  BY <1>8 DEF ServeControl, ClosePool
<1> QED BY <1>1, <1>2, <1>3, <1>4, <1>5, <1>6, <1>7, <1>8 DEF Next

\* Only a served request gives a call an answer of the service.
LEMMA NewAnswers ==
  ASSUME CallsOK, [Next]_vars, NEW u \in Threads
  PROVE  \/ call'[u] = call[u] \/ call'[u].step \notin {"fresh", "answered"}
         \/ ServeData(u) \/ ServeRefresh(u) \/ ServeControl(u)
<1> DEFINE Unanswered == call'[u] = call[u] \/ call'[u].step \notin {"fresh", "answered"}
<1> USE DEF CallsOK
<1>1. CASE Service \/ UNCHANGED vars
  BY <1>1 DEF Service, vars
<1>2. ASSUME NEW e \in ExecErrors, Observe(e) PROVE Unanswered
  BY <1>2 DEF Observe
<1>3. ASSUME NEW t \in Threads, Return(t) PROVE Unanswered
  BY <1>3 DEF Return, Idle
<1>4. ASSUME NEW t \in Threads, NEW op \in DataOps, BeginData(t, op) PROVE Unanswered
  BY <1>4 DEF BeginData, Idle
<1>5. ASSUME NEW t \in Threads, NEW op \in ControlOps, BeginControl(t, op)
      PROVE  Unanswered
  BY <1>5 DEF BeginControl, Idle
<1>6. ASSUME NEW t \in Threads, Address(t) \/ Send(t) PROVE Unanswered
  BY <1>3, <1>6 DEF Address, Send, Calls
<1>7. ASSUME NEW t \in Threads, Finish(t) \/ FinishControl(t) PROVE Unanswered
  BY <1>3, <1>7 DEF Finish, FinishControl
<1>8. ASSUME NEW t \in Threads, Refresh(t) PROVE Unanswered
  BY <1>3, <1>8 DEF Refresh, Calls
<1>9. ASSUME NEW t \in Threads, StoreRefresh(t) PROVE Unanswered
  BY <1>3, <1>9 DEF StoreRefresh, Calls
<1>10. ASSUME NEW t \in Threads, ClosePool(t) PROVE Unanswered
  BY <1>10 DEF ClosePool
<1>11. ASSUME NEW t \in Threads, ServeData(t), t # u PROVE Unanswered
  BY <1>11 DEF ServeData, Return
<1>12. ASSUME NEW t \in Threads, ServeRefresh(t), t # u PROVE Unanswered
  BY <1>12 DEF ServeRefresh, Return
<1>13. ASSUME NEW t \in Threads, ServeControl(t), t # u PROVE Unanswered
  BY <1>13 DEF ServeControl, Return
<1> QED BY <1>1, <1>2, <1>4, <1>5, <1>6, <1>7, <1>8, <1>9, <1>10, <1>11, <1>12, <1>13
        DEF Next

\* What a refresh has found stays whole until its call has stored it.
LEMMA FreshStaysWhole == TypeOK /\ FreshIsWhole /\ [Next]_vars => FreshIsWhole'
<1> SUFFICES ASSUME ServiceOK, CallsOK, FreshIsWhole, [Next]_vars,
                    NEW u \in Threads, call'[u].step = "fresh", call'[u] # call[u]
             PROVE  LET a == call'[u].answer IN
                    /\ a.token # NoToken \/ (call'[u].op # "session" /\ a.state = "failed")
                    /\ call'[u].op # "session" /\ a.state # "failed" => a.at # Api
  BY DEF TypeOK, FreshIsWhole
<1> USE DEF CallsOK
<1>1. call[u] \in Calls
  OBVIOUS
<1>2. ~ServeData(u)
  BY <1>1 DEF ServeData, Return, Idle, Calls
<1>3. ~ServeControl(u)
  BY <1>1 DEF ServeControl, Return, Idle, Calls
<1>4. ServeRefresh(u)
  BY <1>2, <1>3, NewAnswers
<1>5. home # Api
  BY DEF ServiceOK, Hosts
<1>6. call'[u].op = call[u].op
  BY <1>1, <1>4 DEF ServeRefresh, Return, Idle, Calls
<1>7. \/ \E c \in 1..MaxTokens :
            \/ call'[u].answer = Found(state, home, c)
            \/ call[u].op = "session" /\ call'[u].answer = Found(state, Api, c)
      \/ /\ call[u].op # "session" /\ state = "failed"
         /\ call'[u].answer = Found(state, Api, NoToken)
  BY <1>1, <1>4 DEF ServeRefresh, Return, Idle, Calls
<1>8. ASSUME NEW c \in 1..MaxTokens, call'[u].answer = Found(state, home, c)
      PROVE  call'[u].answer.token # NoToken /\ call'[u].answer.at # Api
  BY <1>5, <1>8 DEF Found, NoToken
<1>9. ASSUME NEW c \in 1..MaxTokens, call'[u].answer = Found(state, Api, c)
      PROVE  call'[u].answer.token # NoToken
  BY <1>9 DEF Found, NoToken
<1>10. ASSUME call'[u].answer = Found(state, Api, NoToken)
       PROVE  call'[u].answer.state = state
  BY <1>10 DEF Found
<1> QED BY <1>6, <1>7, <1>8, <1>9, <1>10

\* The types, with the reason the handle always has an endpoint and a capability.
THEOREM TypeInvariant == Spec => [](TypeOK /\ FreshIsWhole)
<1>1. Init => TypeOK /\ FreshIsWhole
  <2> SUFFICES ASSUME Init PROVE TypeOK /\ FreshIsWhole
    OBVIOUS
  <2>0. PoolTypeOK
    BY HandleAssumption DEF Init, PoolInit, PoolTypeOK
  <2>1. ServiceOK
    BY HandleAssumption DEF Init, ServiceOK, States
  <2>4. HandleOK
    <3>1. status \in States /\ deleted \in BOOLEAN /\ endpoint \in Hosts
      BY DEF Init, States
    <3>2. capability \in 1..MaxTokens
      BY HandleAssumption DEF Init
    <3> QED BY <3>1, <3>2 DEF HandleOK
  <2>2. CallsOK
    BY IdleType DEF Init, CallsOK
  <2>3. FreshIsWhole
    BY DEF Init, FreshIsWhole, Idle
  <2> QED BY <2>0, <2>1, <2>2, <2>3, <2>4 DEF TypeOK
<1>2. TypeOK /\ FreshIsWhole /\ [Next]_vars => (TypeOK /\ FreshIsWhole)'
  BY ServiceType, CallsType, HandleType, FreshStaysWhole, StepsOfThePool, PoolType
     DEF TypeOK
<1> QED BY <1>1, <1>2, PTL DEF Spec

\* Every field has its type; the handle always has an endpoint and a capability.
THEOREM TypeCorrect == Spec => []TypeOK
<1>1. TypeOK /\ FreshIsWhole => TypeOK
  OBVIOUS
<1> QED BY <1>1, TypeInvariant, PTL

\* A closed pool leaves no channel open (ChannelPool.close), whatever handles ask for.
THEOREM ClosedPoolIsEmpty == Spec => []NoChannelLeft
<1>1. Init => ChannelsAreKept
  BY DEF Init, PoolInit, ChannelsAreKept
<1>2. TypeOK /\ ChannelsAreKept /\ [Next]_vars => ChannelsAreKept'
  BY StepsOfThePool, PoolKeepsChannels DEF TypeOK
<1>3. TypeOK /\ ChannelsAreKept => NoChannelLeft
  BY DEF TypeOK, PoolTypeOK, ChannelsAreKept, NoChannelLeft
<1> QED BY <1>1, <1>2, <1>3, TypeCorrect, PTL DEF Spec

-----------------------------------------------------------------------------
(* What the handle says of its sandbox.                                      *)

\* A sandbox does not forget a state, and a deleted one stays deleted.
LEMMA HistoryGrows ==
  ASSUME [Next]_vars, {state, "running"} \subseteq had,
         "deleted" \in had => state = "deleted"
  PROVE  /\ had \subseteq had' /\ {state', "running"} \subseteq had'
         /\ "deleted" \in had' => state' = "deleted"
<1> DEFINE Grown == /\ had \subseteq had' /\ {state', "running"} \subseteq had'
                    /\ "deleted" \in had' => state' = "deleted"
<1> SUFFICES Grown
  OBVIOUS
<1>1. ASSUME NEW s, Become(s), state # "deleted" \/ s = "deleted" PROVE Grown
  BY <1>1 DEF Become
<1>2. CASE UNCHANGED <<state, had>>
  BY <1>2
<1> HIDE DEF Grown
<1>3. CASE UNCHANGED vars
  BY <1>2, <1>3 DEF vars, serviceVars
<1>4. CASE Service
  BY <1>1, <1>2, <1>4 DEF Service, Suspend, Fail, Expire
<1>5. ASSUME NEW e \in ExecErrors, Observe(e) PROVE Grown
  BY <1>2, <1>5 DEF Observe, serviceVars
<1>6. ASSUME NEW t \in Threads,
             \/ \E op \in DataOps : BeginData(t, op)
             \/ \E op \in ControlOps : BeginControl(t, op)
      PROVE  Grown
  BY <1>2, <1>6 DEF BeginData, BeginControl, serviceVars
<1>7. ASSUME NEW t \in Threads, Address(t) \/ Send(t) \/ Finish(t) \/ Refresh(t)
      PROVE  Grown
  BY <1>2, <1>7 DEF Address, Send, Finish, Refresh, serviceVars
<1>8. ASSUME NEW t \in Threads, ServeData(t) PROVE Grown
  BY <1>1, <1>2, <1>8 DEF ServeData, Wake, serviceVars
<1>9. ASSUME NEW t \in Threads, ServeRefresh(t) PROVE Grown
  BY <1>2, <1>9 DEF ServeRefresh
<1>10. ASSUME NEW t \in Threads, StoreRefresh(t) \/ FinishControl(t) \/ ClosePool(t)
      PROVE  Grown
  BY <1>2, <1>10 DEF StoreRefresh, FinishControl, ClosePool, serviceVars
<1>11. ASSUME NEW t \in Threads, ServeControl(t) PROVE Grown
  <2>1. ASSUME NEW op \in ControlOps, NEW a, Serve(op, a) PROVE Grown
    BY <1>1, <1>2, <2>1 DEF Serve, Wake, serviceVars
  <2> QED BY <1>2, <1>11, <2>1 DEF ServeControl, serviceVars
<1> QED BY <1>3, <1>4, <1>5, <1>6, <1>7, <1>8, <1>9, <1>10, <1>11 DEF Next

\* What an answer on its way says was true when the service gave it.
LEMMA AnswersHaveBeen ==
  ASSUME ServiceOK, CallsOK, ReportsHaveBeen, [Next]_vars, NEW u \in Threads
  PROVE  AnswerHasBeen(call[u])' 
<1> USE DEF CallsOK
<1>1. had \subseteq had' /\ state' \in had'
  BY HistoryGrows DEF ReportsHaveBeen
<1>2. CASE call'[u] = call[u]
  BY <1>1, <1>2 DEF ReportsHaveBeen, AnswerHasBeen
<1>3. CASE call'[u].step \notin {"fresh", "answered"}
  BY <1>3 DEF AnswerHasBeen
<1>4. CASE ServeData(u)
  <2>1. /\ call'[u].step # "fresh"
        /\ call'[u].step = "answered" =>
              /\ call'[u].op \in DataOps
              /\ call'[u].answer.kind = "deleted" => state = "deleted"
    <3>0. call[u] \in Calls
      OBVIOUS
    <3>1. PICK a \in DataAnswers(call[u]) :
            \/ /\ a = "rejected" \/ (a = "deleted" /\ call[u].op = "file")
               /\ call' = [call EXCEPT ![u].step = "answered", ![u].answer = Plain(a)]
            \/ Return(u)
      BY <1>4 DEF ServeData
    <3>2. a = "deleted" => state = "deleted"
      BY <3>1 DEF DataAnswers
    <3>3. CASE Return(u)
      BY <3>3 DEF Return, Idle
    <3>4. CASE call' = [call EXCEPT ![u].step = "answered", ![u].answer = Plain(a)]
      BY <1>4, <3>0, <3>2, <3>4 DEF ServeData, Calls, Plain
    <3> QED BY <3>1, <3>3, <3>4
  <2> QED BY <1>1, <2>1 DEF AnswerHasBeen, ReportsHaveBeen, DataOps
<1>5. CASE ServeRefresh(u)
  <2>1. call'[u].step = "fresh" => call'[u].answer.state = state
    BY <1>5 DEF ServeRefresh, Return, Idle, Calls, Found
  <2>2. call'[u].step # "answered"
    BY <1>5 DEF ServeRefresh, Return, Idle, Calls, Found
  <2> QED BY <1>1, <2>1, <2>2 DEF AnswerHasBeen, ReportsHaveBeen
<1>6. CASE ServeControl(u)
  <2>1. call'[u].step # "fresh"
    BY <1>6 DEF ServeControl, Return, Idle, Calls
  <2>2. call'[u].step = "answered" =>
          call'[u].answer.kind = "found" /\ call'[u].op = call[u].op
    <3>1. CASE Return(u)
      BY <3>1 DEF Return, Idle
    <3>2. CASE \E s \in States, e \in Endpoints, c \in 0..MaxTokens :
                 call' = [call EXCEPT ![u].step = "answered", ![u].answer = Found(s, e, c)]
      BY <3>2 DEF Calls, Found
    <3> QED BY <1>6, <3>1, <3>2 DEF ServeControl
  <2>3. call'[u].step = "answered" /\ call[u].op = "delete" => state' = "deleted"
    BY <1>6 DEF ServeControl, Serve, Become, Return, Idle, Calls
  <2> QED BY <1>1, <2>1, <2>2, <2>3 DEF AnswerHasBeen
<1> QED BY <1>2, <1>3, <1>4, <1>5, <1>6, NewAnswers

\* Nor does the handle, or a reader, hold what never was.
LEMMA HandleHasBeen ==
  ASSUME ServiceOK, CallsOK, ReportsHaveBeen, [Next]_vars
  PROVE  /\ {status'} \cup observing' \subseteq had'
         /\ deleted' => "deleted" \in had'
<1> DEFINE Been == /\ {status'} \cup observing' \subseteq had'
                   /\ deleted' => "deleted" \in had'
<1> USE DEF CallsOK, handleVars
<1>1. had \subseteq had' /\ "running" \in had'
  BY HistoryGrows DEF ReportsHaveBeen
<1>2. {status} \cup observing \subseteq had /\ (deleted => "deleted" \in had)
  BY DEF ReportsHaveBeen
<1>3. CASE UNCHANGED vars \/ Service
  BY <1>1, <1>2, <1>3 DEF vars, Service
<1>4. ASSUME NEW e \in ExecErrors, Observe(e) PROVE Been
  BY <1>1, <1>2, <1>4 DEF Observe, Observed
<1>5. ASSUME NEW t \in Threads,
             \/ \E op \in DataOps : BeginData(t, op)
             \/ \E op \in ControlOps : BeginControl(t, op)
      PROVE  Been
  <2>1. UNCHANGED <<handleVars, observing>>
    BY <1>5 DEF BeginData, BeginControl
  <2> QED BY <1>1, <1>2, <2>1
<1>6. ASSUME NEW t \in Threads, Address(t) \/ Send(t) \/ Refresh(t) PROVE Been
  BY <1>1, <1>2, <1>6 DEF Address, Send, Refresh
<1>7. ASSUME NEW t \in Threads, ServeData(t) PROVE Been
  <2>1. observing' \subseteq observing \cup {state} /\ UNCHANGED handleVars
    BY <1>7 DEF ServeData, DataAnswers, ExecErrors
  <2> QED BY <1>1, <1>2, <2>1 DEF ReportsHaveBeen
<1>8. ASSUME NEW t \in Threads, ServeRefresh(t) \/ ServeControl(t) \/ ClosePool(t)
      PROVE  Been
  BY <1>1, <1>2, <1>8 DEF ServeRefresh, ServeControl, ClosePool
<1>9. ASSUME NEW t \in Threads PROVE AnswerHasBeen(call[t])
  BY DEF ReportsHaveBeen
<1>10. ASSUME NEW t \in Threads, Finish(t) PROVE Been
  BY <1>1, <1>2, <1>9, <1>10 DEF Finish, AnswerHasBeen
<1>11. ASSUME NEW t \in Threads, StoreRefresh(t) PROVE Been
  BY <1>1, <1>2, <1>9, <1>11 DEF StoreRefresh, AnswerHasBeen
<1>12. ASSUME NEW t \in Threads, FinishControl(t) PROVE Been
  BY <1>1, <1>2, <1>9, <1>12 DEF FinishControl, AnswerHasBeen
<1> QED BY <1>3, <1>4, <1>5, <1>6, <1>7, <1>8, <1>10, <1>11, <1>12 DEF Next

\* Whatever has reached the handle or is on its way to it was true once.
THEOREM ReportsInvariant == Spec => []ReportsHaveBeen
<1>1. Init => ReportsHaveBeen
  BY DEF Init, ReportsHaveBeen, AnswerHasBeen, Idle
<1>2. TypeOK /\ ReportsHaveBeen /\ [Next]_vars => ReportsHaveBeen'
  <2> SUFFICES ASSUME TypeOK, ReportsHaveBeen, [Next]_vars PROVE ReportsHaveBeen'
    OBVIOUS
  <2>1. ServiceOK /\ CallsOK
    BY DEF TypeOK
  <2>2. {state', "running"} \subseteq had' /\ ("deleted" \in had' => state' = "deleted")
    BY HistoryGrows DEF ReportsHaveBeen
  <2>3. \A u \in Threads : AnswerHasBeen(call[u])'
    BY <2>1, AnswersHaveBeen
  <2>4. {status'} \cup observing' \subseteq had' /\ (deleted' => "deleted" \in had')
    BY <2>1, HandleHasBeen
  <2> QED BY <2>2, <2>3, <2>4 DEF ReportsHaveBeen
<1> QED BY <1>1, <1>2, TypeCorrect, PTL DEF Spec

\* A handle that says its sandbox is deleted is right.
THEOREM DeletedIsRight == Spec => []DeletedIsTrue
<1>1. ReportsHaveBeen => DeletedIsTrue
  BY DEF ReportsHaveBeen, DeletedIsTrue
<1> QED BY <1>1, ReportsInvariant, PTL

\* last_observed_status is a state the sandbox has had.
THEOREM StatusIsReal == Spec => []StatusHasBeen
<1>1. ReportsHaveBeen => StatusHasBeen
  BY DEF ReportsHaveBeen, StatusHasBeen
<1> QED BY <1>1, ReportsInvariant, PTL

\* A handle marked deleted stays so, and starts nothing that its guards refuse.
THEOREM DeletedForGood == Spec => DeletedIsFinal
<1> DEFINE Starts(u) == call[u].step = "idle" /\ call'[u].step # "idle"
           Final == deleted => /\ deleted'
                               /\ \A u \in Threads : Starts(u) => call'[u].op \notin GuardedOps
<1>1. TypeOK /\ [Next]_vars => Final
  <2> SUFFICES ASSUME CallsOK, HandleOK, [Next]_vars, deleted PROVE Final
    BY DEF TypeOK
  <2> USE DEF CallsOK, handleVars
  <2>1. CASE UNCHANGED vars \/ Service
    BY <2>1 DEF vars, Service
  <2>2. ASSUME NEW e \in ExecErrors, Observe(e) PROVE Final
    BY <2>2 DEF Observe, HandleOK
  <2>3. ASSUME NEW t \in Threads, NEW op \in DataOps, BeginData(t, op) PROVE Final
    BY <2>3 DEF BeginData, Allowed, GuardedOps, Gone
  <2>4. ASSUME NEW t \in Threads, NEW op \in ControlOps, BeginControl(t, op)
        PROVE  Final
    <3>1. op \notin GuardedOps /\ deleted'
      BY <2>4 DEF BeginControl, Allowed, Gone
    <3>2. call' = [call EXCEPT ![t] = [Idle EXCEPT !.op = op, !.step = "sent"]]
      BY <2>4 DEF BeginControl
    <3>3. [Idle EXCEPT !.op = op, !.step = "sent"].op = op
      BY DEF Idle
    <3> QED BY <3>1, <3>2, <3>3
  <2>5. ASSUME NEW t \in Threads, Return(t), deleted' PROVE Final
    BY <2>5 DEF Return, Idle
  <2>6. ASSUME NEW t \in Threads, call[t].step # "idle", deleted',
               \A u \in Threads \ {t} : call'[u] = call[u]
        PROVE  Final
    BY <2>6
  <2> HIDE DEF Final
  <2>7. ASSUME NEW t \in Threads, Address(t) \/ Send(t) PROVE Final
    BY <2>6, <2>7 DEF Address, Send, Return
  <2>8. ASSUME NEW t \in Threads, ServeData(t) PROVE Final
    BY <2>6, <2>8 DEF ServeData, Return
  <2>9. ASSUME NEW t \in Threads, Finish(t) PROVE Final
    BY <2>5, <2>9 DEF Finish
  <2>10. ASSUME NEW t \in Threads, Refresh(t) \/ StoreRefresh(t) PROVE Final
    BY <2>6, <2>10 DEF Refresh, StoreRefresh, Return
  <2>11. ASSUME NEW t \in Threads, ServeRefresh(t) PROVE Final
    BY <2>6, <2>11 DEF ServeRefresh, Return
  <2>12. ASSUME NEW t \in Threads, ServeControl(t) PROVE Final
    BY <2>6, <2>12 DEF ServeControl, Return
  <2>13. ASSUME NEW t \in Threads, FinishControl(t) PROVE Final
    BY <2>5, <2>13 DEF FinishControl
  <2>14. ASSUME NEW t \in Threads, ClosePool(t) PROVE Final
    BY <2>14 DEF ClosePool, Final
  <2> QED BY <2>1, <2>2, <2>3, <2>4, <2>7, <2>8, <2>9, <2>10, <2>11, <2>12, <2>13, <2>14
          DEF Next
<1>2. Final => [deleted => /\ deleted'
                          /\ \A t \in Threads :
                                call[t].step = "idle" /\ call'[t].step # "idle"
                                => call'[t].op \notin GuardedOps]_vars
  OBVIOUS
<1> QED BY <1>1, <1>2, TypeCorrect, PTL DEF Spec, DeletedIsFinal

-----------------------------------------------------------------------------
(* The capability of a second attempt.                                       *)

\* From a rejection to the second attempt a call goes towards a newer capability.
Renews(c) ==
    /\ c.step = "refresh" => c.seen <= issued
    /\ c.step = "fresh" => c.answer.token = NoToken \/ c.answer.token > c.seen
    /\ c.step \in {"addressed", "stub"} /\ c.attempt = 2 => capability > c.seen
    /\ c.step = "sent" /\ c.attempt = 2 => c.token > c.seen

AloneInv ==
    ~shared => /\ \A t, u \in Threads : t # u => call[t].step = "idle" \/ call[u].step = "idle"
               /\ \A t \in Threads : Renews(call[t])

\* A step of call t, alone in the handle, needs to look only at t.
LEMMA OneCall ==
  ASSUME NEW t \in Threads, AloneInv, shared' = shared,
         \A u \in Threads \ {t} : call'[u] = call[u],
         ~shared => call[t].step # "idle" \/ \A u \in Threads : call[u].step = "idle",
         ~shared => Renews(call[t])'
  PROVE  AloneInv'
<1> SUFFICES ASSUME ~shared'
             PROVE  /\ \A r, u \in Threads :
                          r # u => call'[r].step = "idle" \/ call'[u].step = "idle"
                    /\ \A u \in Threads : Renews(call[u])'
  BY DEF AloneInv
<1>1. ~shared
  OBVIOUS
<1>2. \A u \in Threads \ {t} : call'[u].step = "idle"
  BY <1>1 DEF AloneInv
<1>3. \A u \in Threads \ {t} : Renews(call[u])'
  BY <1>2 DEF Renews
<1> QED BY <1>1, <1>2, <1>3

LEMMA AloneStep == TypeOK /\ FreshIsWhole /\ AloneInv /\ [Next]_vars => AloneInv'
<1> SUFFICES ASSUME ServiceOK, HandleOK, CallsOK, FreshIsWhole, AloneInv, [Next]_vars
             PROVE  AloneInv'
  BY DEF TypeOK
<1> USE DEF CallsOK, serviceVars, handleVars
<1>1. CASE Service \/ UNCHANGED vars
  <2>1. UNCHANGED <<shared, call, capability>> /\ issued' = issued
    BY <1>1 DEF Service, Suspend, Fail, Expire, vars
  <2> QED BY <2>1 DEF AloneInv, Renews
<1>2. ASSUME NEW e \in ExecErrors, Observe(e) PROVE AloneInv'
  BY <1>2 DEF Observe, AloneInv, Renews
<1>3. ASSUME NEW t \in Threads, ClosePool(t) PROVE AloneInv'
  BY <1>3 DEF ClosePool, AloneInv, Renews
<1>4. ASSUME NEW t \in Threads, Return(t), shared' = shared, call[t].step # "idle"
      PROVE  AloneInv'
  <2>1. Renews(call[t])' /\ \A u \in Threads \ {t} : call'[u] = call[u]
    BY <1>4 DEF Return, Renews, Idle
  <2> QED BY <1>4, <2>1, OneCall
<1>5. ASSUME NEW t \in Threads, NEW op \in Ops, NEW s \in {"addressed", "sent"},
             call' = [call EXCEPT ![t] = [Idle EXCEPT !.op = op, !.step = s]],
             Free(t), shared' = shared
      PROVE  AloneInv'
  <2>1. call'[t].step = s /\ call'[t].attempt = 1
    BY <1>5 DEF Idle
  <2>2. Renews(call[t])'
    BY <2>1 DEF Renews
  <2> QED BY <1>5, <2>2, OneCall DEF Free, Resting
<1>6. ASSUME NEW t \in Threads, NEW op \in DataOps, BeginData(t, op) PROVE AloneInv'
  BY <1>5, <1>6 DEF BeginData, Ops
<1>7. ASSUME NEW t \in Threads, NEW op \in ControlOps, BeginControl(t, op) PROVE AloneInv'
  BY <1>5, <1>7 DEF BeginControl, Ops
<1>8. ASSUME NEW t \in Threads, Address(t) PROVE AloneInv'
  <2>1. CASE call' = [call EXCEPT ![t].step = "stub", ![t].at = endpoint]
    <3>1. /\ call[t].step = "addressed" /\ call'[t].step = "stub" /\ shared' = shared
          /\ capability' = capability
          /\ call'[t].attempt = call[t].attempt /\ call'[t].seen = call[t].seen
          /\ \A u \in Threads \ {t} : call'[u] = call[u]
      BY <1>8, <2>1 DEF Address, Calls
    <3>2. ~shared => Renews(call[t])'
      BY <3>1 DEF AloneInv, Renews
    <3> QED BY <3>1, <3>2, OneCall
  <2> QED BY <1>4, <1>8, <2>1 DEF Address
<1>9. ASSUME NEW t \in Threads, Send(t) PROVE AloneInv'
  <2>1. /\ call[t].step = "stub" /\ call'[t].step = "sent" /\ shared' = shared
        /\ call'[t].token = capability
        /\ call'[t].attempt = call[t].attempt /\ call'[t].seen = call[t].seen
        /\ \A u \in Threads \ {t} : call'[u] = call[u]
    BY <1>9 DEF Send, Calls
  <2>2. ~shared => Renews(call[t])'
    BY <2>1 DEF AloneInv, Renews
  <2> QED BY <2>1, <2>2, OneCall
<1>10. ASSUME NEW t \in Threads, call[t].step # "idle", shared' = shared,
              NEW a, call' = [call EXCEPT ![t].step = "answered", ![t].answer = a]
       PROVE  AloneInv'
  <2>1. call'[t].step = "answered" /\ \A u \in Threads \ {t} : call'[u] = call[u]
    BY <1>10 DEF Calls
  <2>2. Renews(call[t])'
    BY <2>1 DEF Renews
  <2> QED BY <1>10, <2>1, <2>2, OneCall
<1>11. ASSUME NEW t \in Threads, ServeData(t) \/ ServeControl(t) PROVE AloneInv'
  BY <1>4, <1>10, <1>11 DEF ServeData, ServeControl
<1>12. ASSUME NEW t \in Threads, Finish(t) \/ FinishControl(t) PROVE AloneInv'
  BY <1>4, <1>12 DEF Finish, FinishControl
<1>13. ASSUME NEW t \in Threads, Refresh(t) PROVE AloneInv'
  <2>1. CASE call' = [call EXCEPT ![t].step = "refresh", ![t].seen = issued,
                                  ![t].answer = Plain("none")]
    <3>1. /\ call[t].step # "idle" /\ call'[t].step = "refresh" /\ call'[t].seen = issued
          /\ shared' = shared /\ issued' = issued
          /\ \A u \in Threads \ {t} : call'[u] = call[u]
      BY <1>13, <2>1 DEF Refresh, Calls
    <3>2. Renews(call[t])'
      BY <3>1 DEF Renews, ServiceOK
    <3> QED BY <3>1, <3>2, OneCall
  <2> QED BY <1>4, <1>13, <2>1 DEF Refresh
<1>14. ASSUME NEW t \in Threads, ServeRefresh(t) PROVE AloneInv'
  <2>1. ASSUME NEW s \in States, NEW e \in Endpoints, NEW c \in 0..MaxTokens,
               call' = [call EXCEPT ![t].step = "fresh", ![t].answer = Found(s, e, c)],
               c = NoToken \/ c = issued + 1
        PROVE  AloneInv'
    <3>1. /\ call[t].step = "refresh" /\ call'[t].step = "fresh" /\ shared' = shared
          /\ call'[t].answer.token = c /\ call'[t].seen = call[t].seen
          /\ \A u \in Threads \ {t} : call'[u] = call[u]
          /\ call[t].seen \in Nat /\ issued \in Nat
      <4>1. Found(s, e, c).token = c
        BY DEF Found
      <4>2. call[t].seen \in Nat /\ issued \in Nat
        BY HandleAssumption DEF Calls, ServiceOK
      <4> QED BY <1>14, <2>1, <4>1, <4>2 DEF ServeRefresh, Calls
    <3>2. ~shared => Renews(call[t])'
      BY <2>1, <3>1 DEF AloneInv, Renews
    <3> QED BY <3>1, <3>2, OneCall
  <2>2. home \in Endpoints /\ Api \in Endpoints /\ state \in States /\ NoToken \in 0..MaxTokens
    BY HandleAssumption DEF ServiceOK, Hosts, NoToken
  <2> QED BY <1>4, <1>14, <2>1, <2>2 DEF ServeRefresh, Issue
<1>15. ASSUME NEW t \in Threads, StoreRefresh(t) PROVE AloneInv'
  <2>1. CASE call[t].answer.state = "failed" /\ call[t].op # "session"
    BY <1>4, <1>15, <2>1 DEF StoreRefresh
  <2>2. CASE ~(call[t].answer.state = "failed" /\ call[t].op # "session")
    <3>1. /\ call[t].step = "fresh" /\ call'[t].step = "addressed" /\ shared' = shared
          /\ capability' = call[t].answer.token /\ call'[t].seen = call[t].seen
          /\ \A u \in Threads \ {t} : call'[u] = call[u]
      BY <1>15, <2>2 DEF StoreRefresh, Calls
    <3>2. call[t].answer.token # NoToken
      BY <2>2, <3>1 DEF FreshIsWhole
    <3>3. ~shared => Renews(call[t])'
      BY <3>1, <3>2 DEF AloneInv, Renews
    <3> QED BY <3>1, <3>3, OneCall
  <2> QED BY <2>1, <2>2
<1> QED BY <1>1, <1>2, <1>3, <1>6, <1>7, <1>8, <1>9, <1>11, <1>12, <1>13, <1>14, <1>15
        DEF Next

\* One call at a time: a second attempt carries a capability newer than the rejection.
THEOREM RetryCarriesNew == Spec => []RetryIsFresh
<1>1. Init => AloneInv
  BY DEF Init, AloneInv, Renews, Idle
<1>2. AloneInv => RetryIsFresh
  BY DEF AloneInv, Renews, RetryIsFresh
<1> QED BY <1>1, <1>2, AloneStep, TypeInvariant, PTL DEF Spec
=============================================================================
