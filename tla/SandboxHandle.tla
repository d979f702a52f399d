--------------------------- MODULE SandboxHandle ---------------------------
(***************************************************************************)
(* Sandbox of src/tyto/_sandbox.py: the handle of one sandbox, with its    *)
(* client's channel pool (ChannelPool) and the sandbox at the service.     *)
(* Threads share the handle, which has no lock: last_observed_status,      *)
(* _deleted, _exec_endpoint and _capability are read and written where the *)
(* calls do it, and a call's own steps (the guard, the endpoint, the       *)
(* capability, the RPC, the update) interleave with those of others.       *)
(*   data calls: exec, a filesystem call ("file"), a managed-session call  *)
(*     or attach ("session"); each is retried once after a refresh;        *)
(*   control calls: snapshot, resume, delete, create_preview, reissue.     *)
(* The transport retries of a control call are ControlPlane's; here it is  *)
(* served once, and its answer may be lost.  What the handle does not tell *)
(* apart from RUNNING (CREATING, SUSPENDING, RESUMING) is "running".       *)
(***************************************************************************)
EXTENDS ChannelPool

CONSTANTS Api,          \* the control-plane endpoint
          MaxTokens     \* bound: capabilities the service issues

ASSUME HandleAssumption ==
    /\ Api \in Endpoints
    /\ MaxTokens \in Nat \ {0}

VARIABLES
    shared,         \* FALSE: the program makes one call at a time
    state,          \* of the sandbox at the service
    had,            \* every state it has had
    home,           \* the endpoint its guest answers at
    issued,         \* capabilities issued so far: 1, ..., issued
    expired,        \* those up to this one have expired
    status,         \* last_observed_status
    deleted,        \* _deleted
    endpoint,       \* _exec_endpoint
    capability,     \* _capability
    observing,      \* exec errors a reader thread has still to hand over
    call            \* the call of each thread

serviceVars == <<state, had, home, issued, expired>>
handleVars  == <<status, deleted, endpoint, capability>>
vars == <<poolVars, shared, serviceVars, handleVars, observing, call>>

-----------------------------------------------------------------------------
States     == {"running", "suspended", "failed", "deleted"}
Hosts      == Endpoints \ {Api}       \* endpoints of guests
NoToken    == 0                       \* "": an answer without a capability
DataOps    == {"exec", "file", "session"}
ControlOps == {"snapshot", "resume", "delete", "preview", "reissue"}
ExecErrors == {"deleted", "suspended", "failed"}

\* What a call was answered.  kind "found": by GetSandbox or a control call,
\* with what it says of the state, the endpoint (Api: none) and the capability.
Answers == [kind : {"none", "ok", "error", "rejected", "found"} \cup ExecErrors,
            state : States, at : Endpoints, token : 0..MaxTokens]
Plain(k) == [kind |-> k, state |-> "running", at |-> Api, token |-> NoToken]
Found(s, e, c) == [kind |-> "found", state |-> s, at |-> e, token |-> c]

\* attempt: 1 or 2; seen: capabilities issued when attempt 1 was rejected.
Ops   == DataOps \cup ControlOps
Steps == {"idle", "addressed", "stub", "sent", "answered", "refresh", "fresh"}
Calls == [op : Ops, step : Steps, attempt : {1, 2}, at : Endpoints,
          token : 0..MaxTokens, seen : 0..MaxTokens, answer : Answers]
Idle == [op |-> "exec", step |-> "idle", attempt |-> 1, at |-> Api,
         token |-> NoToken, seen |-> 0, answer |-> Plain("none")]

\* The call that made the handle has opened the control-plane channel.
Init ==
    /\ PoolInit({Api})
    /\ shared \in BOOLEAN
    /\ state = "running" /\ had = {"running"} /\ home \in Hosts
    /\ issued = 1 /\ expired = 0
    /\ status = "running" /\ deleted = FALSE
    /\ endpoint = home /\ capability = 1
    /\ observing = {} /\ call = [t \in Threads |-> Idle]

Return(t)     == call' = [call EXCEPT ![t] = Idle]

Resting(t) == call[t].step = "idle" /\ closing[t] = {}
Free(t)    == Resting(t) /\ (shared \/ \A u \in Threads : Resting(u))

-----------------------------------------------------------------------------
(* The sandbox at the service.                                             *)

Become(s) == state' = s /\ had' = had \cup {s}

Suspend == state = "running" /\ Become("suspended") /\ UNCHANGED <<home, issued, expired>>

Fail == state # "deleted" /\ Become("failed") /\ UNCHANGED <<home, issued, expired>>

Expire == expired' = issued /\ UNCHANGED <<state, had, home, issued>>

Service ==
    /\ Suspend \/ Fail \/ Expire
    /\ UNCHANGED <<poolVars, shared, handleVars, observing, call>>

\* A waking sandbox may come up on another host.
Wake == Become("running") /\ home' \in Hosts

\* Another capability, or none in the answer.
Issue(c) ==
    \/ c = issued + 1 /\ c <= MaxTokens /\ issued' = c
    \/ c = NoToken /\ UNCHANGED issued

-----------------------------------------------------------------------------
(* Guards: the _ensure_..._allowed functions and those of the other calls. *)

\* (Mutant: only the status is looked at.)
GoneByStatus == status = "deleted"

Gone == deleted \/ status = "deleted"

GuardedOps == DataOps \cup {"snapshot"}

Allowed(op) ==
    /\ op \in GuardedOps => ~Gone
    /\ op \in GuardedOps \cup {"resume"} => status # "failed"
    /\ op = "snapshot" => status # "suspended"
    /\ op = "delete" => ~deleted

\* The first half of a data call: the guard.
BeginData(t, op) ==
    /\ Free(t) /\ Allowed(op)
    /\ call' = [call EXCEPT ![t] = [Idle EXCEPT !.op = op, !.step = "addressed"]]
    /\ UNCHANGED <<poolVars, shared, serviceVars, handleVars, observing>>

\* _exec_stub(self._exec_endpoint): reads the endpoint, takes its channel.
Address(t) ==
    /\ call[t].step = "addressed"
    /\ \/ /\ Get(endpoint)
          /\ call' = [call EXCEPT ![t].step = "stub", ![t].at = endpoint]
       \/ ~MayGet /\ Return(t) /\ UNCHANGED poolVars
    /\ UNCHANGED <<shared, serviceVars, handleVars, observing>>

\* (Mutant: the metadata of the first attempt is used again.)
SendOld(t) ==
    /\ call[t].step = "stub"
    /\ call' = [call EXCEPT ![t].step = "sent",
                            ![t].token = IF @ = NoToken THEN capability ELSE @]
    /\ UNCHANGED <<poolVars, shared, serviceVars, handleVars, observing>>

\* The metadata: reads the capability, and the request is on its way.
Send(t) ==
    /\ call[t].step = "stub"
    /\ call' = [call EXCEPT ![t].step = "sent", ![t].token = capability]
    /\ UNCHANGED <<poolVars, shared, serviceVars, handleVars, observing>>

\* What the guest may answer; a channel closed under the call gives an error.
DataAnswers(c) ==
    IF c.at \notin live \/ c.at # home THEN {"error"}
    ELSE IF c.token <= expired THEN {"error", "rejected"}
    ELSE IF state \in {"deleted", "failed"} THEN {"error", state}
    ELSE IF state = "suspended" THEN {"error", "suspended", "ok"}
    ELSE {"error", "ok"}

\* exec and filesystem requests wake a suspended sandbox that admits them, and
\* attaching to a session does, listing sessions does not.  An error of an exec
\* is the reader thread's to hand over, whatever the caller of exec_stream()
\* goes on to do.  Only a rejection, and a filesystem call that finds the sandbox
\* deleted, leave the handle something to do; other answers end the call.
ServeData(t) ==
    /\ call[t].step = "sent" /\ call[t].op \in DataOps
    /\ \E a \in DataAnswers(call[t]) :
        /\ \/ a = "ok" /\ state = "suspended" /\ Wake /\ UNCHANGED <<issued, expired>>
           \/ ~(a = "ok" /\ state = "suspended" /\ call[t].op # "session")
              /\ UNCHANGED serviceVars
        /\ observing' = observing \cup (IF call[t].op = "exec" THEN {a} \cap ExecErrors ELSE {})
        /\ IF a = "rejected" \/ (a = "deleted" /\ call[t].op = "file")
             THEN call' = [call EXCEPT ![t].step = "answered", ![t].answer = Plain(a)]
             ELSE Return(t)
    /\ UNCHANGED <<poolVars, shared, handleVars>>

-----------------------------------------------------------------------------
(* The end of a data call.                                                 *)

\* (Mutant: the suspended branch is missing.)
ObservedAsFailed(e) == IF e = "deleted" THEN "deleted" ELSE "failed"

\* _observe_exec_error: the status each error stands for; a failed precondition
\* that says neither deleted nor suspended is taken for a failure.
Observed(e) == e

Observe(e) ==
    /\ e \in observing /\ observing' = observing \ {e}
    /\ status' = Observed(e)
    /\ deleted' = (deleted \/ e = "deleted")
    /\ UNCHANGED <<poolVars, shared, serviceVars, endpoint, capability, call>>

\* An exec looks whether the capability the handle holds now has expired; a
\* session call reissues on any rejection, a file call refreshes on any.
MayRetry(c) ==
    /\ c.answer.kind = "rejected" /\ c.attempt = 1
    /\ c.op = "exec" => capability <= expired

Finish(t) ==
    /\ call[t].step = "answered" /\ call[t].op \in DataOps
    /\ ~MayRetry(call[t])
    /\ IF call[t].answer.kind = "deleted"               \* _map_file_error
         THEN status' = "deleted" /\ deleted' = TRUE
         ELSE UNCHANGED <<status, deleted>>
    /\ Return(t)
    /\ UNCHANGED <<poolVars, shared, serviceVars, endpoint, capability, observing>>

\* _refresh_capability_once or reissue_capability: the control call goes out.
Refresh(t) ==
    /\ call[t].step = "answered" /\ MayRetry(call[t])
    /\ \/ /\ Get(Api)
          /\ call' = [call EXCEPT ![t].step = "refresh", ![t].seen = issued,
                                  ![t].answer = Plain("none")]
       \/ ~MayGet /\ Return(t) /\ UNCHANGED poolVars
    /\ UNCHANGED <<shared, serviceVars, handleVars, observing>>

\* GetSandbox answers the state, with an endpoint and a capability unless the
\* sandbox has failed (_sandbox_from_get refuses an answer without them).
\* ReissueCapability answers a capability; without one the call raises.
ServeRefresh(t) ==
    /\ call[t].step = "refresh"
    /\ \/ /\ call[t].op # "session" /\ state # "failed"
          /\ \E c \in 1..MaxTokens :
                /\ Issue(c)
                /\ call' = [call EXCEPT ![t].step = "fresh",
                                        ![t].answer = Found(state, home, c)]
       \/ /\ call[t].op # "session" /\ state = "failed" /\ UNCHANGED issued
          /\ call' = [call EXCEPT ![t].step = "fresh",
                                  ![t].answer = Found(state, Api, NoToken)]
       \/ /\ call[t].op = "session" /\ state \notin {"failed", "deleted"}
          /\ \E c \in 1..MaxTokens :
                /\ Issue(c)
                /\ call' = [call EXCEPT ![t].step = "fresh",
                                        ![t].answer = Found(state, Api, c)]
       \/ Return(t) /\ UNCHANGED issued
    /\ UNCHANGED <<poolVars, shared, state, had, home, expired, handleVars, observing>>

\* The answer goes into the handle and the call starts over, without a look at
\* the guard; a sandbox found to have failed ends it.
StoreRefresh(t) ==
    /\ call[t].step = "fresh"
    /\ LET a == call[t].answer IN
        IF a.state = "failed" /\ call[t].op # "session"
          THEN /\ status' = "failed" /\ Return(t)
               /\ UNCHANGED <<endpoint, capability>>
          ELSE /\ capability' = a.token
               /\ IF call[t].op = "session"
                    THEN UNCHANGED <<status, endpoint>>
                    ELSE status' = a.state /\ endpoint' = a.at
               /\ call' = [call EXCEPT ![t].step = "addressed", ![t].attempt = 2,
                                       ![t].answer = Plain("none")]
    /\ UNCHANGED <<poolVars, shared, serviceVars, deleted, observing>>

-----------------------------------------------------------------------------
(* Control calls.                                                          *)

\* (Mutant: delete() marks the handle before the service has answered.)
BeginControlMarking(t, op) ==
    /\ Free(t) /\ Allowed(op)
    /\ Get(Api)
    /\ call' = [call EXCEPT ![t] = [Idle EXCEPT !.op = op, !.step = "sent"]]
    /\ deleted' = (deleted \/ op = "delete")
    /\ UNCHANGED <<shared, serviceVars, status, endpoint, capability, observing>>

BeginControl(t, op) ==
    /\ Free(t) /\ Allowed(op)
    /\ Get(Api)
    /\ call' = [call EXCEPT ![t] = [Idle EXCEPT !.op = op, !.step = "sent"]]
    /\ UNCHANGED <<shared, serviceVars, handleVars, observing>>

\* What the service does and answers; an answer may be lost, and then the
\* call raises with the handle as it was.
Serve(op, a) ==
    \/ /\ op = "snapshot" /\ state = "running"
       /\ a = Found(state, Api, NoToken) /\ UNCHANGED serviceVars
    \/ /\ op = "resume" /\ state \in {"running", "suspended"}
       /\ IF state = "suspended" THEN Wake ELSE UNCHANGED <<state, had, home>>
       /\ \E c \in 0..MaxTokens : /\ Issue(c) /\ UNCHANGED expired
                                  /\ \/ a = Found("running", home', c)
                                     \/ a = Found("running", Api, c)
    \/ /\ op = "delete"
       /\ Become("deleted") /\ UNCHANGED <<home, issued, expired>>
       /\ a = Found("deleted", Api, NoToken)
    \/ /\ op \in {"preview", "reissue"} /\ state \in {"running", "suspended"}
       /\ \E c \in 0..MaxTokens : Issue(c) /\ a = Found(state, Api, c)
       /\ UNCHANGED <<state, had, home, expired>>

ServeControl(t) ==
    /\ call[t].step = "sent" /\ call[t].op \in ControlOps
    /\ \/ \E s \in States, e \in Endpoints, c \in 0..MaxTokens :
            /\ Serve(call[t].op, Found(s, e, c))
            /\ \/ call' = [call EXCEPT ![t].step = "answered",
                                       ![t].answer = Found(s, e, c)]
               \/ Return(t)
       \/ Return(t) /\ UNCHANGED serviceVars
    /\ UNCHANGED <<poolVars, shared, handleVars, observing>>

\* (Mutant: resume() copies what the answer lacks.)
ResumedWhole(a) == endpoint' = a.at /\ capability' = a.token

\* resume() copies the endpoint and the capability the answer has.
Resumed(a) ==
    /\ endpoint' = IF a.at = Api THEN endpoint ELSE a.at
    /\ capability' = IF a.token = NoToken THEN capability ELSE a.token

FinishControl(t) ==
    /\ call[t].step = "answered" /\ call[t].op \in ControlOps
    /\ LET a == call[t].answer IN
        \/ /\ call[t].op = "resume"
           /\ Resumed(a) /\ status' = "running" /\ UNCHANGED deleted
        \/ /\ call[t].op = "delete"
           /\ deleted' = TRUE /\ status' = "deleted"
           /\ UNCHANGED <<endpoint, capability>>
        \/ /\ call[t].op \in {"preview", "reissue"}
           /\ capability' = IF a.token = NoToken THEN capability ELSE a.token
           /\ UNCHANGED <<status, deleted, endpoint>>
        \/ call[t].op = "snapshot" /\ UNCHANGED handleVars
    /\ Return(t)
    /\ UNCHANGED <<poolVars, shared, serviceVars, observing>>

\* Bonya.close()
ClosePool(t) ==
    /\ \/ Free(t) /\ BeginClose(t)
       \/ CloseChannel(t)
    /\ UNCHANGED <<shared, serviceVars, handleVars, observing, call>>

-----------------------------------------------------------------------------
Next ==
    \/ Service
    \/ \E e \in ExecErrors : Observe(e)
    \/ \E t \in Threads :
        \/ \E op \in DataOps : BeginData(t, op)
        \/ \E op \in ControlOps : BeginControl(t, op)
        \/ Address(t) \/ Send(t) \/ ServeData(t) \/ Finish(t)
        \/ Refresh(t) \/ ServeRefresh(t) \/ StoreRefresh(t)
        \/ ServeControl(t) \/ FinishControl(t)
        \/ ClosePool(t)

Spec == Init /\ [][Next]_vars

-----------------------------------------------------------------------------
(* Properties                                                              *)

ServiceOK ==
    /\ shared \in BOOLEAN
    /\ state \in States /\ had \subseteq States /\ home \in Hosts
    /\ issued \in 1..MaxTokens /\ expired \in 0..MaxTokens
HandleOK ==
    /\ status \in States /\ deleted \in BOOLEAN
    /\ endpoint \in Hosts /\ capability \in 1..MaxTokens
CallsOK == observing \subseteq ExecErrors /\ call \in [Threads -> Calls]

\* The types; the handle always has an endpoint of a guest and a capability,
\* whatever an answer lacks.
TypeOK == PoolTypeOK /\ ServiceOK /\ HandleOK /\ CallsOK

\* A handle that takes its sandbox for deleted is right: a delete() that failed
\* or whose answer was lost, or an error of another kind, does not mark it.
DeletedIsTrue == deleted => state = "deleted"

\* last_observed_status is a state the sandbox has had, whichever calls and
\* reader threads wrote it and in whichever order their answers came.
StatusHasBeen == status \in had

\* A handle marked deleted stays so and starts no data call and no snapshot
\* any more, although a late answer of a resume() or a refresh of another
\* thread writes RUNNING over its status.
DeletedIsFinal ==
    [][deleted => /\ deleted'
                  /\ \A t \in Threads :
                        call[t].step = "idle" /\ call'[t].step # "idle"
                        => call'[t].op \notin GuardedOps]_vars

\* In a program that makes one call at a time, the second attempt of a call
\* carries a capability issued after the first attempt was rejected.
RetryIsFresh ==
    ~shared => \A t \in Threads :
        call[t].step = "sent" /\ call[t].attempt = 2 => call[t].token > call[t].seen

\* The inductive invariant behind the types: what a refresh has found is whole.
FreshIsWhole ==
    \A t \in Threads : call[t].step = "fresh" =>
        LET a == call[t].answer IN
        /\ a.token # NoToken \/ (call[t].op # "session" /\ a.state = "failed")
        /\ call[t].op # "session" /\ a.state # "failed" => a.at # Api

\* The inductive invariant behind DeletedIsTrue, StatusHasBeen and
\* DeletedIsFinal: what is on its way to the handle, in the errors of readers and
\* in the answers of calls, was true once, and a deleted sandbox stays deleted.
AnswerHasBeen(c) ==
    /\ c.step = "fresh" => c.answer.state \in had
    /\ c.step = "answered" /\ c.answer.kind = "deleted" => "deleted" \in had
    /\ c.step = "answered" /\ c.op = "delete" => "deleted" \in had
ReportsHaveBeen ==
    /\ {state, status, "running"} \cup observing \subseteq had
    /\ "deleted" \in had => state = "deleted"
    /\ deleted => "deleted" \in had
    /\ \A t \in Threads : AnswerHasBeen(call[t])
=============================================================================
